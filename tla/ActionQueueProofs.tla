--------------------------- MODULE ActionQueueProofs ---------------------------
(***************************************************************************)
(* Proofs about ActionQueue, for any clips and any number of pushes.       *)
(*                                                                         *)
(* However deep the loops are nested, only the innermost one is looking    *)
(* for code, and the level it found is the best there still is; that the   *)
(* oldest code of it starts follows from how the queues are filled.        *)
(***************************************************************************)
EXTENDS ActionQueue, FiniteSetTheorems, TLAPS

\* A queue holds code of its own level, oldest first.
QueueOrdered ==
  \A l \in Levels : \A i \in DOMAIN queue[l] :
    /\ queue[l][i].level = l
    /\ queue[l][i].n <= pushed
    /\ \A j \in DOMAIN queue[l] : i < j => queue[l][i].n < queue[l][j].n

\* The loops around the innermost one wait for code they started.
InnermostScans == \A i \in 1..(Depth - 1) : stack[i].state # "scan"

\* A loop that goes on knows the best level there is.
ScansBest == InState("scan") => Top.level = MinPopulated(queue)

QueueIInv == TypeOK /\ QueueOrdered /\ InnermostScans /\ ScansBest

-----------------------------------------------------------------------------
(* The operators. *)

\* minPopulatedPriorityQueue finds a level with code, and none below it has any.
LEMMA BestLevel ==
  ASSUME NEW q
  PROVE  /\ MinPopulated(q) \in 0..PrioritySize
         /\ MinPopulated(q) < PrioritySize =>
              MinPopulated(q) \in Levels /\ q[MinPopulated(q)] # << >>
         /\ \A l \in Levels : l < MinPopulated(q) => q[l] = << >>
<1> DEFINE S == {l \in Levels : q[l] # << >>} \cup {PrioritySize}
<1>1. \E x \in S : \A y \in S : x <= y
  <2>1. CASE 0 \in S
    BY <2>1 DEF Levels, PrioritySize
  <2>2. CASE 0 \notin S /\ 1 \in S
    BY <2>2 DEF Levels, PrioritySize
  <2>3. CASE 0 \notin S /\ 1 \notin S /\ 2 \in S
    BY <2>3 DEF Levels, PrioritySize
  <2>4. CASE 0 \notin S /\ 1 \notin S /\ 2 \notin S
    BY <2>4 DEF Levels, PrioritySize
  <2>5. QED
    BY <2>1, <2>2, <2>3, <2>4
<1>2. MinPopulated(q) \in S /\ \A y \in S : MinPopulated(q) <= y
  BY <1>1 DEF MinPopulated, Min
<1>3. QED
  BY <1>2 DEF Levels, PrioritySize

\* The places that remain are in order and all there.
LEMMA OrderedPlaces ==
  ASSUME NEW n \in Nat, NEW P \in SUBSET (1..n), NEW p \in InOrder(P)
  PROVE  /\ Cardinality(P) \in Nat
         /\ p \in [1..Cardinality(P) -> 1..n]
         /\ \A i, j \in DOMAIN p : i < j => p[i] < p[j]
         /\ {p[i] : i \in DOMAIN p} = P
<1>1. IsFiniteSet(P)
  BY FS_Interval, FS_Subset, 1 \in Int, n \in Int
<1>2. Cardinality(P) \in Nat
  BY <1>1, FS_CardinalityType
<1>3. p \in [1..Cardinality(P) -> P]
  BY DEF InOrder
<1>4. QED
  BY <1>2, <1>3 DEF InOrder

\* A loop that is called looks for code.
LEMMA CallingType ==
  ASSUME NEW owner \in {"top", "flush"}, NEW q, NEW below \in Seq(Activations)
  PROVE  /\ Calling(owner, q, below) \in Seq(Activations)
         /\ Len(Calling(owner, q, below)) = Len(below) + 1
         /\ \A i \in 1..Len(below) : Calling(owner, q, below)[i] = below[i]
         /\ Calling(owner, q, below)[Len(below) + 1]
              = [owner |-> owner, level |-> MinPopulated(q), state |-> "scan"]
<1>1. [owner |-> owner, level |-> MinPopulated(q), state |-> "scan"] \in Activations
  BY BestLevel DEF Activations
<1>2. QED
  BY <1>1 DEF Calling
\* A stack without its innermost member.
LEMMA PoppedType ==
  ASSUME stack \in Seq(Activations), ~Idle
  PROVE  /\ Depth \in Nat \ {0} /\ Top \in Activations
         /\ Popped \in Seq(Activations) /\ Len(Popped) = Depth - 1
         /\ \A i \in 1..(Depth - 1) : Popped[i] = stack[i]
<1>1. Depth \in Nat \ {0}
  BY DEF Depth, Idle
<1>2. Top \in Activations
  BY <1>1 DEF Top, Depth
<1>3. Popped \in Seq(Activations) /\ Len(Popped) = Depth - 1
  BY <1>1 DEF Popped, Depth
<1>4. \A i \in 1..(Depth - 1) : Popped[i] = stack[i]
  BY <1>1 DEF Popped, Depth
<1>5. QED
  BY <1>1, <1>2, <1>3, <1>4

\* A stack whose innermost member got to another state.
LEMMA BecomingType ==
  ASSUME stack \in Seq(Activations), ~Idle, NEW s \in {"scan", "code", "unwind"}
  PROVE  /\ Becoming(s) \in Seq(Activations) /\ Len(Becoming(s)) = Depth
         /\ \A i \in 1..(Depth - 1) : Becoming(s)[i] = stack[i]
         /\ Becoming(s)[Depth] = [Top EXCEPT !.state = s]
<1>1. Depth \in Nat \ {0} /\ Top \in Activations
  BY PoppedType
<1>2. [Top EXCEPT !.state = s] \in Activations
  BY <1>1 DEF Activations
<1>3. Becoming(s) = [stack EXCEPT ![Depth] = [Top EXCEPT !.state = s]]
  BY DEF Becoming, Top
<1>4. QED
  BY <1>1, <1>2, <1>3 DEF Depth

\* The frames of a call that neither loop nor end are as they were.
Quiet(below) == below \in Seq(Activations)
                  /\ \A i \in 1..Len(below) : below[i].state # "scan"

\* Where nobody looks for code there is nothing to know.
LEMMA QuietStack ==
  ASSUME Quiet(stack')
  PROVE  stack' \in Seq(Activations) /\ InnermostScans' /\ ScansBest'
<1>1. Depth' \in Nat /\ stack' \in Seq(Activations)
  BY DEF Quiet, Depth
<1>2. \A i \in 1..Depth' : (stack')[i].state # "scan"
  BY DEF Quiet, Depth
<1>3. InnermostScans'
  <2>1. \A i \in 1..(Depth' - 1) : i \in 1..Depth'
    BY <1>1 DEF Depth
  <2>2. QED
    BY <1>2, <2>1 DEF InnermostScans
<1>4. ScansBest'
  BY <1>1, <1>2 DEF ScansBest, InState, Idle, Top, Depth
<1>5. QED
  BY <1>1, <1>3, <1>4

\* A call of a loop from a quiet stack finds the best level.
LEMMA CallStep ==
  ASSUME NEW owner \in {"top", "flush"}, NEW below, Quiet(below),
         stack' = Calling(owner, queue, below), queue' = queue
  PROVE  stack' \in Seq(Activations) /\ InnermostScans' /\ ScansBest'
<1>1. below \in Seq(Activations) /\ Len(below) \in Nat
  BY DEF Quiet
<1>2. /\ stack' \in Seq(Activations) /\ Depth' = Len(below) + 1
      /\ \A i \in 1..Len(below) : (stack')[i] = below[i]
      /\ Top' = [owner |-> owner, level |-> MinPopulated(queue), state |-> "scan"]
  BY <1>1, CallingType DEF Depth, Top
<1>3. InnermostScans'
  BY <1>1, <1>2 DEF InnermostScans, Quiet
<1>4. ScansBest'
  BY <1>2 DEF ScansBest, MinPopulated
<1>5. QED
  BY <1>2, <1>3, <1>4

\* So does a flush, if it does anything at all.
LEMMA FlushStep ==
  ASSUME NEW below, Quiet(below), FlushFrom(below)
  PROVE  /\ stack' \in Seq(Activations) /\ InnermostScans' /\ ScansBest'
         /\ queue' = queue \/ queue' = EmptyQueue
<1>1. CASE stack' = below
  BY <1>1, QuietStack DEF FlushFrom
<1>2. CASE stack' = Calling("flush", queue, below) /\ queue' = queue
  BY <1>2, CallStep
<1>3. QED
  BY <1>1, <1>2 DEF FlushFrom

-----------------------------------------------------------------------------
(* The queues. *)

LEMMA EmptyOrdered ==
  ASSUME TypeOK
  PROVE  /\ EmptyQueue \in [Levels -> Seq(Codes)]
         /\ queue' = EmptyQueue => QueueOrdered'
         /\ queue' = queue /\ pushed' = pushed /\ QueueOrdered => QueueOrdered'
<1>1. EmptyQueue \in [Levels -> Seq(Codes)]
  BY DEF EmptyQueue
<1>2. ASSUME queue' = EmptyQueue
      PROVE  QueueOrdered'
  BY <1>2 DEF QueueOrdered, EmptyQueue
<1>3. ASSUME queue' = queue, pushed' = pushed, QueueOrdered
      PROVE  QueueOrdered'
  BY <1>3 DEF QueueOrdered
<1>4. QED
  BY <1>1, <1>2, <1>3

LEMMA PushQueue ==
  ASSUME TypeOK, QueueOrdered,
         NEW l \in Levels, NEW t \in Targets, PushAction(l, t)
  PROVE  queue' \in [Levels -> Seq(Codes)] /\ pushed' \in 0..MaxPushes /\ QueueOrdered'
<1> DEFINE c == [n |-> pushed + 1, level |-> l, target |-> t]
<1>1. pushed' \in 0..MaxPushes /\ pushed' = pushed + 1 /\ c \in Codes
  BY QueueAssumption DEF PushAction, TypeOK, Codes
<1>2. queue' = [queue EXCEPT ![l] = Append(queue[l], c)]
  BY DEF PushAction
<1>3. queue[l] \in Seq(Codes)
  BY DEF TypeOK
<1>4. queue' \in [Levels -> Seq(Codes)]
  BY <1>1, <1>2, <1>3 DEF TypeOK
<1>5. ASSUME NEW k \in Levels, NEW i \in DOMAIN (queue'[k])
      PROVE  /\ queue'[k][i].level = k
             /\ queue'[k][i].n <= pushed'
             /\ \A j \in DOMAIN (queue'[k]) : i < j => queue'[k][i].n < queue'[k][j].n
  <2>1. CASE k # l
    <3>1. queue'[k] = queue[k] /\ queue[k] \in Seq(Codes)
      BY <2>1, <1>2 DEF TypeOK
    <3>2. queue[k][i] \in Codes /\ pushed \in Int
      BY <3>1, <1>5 DEF TypeOK
    <3>3. queue[k][i].n \in Int
      BY <3>2 DEF Codes
    <3>4. QED
      BY <3>1, <3>2, <3>3, <1>1, <1>5 DEF QueueOrdered
  <2>2. CASE k = l
    <3>1. queue'[k] = Append(queue[k], c) /\ queue[k] \in Seq(Codes)
      BY <2>2, <1>2, <1>3 DEF TypeOK
    <3>2. \A j \in DOMAIN (queue'[k]) :
            IF j = Len(queue[k]) + 1 THEN queue'[k][j] = c
            ELSE j \in DOMAIN queue[k] /\ queue'[k][j] = queue[k][j]
      BY <3>1
    <3>3. \A j \in DOMAIN queue[k] :
            queue[k][j].n \in Int /\ queue[k][j].n <= pushed /\ queue[k][j].level = k
      <4>1. \A j \in DOMAIN queue[k] : queue[k][j] \in Codes
        BY <3>1
      <4>2. \A d \in Codes : d.n \in Int
        BY DEF Codes
      <4>3. QED
        BY <4>1, <4>2 DEF QueueOrdered
    <3>4. DOMAIN (queue'[k]) = 1..(Len(queue[k]) + 1) /\ pushed \in Int
      BY <3>1 DEF TypeOK
    <3>5. queue'[k][i].level = k /\ queue'[k][i].n <= pushed'
      BY <3>2, <3>3, <3>4, <1>1, <2>2
    <3>6. ASSUME NEW j \in DOMAIN (queue'[k]), i < j
          PROVE  queue'[k][i].n < queue'[k][j].n
      <4>1. i \in DOMAIN queue[k] /\ queue'[k][i] = queue[k][i]
        BY <3>1, <3>2, <3>4, <3>6
      <4>2. CASE j = Len(queue[k]) + 1
        BY <4>1, <4>2, <3>2, <3>3, <3>4
      <4>3. CASE j # Len(queue[k]) + 1
        BY <4>1, <4>3, <3>2, <3>6 DEF QueueOrdered
      <4>4. QED
        BY <4>2, <4>3
    <3>7. QED
      BY <3>5, <3>6
  <2>3. QED
    BY <2>1, <2>2
<1>6. QED
  BY <1>1, <1>4, <1>5 DEF QueueOrdered
LEMMA ErasedQueue ==
  ASSUME TypeOK, QueueOrdered, NEW t \in Targets, RemoveQueuedConstructor(t)
  PROVE  /\ queue' \in [Levels -> Seq(Codes)] /\ QueueOrdered'
         /\ \A l \in Levels \ {PriorityConstruct} : queue'[l] = queue[l]
         /\ \A c : (\E i \in DOMAIN (queue'[PriorityConstruct]) :
                       c = queue'[PriorityConstruct][i])
                 <=> (\E i \in DOMAIN queue[PriorityConstruct] :
                       c = queue[PriorityConstruct][i] /\ c.target # t)
<1> DEFINE q == queue[PriorityConstruct]
           P == {i \in DOMAIN q : q[i].target # t}
<1>1. PriorityConstruct \in Levels /\ q \in Seq(Codes) /\ Len(q) \in Nat
      /\ DOMAIN q = 1..Len(q)
  BY DEF TypeOK, PriorityConstruct, Levels
<1>2. PICK kept \in InOrder(P) :
        queue' = [queue EXCEPT ![PriorityConstruct] = [k \in DOMAIN kept |-> q[kept[k]]]]
  BY DEF RemoveQueuedConstructor
<1>3. P \in SUBSET (1..Len(q)) /\ \A i : i \in P <=> i \in DOMAIN q /\ q[i].target # t
  BY <1>1
<1> HIDE DEF P
<1>4. /\ Cardinality(P) \in Nat /\ kept \in [1..Cardinality(P) -> 1..Len(q)]
      /\ \A i, j \in DOMAIN kept : i < j => kept[i] < kept[j]
      /\ {kept[i] : i \in DOMAIN kept} = P
  BY <1>1, <1>2, <1>3, OrderedPlaces
<1>5. /\ queue'[PriorityConstruct] = [k \in 1..Cardinality(P) |-> q[kept[k]]]
      /\ DOMAIN (queue'[PriorityConstruct]) = 1..Cardinality(P)
      /\ \A l \in Levels \ {PriorityConstruct} : queue'[l] = queue[l]
      /\ queue' = [queue EXCEPT ![PriorityConstruct] = queue'[PriorityConstruct]]
  BY <1>1, <1>2, <1>4 DEF TypeOK
<1>6. \A k \in 1..Cardinality(P) :
        kept[k] \in DOMAIN q /\ queue'[PriorityConstruct][k] = q[kept[k]]
  BY <1>1, <1>4, <1>5
<1>7. queue' \in [Levels -> Seq(Codes)]
  <2>1. \A k \in 1..Cardinality(P) : q[kept[k]] \in Codes
    BY <1>1, <1>6
  <2>2. [k \in 1..Cardinality(P) |-> q[kept[k]]] \in [1..Cardinality(P) -> Codes]
    BY <2>1
  <2>3. queue'[PriorityConstruct] \in Seq(Codes)
    BY <2>2, <1>4, <1>5
  <2>4. QED
    BY <2>3, <1>1, <1>5 DEF TypeOK
<1>8. ASSUME NEW l \in Levels, NEW i \in DOMAIN (queue'[l])
      PROVE  /\ queue'[l][i].level = l
             /\ queue'[l][i].n <= pushed'
             /\ \A j \in DOMAIN (queue'[l]) : i < j => queue'[l][i].n < queue'[l][j].n
  <2>1. pushed' = pushed
    BY DEF RemoveQueuedConstructor
  <2>2. CASE l # PriorityConstruct
    BY <2>1, <2>2, <1>5 DEF QueueOrdered
  <2>3. CASE l = PriorityConstruct
    <3>1. i \in 1..Cardinality(P) /\ queue'[l][i] = q[kept[i]] /\ kept[i] \in DOMAIN queue[l]
      BY <2>3, <1>5, <1>6
    <3>2. \A j \in 1..Cardinality(P) : i < j => kept[i] < kept[j]
      BY <3>1, <1>4
    <3>3. QED
      BY <3>1, <3>2, <2>1, <2>3, <1>5, <1>6 DEF QueueOrdered
  <2>4. QED
    BY <2>2, <2>3
<1>9. QueueOrdered'
  BY <1>8 DEF QueueOrdered
<1>10. ASSUME NEW c
       PROVE  (\E i \in DOMAIN (queue'[PriorityConstruct]) :
                 c = queue'[PriorityConstruct][i])
          <=> (\E i \in DOMAIN q : c = q[i] /\ c.target # t)
  <2>1. ASSUME NEW i \in DOMAIN q, c = q[i], c.target # t
        PROVE  \E k \in 1..Cardinality(P) : c = queue'[PriorityConstruct][k]
    <3>1. i \in {kept[k] : k \in DOMAIN kept}
      BY <2>1, <1>3, <1>4
    <3>2. QED
      BY <3>1, <2>1, <1>4, <1>6
  <2>2. ASSUME NEW k \in 1..Cardinality(P), c = queue'[PriorityConstruct][k]
        PROVE  \E i \in DOMAIN q : c = q[i] /\ c.target # t
    <3>1. kept[k] \in P
      BY <1>4
    <3>2. QED
      BY <3>1, <2>2, <1>3, <1>6
  <2>3. QED
    BY <2>1, <2>2, <1>5
<1>11. QED
  BY <1>5, <1>7, <1>9, <1>10

LEMMA TakenQueue ==
  ASSUME TypeOK, QueueOrdered, pushed' = pushed, NEW v \in Levels, queue[v] # << >>,
         queue' = [queue EXCEPT ![v] = Tail(@)]
  PROVE  /\ queue' \in [Levels -> Seq(Codes)] /\ QueueOrdered'
         /\ 1 \in DOMAIN queue[v] /\ Head(queue[v]) = queue[v][1] /\ queue[v][1] \in Codes
         /\ DOMAIN (queue'[v]) = 1..(Len(queue[v]) - 1) /\ Len(queue[v]) \in Nat
         /\ \A i \in DOMAIN (queue'[v]) :
              i + 1 \in DOMAIN queue[v] /\ queue'[v][i] = queue[v][i + 1]
         /\ \A l \in Levels \ {v} : queue'[l] = queue[l]
<1>1. queue[v] \in Seq(Codes) /\ Len(queue[v]) \in Nat \ {0}
  BY DEF TypeOK
<1>2. /\ Tail(queue[v]) \in Seq(Codes)
      /\ DOMAIN Tail(queue[v]) = 1..(Len(queue[v]) - 1)
      /\ \A i \in DOMAIN Tail(queue[v]) :
           i + 1 \in DOMAIN queue[v] /\ Tail(queue[v])[i] = queue[v][i + 1]
  BY <1>1
<1>3. /\ queue'[v] = Tail(queue[v])
      /\ \A l \in Levels \ {v} : queue'[l] = queue[l]
      /\ queue' \in [Levels -> Seq(Codes)]
  BY <1>2 DEF TypeOK
<1>4. 1 \in DOMAIN queue[v] /\ Head(queue[v]) = queue[v][1] /\ queue[v][1] \in Codes
  BY <1>1
<1>5. ASSUME NEW l \in Levels, NEW i \in DOMAIN (queue'[l])
      PROVE  /\ queue'[l][i].level = l
             /\ queue'[l][i].n <= pushed'
             /\ \A j \in DOMAIN (queue'[l]) : i < j => queue'[l][i].n < queue'[l][j].n
  <2>1. CASE l # v
    BY <2>1, <1>3 DEF QueueOrdered
  <2>2. CASE l = v
    <3>1. \A j \in DOMAIN (queue'[l]) :
            /\ j \in Int /\ j + 1 \in DOMAIN queue[l]
            /\ queue'[l][j] = queue[l][j + 1] /\ (i < j => i + 1 < j + 1)
      BY <2>2, <1>2, <1>3
    <3>2. QED
      BY <3>1 DEF QueueOrdered
  <2>3. QED
    BY <2>1, <2>2
<1>6. QED
  BY <1>1, <1>2, <1>3, <1>4, <1>5 DEF QueueOrdered
-----------------------------------------------------------------------------
(* Every step keeps the invariant. *)

\* Code that runs, or an exception that flies, is not a loop that looks.
LEMMA QuietStacks ==
  ASSUME TypeOK, InnermostScans, ~Idle
  PROVE  /\ Quiet(Popped)
         /\ \A s \in {"code", "unwind"} : Quiet(Becoming(s))
         /\ ~InState("scan") => Quiet(stack)
<1>1. stack \in Seq(Activations)
  BY DEF TypeOK
<1>2. Quiet(Popped)
  BY <1>1, PoppedType DEF Quiet, InnermostScans
<1>3. ASSUME NEW s \in {"code", "unwind"}
      PROVE  Quiet(Becoming(s))
  <2>1. /\ Becoming(s) \in Seq(Activations) /\ Len(Becoming(s)) = Depth
        /\ \A i \in 1..(Depth - 1) : Becoming(s)[i] = stack[i]
        /\ Becoming(s)[Depth] = [Top EXCEPT !.state = s]
        /\ Depth \in Nat \ {0} /\ Top \in Activations
    BY <1>1, <1>3, BecomingType, PoppedType
  <2>2. Becoming(s)[Depth].state # "scan"
    BY <2>1, <1>3 DEF Activations
  <2>3. \A i \in 1..Depth : i \in 1..(Depth - 1) \/ i = Depth
    BY <2>1
  <2>4. QED
    BY <2>1, <2>2, <2>3 DEF Quiet, InnermostScans
<1>4. ASSUME ~InState("scan")
      PROVE  Quiet(stack)
  <2>1. Depth \in Nat \ {0} /\ Top.state # "scan"
    BY <1>1, <1>4, PoppedType DEF InState
  <2>2. \A i \in 1..Depth : i \in 1..(Depth - 1) \/ i = Depth
    BY <2>1
  <2>3. QED
    BY <1>1, <2>1, <2>2 DEF Quiet, InnermostScans, Top, Depth
<1>5. QED
  BY <1>2, <1>3, <1>4

\* A loop whose code ended looks again, from the best level there is.
LEMMA CodeEndsStep ==
  ASSUME QueueIInv, CodeEnds
  PROVE  stack' \in Seq(Activations) /\ InnermostScans' /\ ScansBest'
<1>1. stack \in Seq(Activations) /\ ~Idle
  BY DEF QueueIInv, TypeOK, CodeEnds, InState
<1>2. CASE Top.owner = "handler"
  <2>1. stack' = Popped
    BY <1>2 DEF CodeEnds
  <2>2. QED
    BY <1>1, <2>1, QuietStacks, QuietStack DEF QueueIInv
<1>3. CASE Top.owner # "handler"
  <2> DEFINE top == [Top EXCEPT !.level = MinPopulated(queue), !.state = "scan"]
  <2>1. Depth \in Nat \ {0} /\ Top \in Activations
    BY <1>1, PoppedType
  <2>2. stack' = [stack EXCEPT ![Depth].level = MinPopulated(queue), ![Depth].state = "scan"]
    BY <1>3 DEF CodeEnds
  <2>3. stack' = [stack EXCEPT ![Depth] = top]
    BY <1>1, <2>1, <2>2 DEF Top, Depth, Activations
  <2>4. top \in Activations /\ top.level = MinPopulated(queue)
    BY <2>1, BestLevel DEF Activations
  <2> HIDE DEF top
  <2>5. /\ stack' \in Seq(Activations) /\ Depth' = Depth /\ Top' = top
        /\ \A i \in 1..(Depth - 1) : (stack')[i] = stack[i]
    BY <1>1, <2>1, <2>3, <2>4 DEF Top, Depth
  <2>6. InnermostScans'
    BY <2>5 DEF InnermostScans, QueueIInv
  <2>7. queue' = queue
    BY DEF CodeEnds
  <2>8. ScansBest'
    BY <2>4, <2>5, <2>7 DEF ScansBest, MinPopulated
  <2>9. QED
    BY <2>5, <2>6, <2>8
<1>4. QED
  BY <1>2, <1>3

LEMMA QueueInitIInv == Init => QueueIInv
<1>1. Init => TypeOK
  <2>1. EmptyQueue \in [Levels -> Seq(Codes)] /\ << >> \in Seq(Activations)
    BY DEF EmptyQueue
  <2>2. 0 \in 0..MaxPushes /\ PrioritySize \in 0..PrioritySize
    BY QueueAssumption DEF PrioritySize
  <2>3. QED
    BY <2>1, <2>2 DEF Init, TypeOK
<1>2. Init => QueueOrdered /\ InnermostScans /\ ScansBest
  BY DEF Init, QueueOrdered, EmptyQueue, InnermostScans, ScansBest, InState, Idle, Depth
<1>3. QED
  BY <1>1, <1>2 DEF QueueIInv

LEMMA QueueNextIInv == QueueIInv /\ [Next]_vars => QueueIInv'
<1> SUFFICES ASSUME QueueIInv, [Next]_vars
             PROVE  QueueIInv'
  OBVIOUS
<1>1. /\ TypeOK /\ QueueOrdered /\ InnermostScans /\ ScansBest
      /\ stack \in Seq(Activations) /\ queue \in [Levels -> Seq(Codes)]
      /\ level \in 0..PrioritySize /\ disabled \in BOOLEAN
      /\ pushed \in 0..MaxPushes /\ last \in Codes \cup {<< >>}
  BY DEF QueueIInv, TypeOK
<1>2. ASSUME stack' \in Seq(Activations), queue' \in [Levels -> Seq(Codes)],
             level' \in 0..PrioritySize, disabled' \in BOOLEAN,
             pushed' \in 0..MaxPushes, last' \in Codes \cup {<< >>},
             QueueOrdered', InnermostScans', ScansBest'
      PROVE  QueueIInv'
  BY <1>2 DEF QueueIInv, TypeOK
<1>3. ASSUME UNCHANGED stack, Idle \/ InState("code")
      PROVE  stack' \in Seq(Activations) /\ InnermostScans' /\ ScansBest'
  BY <1>1, <1>3 DEF InnermostScans, ScansBest, InState, Idle, Top, Depth
<1>4. ASSUME queue' \in {queue, EmptyQueue}, UNCHANGED <<pushed, last>>
      PROVE  /\ queue' \in [Levels -> Seq(Codes)] /\ QueueOrdered'
             /\ pushed' \in 0..MaxPushes /\ last' \in Codes \cup {<< >>}
  BY <1>1, <1>4, EmptyOrdered
<1>5. CASE \E l \in Levels, t \in Targets : PushAction(l, t)
  <2>1. PICK l \in Levels, t \in Targets : PushAction(l, t)
    BY <1>5
  <2>2. QED
    BY <1>1, <1>2, <1>3, <2>1, PushQueue DEF PushAction
<1>6. CASE \E t \in Targets : RemoveQueuedConstructor(t)
  <2>1. PICK t \in Targets : RemoveQueuedConstructor(t)
    BY <1>6
  <2>2. queue' \in [Levels -> Seq(Codes)] /\ QueueOrdered'
    BY <1>1, <2>1, ErasedQueue
  <2>3. QED
    BY <1>1, <1>2, <1>3, <2>1, <2>2 DEF RemoveQueuedConstructor
<1>7. CASE BeginHandler
  <2> DEFINE h == [owner |-> "handler", level |-> PrioritySize, state |-> "code"]
  <2>1. h \in Activations /\ h.state # "scan" /\ stack' = <<h>>
    BY <1>7 DEF BeginHandler, Activations, PrioritySize
  <2> HIDE DEF h
  <2>2. Quiet(stack')
    BY <2>1 DEF Quiet
  <2>3. QED
    BY <1>1, <1>2, <1>4, <1>7, <2>2, QuietStack DEF BeginHandler
<1>8. CASE BlockEnds
  <2>1. Quiet(stack) /\ FlushFrom(stack)
    BY <1>1, <1>8, QuietStacks DEF BlockEnds, InState
  <2>2. QED
    BY <1>1, <1>2, <1>4, <1>8, <2>1, FlushStep DEF BlockEnds
<1>9. CASE CodeEnds
  <2>1. level' \in 0..PrioritySize
    BY <1>1, <1>9, BestLevel DEF CodeEnds
  <2>2. QED
    BY <1>1, <1>2, <1>4, <1>9, <2>1, CodeEndsStep DEF CodeEnds
<1>10. CASE ProcessActionQueue
  <2>1. level' \in 0..PrioritySize /\ queue' \in {queue, EmptyQueue}
    BY <1>1, <1>10, BestLevel DEF ProcessActionQueue
  <2>2. CASE disabled
    BY <1>1, <1>2, <1>3, <1>4, <1>10, <2>1, <2>2 DEF ProcessActionQueue
  <2>3. CASE ~disabled
    <3>1. Quiet(stack)
      BY <1>1, <1>10 DEF ProcessActionQueue, Quiet, Idle
    <3>2. stack' \in Seq(Activations) /\ InnermostScans' /\ ScansBest'
      BY <3>1, <2>3, <1>10, CallStep DEF ProcessActionQueue
    <3>3. QED
      BY <1>1, <1>2, <1>4, <1>10, <2>1, <3>2 DEF ProcessActionQueue
  <2>4. QED
    BY <2>2, <2>3
<1>11. CASE Execute
  <2>1. Top.level \in Levels /\ queue[Top.level] # << >>
    <3>1. Top.level = MinPopulated(queue) /\ Top.level < Bound(Top.owner)
      BY <1>1, <1>11 DEF Execute, ScansBest
    <3>2. MinPopulated(queue) \in 0..PrioritySize /\ Bound(Top.owner) \in 0..PrioritySize
      BY <1>1, BestLevel DEF Bound, PrioritySize
    <3>3. MinPopulated(queue) < PrioritySize
      BY <3>1, <3>2 DEF PrioritySize
    <3>4. QED
      BY <3>1, <3>3, BestLevel
  <2>2. /\ queue' \in [Levels -> Seq(Codes)] /\ QueueOrdered'
        /\ last' \in Codes
    BY <1>1, <1>11, <2>1, TakenQueue DEF Execute
  <2>3. Quiet(stack')
    BY <1>1, <1>11, QuietStacks DEF Execute, InState
  <2>4. QED
    BY <1>1, <1>2, <1>11, <2>2, <2>3, QuietStack DEF Execute
<1>12. CASE LoopReturns
  <2>1. Quiet(stack')
    BY <1>1, <1>12, QuietStacks DEF LoopReturns, InState
  <2>2. QED
    BY <1>1, <1>2, <1>4, <1>12, <2>1, QuietStack DEF LoopReturns
<1>13. CASE HitLimit
  <2>1. Quiet(Becoming("unwind")) /\ FlushFrom(Becoming("unwind"))
    BY <1>1, <1>13, QuietStacks DEF HitLimit, InState
  <2>2. QED
    BY <1>1, <1>2, <1>4, <1>13, <2>1, FlushStep DEF HitLimit
<1>14. CASE UnwindInner
  <2> DEFINE outer == [Popped EXCEPT ![Depth - 1].state = "unwind"]
  <2>1. Quiet(outer)
    <3>1. /\ Depth \in Nat \ {0, 1} /\ Popped \in Seq(Activations) /\ Quiet(Popped)
          /\ Len(Popped) = Depth - 1
      BY <1>1, <1>14, PoppedType, QuietStacks DEF UnwindInner, InState
    <3>2. Popped[Depth - 1] \in Activations
      BY <3>1
    <3>3. [Popped[Depth - 1] EXCEPT !.state = "unwind"] \in Activations
      BY <3>2 DEF Activations
    <3>4. [Popped[Depth - 1] EXCEPT !.state = "unwind"].state # "scan"
      BY <3>2 DEF Activations
    <3>5. QED
      BY <3>1, <3>3, <3>4 DEF Quiet
  <2>2. FlushFrom(outer) \/ (stack' = outer /\ queue' = queue)
    BY <1>14 DEF UnwindInner
  <2>3. /\ stack' \in Seq(Activations) /\ InnermostScans' /\ ScansBest'
        /\ queue' \in {queue, EmptyQueue}
    BY <2>1, <2>2, FlushStep, QuietStack
  <2>4. QED
    BY <1>1, <1>2, <1>4, <1>14, <2>3 DEF UnwindInner
<1>15. CASE UnwindOutermost
  <2>1. Quiet(stack')
    BY <1>15 DEF UnwindOutermost, Quiet
  <2>2. QED
    BY <1>1, <1>2, <1>4, <1>15, <2>1, QuietStack DEF UnwindOutermost
<1>16. CASE Malformed
  <2>1. Quiet(stack')
    BY <1>16 DEF Malformed, Quiet
  <2>2. QED
    BY <1>1, <1>2, <1>4, <1>16, <2>1, QuietStack DEF Malformed
<1>17. CASE Reset
  BY <1>1, <1>2, <1>3, <1>4, <1>17 DEF Reset
<1>18. CASE UNCHANGED vars
  BY <1>18 DEF vars, QueueIInv, TypeOK, QueueOrdered, InnermostScans, ScansBest,
       InState, Idle, Top, Depth, MinPopulated
<1>19. QED
  BY <1>5, <1>6, <1>7, <1>8, <1>9, <1>10, <1>11, <1>12, <1>13, <1>14, <1>15,
     <1>16, <1>17, <1>18 DEF Next

\* The invariant of the queues and of the loops that empty them.
THEOREM QueueInvariant == Spec => []QueueIInv
<1>1. Init => QueueIInv
  BY QueueInitIInv
<1>2. QueueIInv /\ [Next]_vars => QueueIInv'
  BY QueueNextIInv
<1>3. QED
  BY <1>1, <1>2, PTL DEF Spec

\* Every variable keeps its type.
THEOREM TypeCorrect == Spec => []TypeOK
<1>1. QueueIInv => TypeOK
  BY DEF QueueIInv
<1>2. QED
  BY <1>1, QueueInvariant, PTL

\* A loop that returns has left nothing undone above its bound.
THEOREM LoopsEndDone == Spec => LoopReturnsDone
<1> DEFINE Done == InState("scan") /\ Len(stack') < Depth =>
                     \A l \in Levels : l < Bound(Top.owner) => queue'[l] = << >>
<1>1. QueueIInv /\ [Next]_vars => [Done]_vars
  <2> SUFFICES ASSUME QueueIInv, Next, InState("scan"), Len(stack') < Depth
               PROVE  \A l \in Levels : l < Bound(Top.owner) => queue'[l] = << >>
    BY DEF vars
  <2>1. /\ stack \in Seq(Activations) /\ ~Idle /\ ~InState("code") /\ ~InState("unwind")
        /\ level \in 0..PrioritySize
    BY DEF QueueIInv, TypeOK, InState
  <2>2. ~Execute
    BY <2>1, BecomingType DEF Execute, Depth
  <2>3. LoopReturns
    BY <2>1, <2>2 DEF Next, PushAction, RemoveQueuedConstructor, BeginHandler, BlockEnds,
         CodeEnds, ProcessActionQueue, HitLimit, UnwindInner, UnwindOutermost, Malformed, Reset
  <2>4. Top.level = MinPopulated(queue) /\ queue' = queue
    BY <2>3 DEF LoopReturns, QueueIInv, ScansBest
  <2>5. \A l \in Levels : l < Bound(Top.owner) => l < MinPopulated(queue)
    BY <2>1, <2>3, <2>4, BestLevel DEF LoopReturns, Bound, Levels, PrioritySize
  <2>6. QED
    BY <2>4, <2>5, BestLevel
<1>2. QED
  BY <1>1, QueueInvariant, PTL DEF Spec, LoopReturnsDone

-----------------------------------------------------------------------------
(* The queues are a scheduler. *)

LEMMA Waiting ==
  ASSUME TRUE
  PROVE  \A c : c \in ToPending <=> \E l \in Levels : \E i \in DOMAIN queue[l] : c = queue[l][i]
  BY DEF ToPending

\* Pushing code is submitting it.
LEMMA PushSubmits ==
  ASSUME QueueIInv, NEW l \in Levels, NEW t \in Targets, PushAction(l, t)
  PROVE  Scheduler!Submit(l, t)
<1> DEFINE c == [n |-> pushed + 1, level |-> l, target |-> t]
<1>1. /\ queue' = [queue EXCEPT ![l] = Append(queue[l], c)]
      /\ queue \in [Levels -> Seq(Codes)] /\ queue[l] \in Seq(Codes)
      /\ pushed' = pushed + 1
  BY DEF PushAction, QueueIInv, TypeOK
<1> HIDE DEF c
<1>2. /\ queue'[l] = Append(queue[l], c)
      /\ \A k \in Levels \ {l} : queue'[k] = queue[k]
  BY <1>1
<1>3. /\ DOMAIN (queue'[l]) = DOMAIN queue[l] \cup {Len(queue[l]) + 1}
      /\ queue'[l][Len(queue[l]) + 1] = c
      /\ \A i \in DOMAIN queue[l] : queue'[l][i] = queue[l][i]
  BY <1>1, <1>2
<1>4. ASSUME NEW d
      PROVE  d \in ToPending' <=> d \in ToPending \/ d = c
  <2>1. ASSUME d \in ToPending'
        PROVE  d \in ToPending \/ d = c
    <3>1. PICK k, i : k \in Levels /\ i \in DOMAIN (queue'[k]) /\ d = queue'[k][i]
      BY <2>1 DEF ToPending
    <3>2. QED
      BY <3>1, <1>2, <1>3, Waiting
  <2>2. ASSUME d \in ToPending \/ d = c
        PROVE  \E k \in Levels : \E i \in DOMAIN (queue'[k]) : d = queue'[k][i]
    <3>1. CASE d = c
      BY <3>1, <1>3
    <3>2. CASE d \in ToPending
      <4>1. PICK k, i : k \in Levels /\ i \in DOMAIN queue[k] /\ d = queue[k][i]
        BY <3>2, Waiting
      <4>2. i \in DOMAIN (queue'[k]) /\ queue'[k][i] = queue[k][i]
        BY <4>1, <1>2, <1>3
      <4>3. QED
        BY <4>1, <4>2
    <3>3. QED
      BY <2>2, <3>1, <3>2
  <2>3. QED
    BY <2>1, <2>2 DEF ToPending
<1>5. ToPending' = ToPending \cup {c}
  BY <1>4
<1>6. QED
  BY <1>1, <1>5 DEF PushAction, Scheduler!Submit, c

\* Erasing the constructors of a clip drops just those.
LEMMA ErasureDrops ==
  ASSUME QueueIInv, NEW t \in Targets, RemoveQueuedConstructor(t)
  PROVE  Scheduler!DropConstructors(t)
<1>1. /\ \A l \in Levels \ {PriorityConstruct} : queue'[l] = queue[l]
      /\ \A c : (\E i \in DOMAIN (queue'[PriorityConstruct]) :
                    c = queue'[PriorityConstruct][i])
              <=> (\E i \in DOMAIN queue[PriorityConstruct] :
                    c = queue[PriorityConstruct][i] /\ c.target # t)
  BY ErasedQueue DEF QueueIInv
<1>2. PriorityConstruct \in Levels
  BY DEF PriorityConstruct, Levels
<1>3. \A l \in Levels : \A i \in DOMAIN queue[l] : queue[l][i].level = l
  BY DEF QueueIInv, QueueOrdered
<1>4. ASSUME NEW c
      PROVE  c \in ToPending' <=>
               c \in ToPending /\ (c.level # PriorityConstruct \/ c.target # t)
  <2>1. ASSUME c \in ToPending'
        PROVE  c \in ToPending /\ (c.level # PriorityConstruct \/ c.target # t)
    <3>1. PICK l, i : l \in Levels /\ i \in DOMAIN (queue'[l]) /\ c = queue'[l][i]
      BY <2>1 DEF ToPending
    <3>2. QED
      BY <3>1, <1>1, <1>2, <1>3, Waiting
  <2>2. ASSUME c \in ToPending, c.level # PriorityConstruct \/ c.target # t
        PROVE  \E l \in Levels : \E i \in DOMAIN (queue'[l]) : c = queue'[l][i]
    <3>1. PICK l, i : l \in Levels /\ i \in DOMAIN queue[l] /\ c = queue[l][i]
      BY <2>2, Waiting
    <3>2. QED
      BY <3>1, <2>2, <1>1, <1>2, <1>3
  <2>3. QED
    BY <2>1, <2>2 DEF ToPending
<1>5. ToPending' = {c \in ToPending : c.level # PriorityConstruct \/ c.target # t}
  BY <1>4
<1>6. QED
  BY <1>5 DEF RemoveQueuedConstructor, Scheduler!DropConstructors

\* What a loop executes comes before everything that waits.
LEMMA ExecuteStarts ==
  ASSUME QueueIInv, Execute
  PROVE  \E c \in ToPending : Scheduler!Start(c)
<1> DEFINE v == Top.level
           c == queue[v][1]
<1>1. v = MinPopulated(queue) /\ v < Bound(Top.owner) /\ level \in 0..PrioritySize
  BY DEF Execute, QueueIInv, ScansBest, TypeOK
<1>2. v \in 0..PrioritySize /\ Bound(Top.owner) \in 0..PrioritySize
  BY <1>1, BestLevel DEF Bound, PrioritySize
<1>3. v < PrioritySize
  BY <1>1, <1>2 DEF PrioritySize
<1>4. v \in Levels /\ queue[v] # << >> /\ \A l \in Levels : l < v => queue[l] = << >>
  BY <1>1, <1>3, BestLevel
<1>5. pushed' = pushed /\ queue' = [queue EXCEPT ![v] = Tail(@)] /\ last' = Head(queue[v])
  BY DEF Execute
<1> HIDE DEF v
<1>6. /\ 1 \in DOMAIN queue[v] /\ Head(queue[v]) = c /\ c \in Codes
      /\ DOMAIN (queue'[v]) = 1..(Len(queue[v]) - 1) /\ Len(queue[v]) \in Nat
      /\ \A i \in DOMAIN (queue'[v]) :
            i + 1 \in DOMAIN queue[v] /\ queue'[v][i] = queue[v][i + 1]
      /\ \A l \in Levels \ {v} : queue'[l] = queue[l]
  BY <1>4, <1>5, TakenQueue DEF QueueIInv
<1>7. /\ \A l \in Levels : \A i \in DOMAIN queue[l] :
           queue[l][i].level = l /\ queue[l][i] \in Codes
      /\ \A i, j \in DOMAIN queue[v] : i < j => queue[v][i].n < queue[v][j].n
      /\ DOMAIN queue[v] = 1..Len(queue[v])
  BY <1>4 DEF QueueIInv, QueueOrdered, TypeOK
<1>8. c \in ToPending /\ c.level = v
  BY <1>4, <1>6, <1>7, Waiting
<1>9. ASSUME NEW d \in ToPending, d # c
      PROVE  Scheduler!Before(c, d)
  <2>1. PICK l, i : l \in Levels /\ i \in DOMAIN queue[l] /\ d = queue[l][i]
    BY Waiting
  <2>2. d.level = l
    BY <2>1, <1>7
  <2>3. ~(l < v)
    BY <2>1, <1>4
  <2>4. CASE l = v
    <3>1. i # 1 /\ 1 < i
      BY <2>1, <2>4, <1>7, <1>9
    <3>2. c.n < d.n
      BY <3>1, <2>1, <2>4, <1>6, <1>7
    <3>3. QED
      BY <3>2, <2>2, <2>4, <1>8 DEF Scheduler!Before
  <2>5. CASE v < l
    BY <2>2, <2>5, <1>8 DEF Scheduler!Before
  <2>6. QED
    BY <2>1, <2>3, <2>4, <2>5, <1>4 DEF Levels
<1>10. ASSUME NEW d
       PROVE  d \in ToPending' <=> d \in ToPending /\ d # c
  <2>1. ASSUME d \in ToPending'
        PROVE  d \in ToPending /\ d # c
    <3>1. PICK l, i : l \in Levels /\ i \in DOMAIN (queue'[l]) /\ d = queue'[l][i]
      BY <2>1 DEF ToPending
    <3>2. CASE l = v
      <4>1. i + 1 \in DOMAIN queue[v] /\ d = queue[v][i + 1] /\ 1 < i + 1
        BY <3>1, <3>2, <1>6
      <4>2. c.n < d.n /\ c.n \in Int
        <5>1. c.n \in Int
          BY <1>6 DEF Codes
        <5>2. QED
          BY <5>1, <4>1, <1>6, <1>7
      <4>3. QED
        BY <4>1, <4>2, <1>4, Waiting
    <3>3. CASE l # v
      BY <3>1, <3>3, <1>6, <1>7, <1>8, Waiting
    <3>4. QED
      BY <3>2, <3>3
  <2>2. ASSUME d \in ToPending, d # c
        PROVE  \E l \in Levels : \E i \in DOMAIN (queue'[l]) : d = queue'[l][i]
    <3>1. PICK l, i : l \in Levels /\ i \in DOMAIN queue[l] /\ d = queue[l][i]
      BY <2>2, Waiting
    <3>2. CASE l = v
      <4>1. i \in 2..Len(queue[v])
        BY <3>1, <3>2, <2>2, <1>7
      <4>2. i - 1 \in DOMAIN (queue'[v]) /\ (i - 1) + 1 = i
        BY <4>1, <1>6
      <4>3. d = queue'[v][i - 1]
        BY <4>2, <3>1, <3>2, <1>6
      <4>4. QED
        BY <4>2, <4>3, <1>4
    <3>3. CASE l # v
      BY <3>1, <3>3, <1>6
    <3>4. QED
      BY <3>2, <3>3
  <2>3. QED
    BY <2>1, <2>2 DEF ToPending
<1>11. ToPending' = ToPending \ {c}
  BY <1>10
<1>12. Scheduler!Start(c)
  BY <1>5, <1>6, <1>9, <1>11 DEF Scheduler!Start
<1>13. QED
  BY <1>8, <1>12

LEMMA SchedulerStep == QueueIInv /\ [Next]_vars => [Scheduler!SchedNext]_(Scheduler!schedVars)
<1> SUFFICES ASSUME QueueIInv, [Next]_vars
             PROVE  [Scheduler!SchedNext]_(Scheduler!schedVars)
  OBVIOUS
<1>1. ASSUME queue' \in {queue, EmptyQueue}, UNCHANGED <<pushed, last>>
      PROVE  [Scheduler!SchedNext]_(Scheduler!schedVars)
  <2>1. CASE queue' = queue
    BY <1>1, <2>1 DEF Scheduler!schedVars, ToPending
  <2>2. CASE queue' = EmptyQueue
    <3>1. ToPending' = {}
      BY <2>2 DEF ToPending, EmptyQueue
    <3>2. QED
      BY <1>1, <3>1 DEF Scheduler!SchedNext, Scheduler!DropAll
  <2>3. QED
    BY <1>1, <2>1, <2>2
<1>2. CASE \E l \in Levels, t \in Targets : PushAction(l, t)
  BY <1>2, PushSubmits DEF Scheduler!SchedNext
<1>3. CASE \E t \in Targets : RemoveQueuedConstructor(t)
  BY <1>3, ErasureDrops DEF Scheduler!SchedNext
<1>4. CASE Execute
  BY <1>4, ExecuteStarts DEF Scheduler!SchedNext
<1>5. CASE \/ BeginHandler \/ BlockEnds \/ CodeEnds \/ ProcessActionQueue \/ LoopReturns
           \/ HitLimit \/ UnwindInner \/ UnwindOutermost \/ Malformed \/ Reset
           \/ UNCHANGED vars
  <2>1. UNCHANGED <<pushed, last>>
    BY <1>5 DEF BeginHandler, BlockEnds, CodeEnds, ProcessActionQueue, LoopReturns,
         HitLimit, UnwindInner, UnwindOutermost, Malformed, Reset, vars
  <2>2. queue' \in {queue, EmptyQueue}
    BY <1>5 DEF BeginHandler, BlockEnds, CodeEnds, ProcessActionQueue, LoopReturns,
         HitLimit, UnwindInner, UnwindOutermost, Malformed, Reset, vars, FlushFrom
  <2>3. QED
    BY <1>1, <2>1, <2>2
<1>6. QED
  BY <1>2, <1>3, <1>4, <1>5 DEF Next

\* However deep loops are nested, the code that starts is the oldest of the best
\* priority; code is lost only by an exception, a reset or disabled scripts.
THEOREM QueuesImplementScheduler == Spec => ImplementsScheduler
<1>1. Init => Scheduler!SchedInit
  BY DEF Init, Scheduler!SchedInit, ToPending, EmptyQueue
<1>2. QueueIInv /\ [Next]_vars => [Scheduler!SchedNext]_(Scheduler!schedVars)
  BY SchedulerStep
<1>3. QED
  BY <1>1, <1>2, QueueInvariant, PTL DEF Spec, ImplementsScheduler, Scheduler!SchedSpec
================================================================================
