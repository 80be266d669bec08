--------------------------- MODULE MediaParserProofs ---------------------------
(***************************************************************************)
(* Proofs about MediaParser, for any set of streams and any times.         *)
(*                                                                         *)
(* Between an accepted seek and the moment the parser heeds it the buffers *)
(* may hold anything.  From then on every frame parsed is taken, queued or *)
(* in hand: the invariant says in which one place, and that neither a      *)
(* clearing of the buffers nor the pushing of a stale frame gets between.  *)
(***************************************************************************)
EXTENDS MediaParser, FiniteSetTheorems, TLAPS

\* A place in the stream where there is a frame.
FrameAt(st, p) == p \in 1..Len(st) /\ st[p].kind \in Media

\* Whoever moved the position, to a frame, has asked the parser to drop what it
\* buffered.
SeekPending ==
  /\ since = 0 => seekRequest
  /\ main = "seek" => since = 0 /\ FrameAt(stream, position)
  /\ since <= position

\* Parsing is complete when nothing is left to be pushed, and until a seek.
Finished == parsingComplete => since # 0 /\ position = Len(stream) + 1 /\ inflight = 0

\* Cue points lead to frames.
CuesAreFrames == \A t \in DOMAIN cuePoints : FrameAt(stream, cuePoints[t])

\* The frame that is being taken stays the first until it is removed.
TakenStays == main \in Media => queue[main] # << >>

\* Only frames are pushed, each on the queue of its medium.
Sorted(st, q, fl) ==
  /\ fl # 0 => st[fl].kind \in Media
  /\ \A m \in Media : \A x \in ToSet(q[m]) : st[x].kind = m

\* The frames of a run of tags are taken, queued or in hand, and that once.
Accounted(st, q, tk, fl, from, to) ==
  /\ tk \cup ToSet(q["audio"]) \cup ToSet(q["video"]) \cup ({fl} \ {0})
       = {i \in from..to : st[i].kind \in Media}
  /\ \A m \in Media : /\ IsInjective(q[m])
                      /\ ToSet(q[m]) \cap tk = {}
                      /\ fl \notin ToSet(q[m]) \cup tk

FramesSorted == Sorted(stream, queue, inflight)
FramesAccounted ==
  since # 0 => Accounted(stream, queue, taken, inflight, since, position - 1)

ParserIInv ==
  /\ TypeOK /\ IndexSound
  /\ SeekPending /\ TakenStays /\ Finished
  /\ FramesSorted /\ FramesAccounted /\ CuesAreFrames

-----------------------------------------------------------------------------
(* The operators. *)

\* Natural numbers, be they any, have a smallest.
LEMMA Smallest ==
  ASSUME NEW S \in SUBSET Nat, S # {}
  PROVE  Min(S) \in S /\ \A y \in S : Min(S) <= y
<1>1. \E x \in S : \A y \in S : ~(<<y, x>> \in OpToRel(<, Nat))
  BY NatLessThanWellFounded, WFMin
<1>2. \A x, y \in S : <<y, x>> \in OpToRel(<, Nat) <=> y < x
  BY DEF OpToRel
<1>3. \A x, y \in S : ~(y < x) => x <= y
  OBVIOUS
<1>4. QED
  BY <1>1, <1>2, <1>3 DEF Min

\* Numbers up to some bound have a largest.
LEMMA Largest ==
  ASSUME NEW n \in Nat, NEW S \in SUBSET (0..n), S # {}
  PROVE  Max(S) \in S /\ \A y \in S : Max(S) >= y
<1> DEFINE T == {n - x : x \in S}
<1>1. T \in SUBSET Nat /\ T # {} /\ \A x \in S : x \in 0..n
  <2>1. \A x \in S : x \in 0..n
    OBVIOUS
  <2>2. \A x \in S : n - x \in Nat
    BY <2>1
  <2>3. QED
    BY <2>1, <2>2
<1>2. PICK z \in T : \A y \in T : z <= y
  BY <1>1, Smallest
<1>3. PICK x \in S : z = n - x
  OBVIOUS
<1>4. \A y \in S : n - x <= n - y
  BY <1>2, <1>3
<1>5. \A y \in S : x >= y
  BY <1>1, <1>4
<1>6. QED
  BY <1>5 DEF Max

\* What InsertAt returns, place by place.
LEMMA Inserted ==
  ASSUME NEW V, NEW q \in Seq(V), NEW e \in V, NEW k \in 1..(Len(q) + 1)
  PROVE  /\ InsertAt(q, k, e) \in Seq(V)
         /\ Len(InsertAt(q, k, e)) = Len(q) + 1
         /\ \A j \in 1..(Len(q) + 1) : InsertAt(q, k, e)[j] =
              IF j < k THEN q[j] ELSE IF j = k THEN e ELSE q[j - 1]
<1> DEFINE a == SubSeq(q, 1, k - 1)
           b == SubSeq(q, k, Len(q))
<1>1. /\ a \in Seq(V) /\ Len(a) = k - 1 /\ \A j \in 1..(k - 1) : a[j] = q[j]
  OBVIOUS
<1>2. /\ b \in Seq(V) /\ Len(b) = Len(q) - k + 1
      /\ \A j \in 1..(Len(q) - k + 1) : b[j] = q[k + j - 1]
  OBVIOUS
<1>3. <<e>> \in Seq(V) /\ Len(<<e>>) = 1 /\ <<e>>[1] = e
  OBVIOUS
<1> HIDE DEF a, b
<1>4. /\ a \o <<e>> \in Seq(V) /\ Len(a \o <<e>>) = k
      /\ \A j \in 1..k : (a \o <<e>>)[j] = IF j < k THEN q[j] ELSE e
  BY <1>1, <1>3
<1>5. InsertAt(q, k, e) = (a \o <<e>>) \o b
  BY DEF InsertAt, a, b
<1> DEFINE c == a \o <<e>>
<1>6. c \in Seq(V) /\ Len(c) = k /\ \A j \in 1..k : c[j] = IF j < k THEN q[j] ELSE e
  BY <1>4
<1> HIDE DEF c
<1> HIDE DEF b
<1>7. /\ c \o b \in Seq(V) /\ Len(c \o b) = Len(q) + 1
      /\ \A j \in 1..(Len(q) + 1) : (c \o b)[j] = IF j <= k THEN c[j] ELSE b[j - k]
  <2>1. c \in Seq(V) /\ b \in Seq(V) /\ Len(c) \in Nat /\ Len(b) \in Nat
        /\ Len(q) \in Nat /\ Len(c) + Len(b) = Len(q) + 1
    BY <1>2, <1>6
  <2>2. /\ c \o b \in Seq(V) /\ Len(c \o b) = Len(c) + Len(b)
        /\ \A j \in 1..(Len(c) + Len(b)) :
             (c \o b)[j] = IF j <= Len(c) THEN c[j] ELSE b[j - Len(c)]
    BY <2>1
  <2>3. QED
    BY <2>1, <2>2, <1>6
<1>8. ASSUME NEW j \in 1..(Len(q) + 1)
      PROVE  (c \o b)[j] = IF j < k THEN q[j] ELSE IF j = k THEN e ELSE q[j - 1]
  <2>1. CASE j <= k
    BY <2>1, <1>6, <1>7
  <2>2. CASE j > k
    <3>1. j - k \in 1..(Len(q) - k + 1) /\ k + (j - k) - 1 = j - 1
      BY <2>2
    <3>2. b[j - k] = q[j - 1]
      BY <3>1, <1>2
    <3>3. QED
      BY <3>2, <2>2, <1>7
  <2>3. j <= k \/ j > k
    OBVIOUS
  <2>4. QED
    BY <2>1, <2>2, <2>3
<1>9. QED
  BY <1>5, <1>7, <1>8 DEF c
\* One more member, and still each only once.
LEMMA InsertedSet ==
  ASSUME NEW V, NEW q \in Seq(V), NEW e \in V, NEW k \in 1..(Len(q) + 1)
  PROVE  /\ \A x : x \in ToSet(InsertAt(q, k, e)) <=> x \in ToSet(q) \/ x = e
         /\ IsInjective(q) /\ e \notin ToSet(q) => IsInjective(InsertAt(q, k, e))
<1> DEFINE r == InsertAt(q, k, e)
<1>1. /\ r \in Seq(V) /\ Len(r) = Len(q) + 1 /\ Len(q) \in Nat
      /\ \A j \in 1..(Len(q) + 1) :
           r[j] = IF j < k THEN q[j] ELSE IF j = k THEN e ELSE q[j - 1]
  BY Inserted
<1> HIDE DEF r
<1>2. DOMAIN r = 1..(Len(q) + 1) /\ DOMAIN q = 1..Len(q)
  BY <1>1
<1>3. \A j \in DOMAIN r :
        \/ j < k /\ j \in DOMAIN q /\ r[j] = q[j]
        \/ j = k /\ r[j] = e
        \/ k < j /\ j - 1 \in DOMAIN q /\ r[j] = q[j - 1]
  BY <1>1, <1>2
<1>4. \A j \in DOMAIN q :
        \/ j < k /\ j \in DOMAIN r /\ r[j] = q[j]
        \/ j >= k /\ j + 1 \in DOMAIN r /\ r[j + 1] = q[j]
  <2>1. ASSUME NEW j \in DOMAIN q, j >= k
        PROVE  j + 1 \in DOMAIN r /\ r[j + 1] = q[j]
    <3>1. j + 1 \in DOMAIN r /\ ~(j + 1 < k) /\ j + 1 # k /\ (j + 1) - 1 = j
      BY <1>2, <2>1
    <3>2. QED
      BY <3>1, <1>1, <1>2
  <2>2. ASSUME NEW j \in DOMAIN q, j < k
        PROVE  j \in DOMAIN r /\ r[j] = q[j]
    BY <2>2, <1>1, <1>2
  <2>3. \A j \in DOMAIN q : j < k \/ j >= k
    BY <1>2
  <2>4. QED
    BY <2>1, <2>2, <2>3
<1>5. k \in DOMAIN r /\ r[k] = e
  BY <1>1, <1>2
<1>6. \A x : x \in ToSet(r) <=> x \in ToSet(q) \/ x = e
  BY <1>3, <1>4, <1>5 DEF ToSet
<1>7. ASSUME IsInjective(q), e \notin ToSet(q)
      PROVE  IsInjective(r)
  <2> SUFFICES ASSUME NEW a \in DOMAIN r, NEW b \in DOMAIN r, r[a] = r[b]
               PROVE  a = b
    BY DEF IsInjective
  <2>1. \A i \in DOMAIN q : q[i] # e
    BY <1>7 DEF ToSet
  <2>2. \A i, j \in DOMAIN q : q[i] = q[j] => i = j
    BY <1>7 DEF IsInjective
  <2>3. a \in Int /\ b \in Int
    BY <1>2
  <2>4. CASE a < k
    BY <2>1, <2>2, <2>3, <2>4, <1>3
  <2>5. CASE a = k
    BY <2>1, <2>2, <2>3, <2>5, <1>3
  <2>6. CASE a > k
    BY <2>1, <2>2, <2>3, <2>6, <1>3
  <2>7. QED
    BY <2>3, <2>4, <2>5, <2>6
<1>8. QED
  BY <1>6, <1>7 DEF r

\* The first member goes, and with it that frame.
LEMMA TailSet ==
  ASSUME NEW V, NEW q \in Seq(V), q # << >>
  PROVE  /\ Tail(q) \in Seq(V) /\ Head(q) \in V /\ Head(q) \in ToSet(q)
         /\ ToSet(q) = ToSet(Tail(q)) \cup {Head(q)}
         /\ IsInjective(q) => IsInjective(Tail(q)) /\ Head(q) \notin ToSet(Tail(q))
<1>1. /\ Tail(q) \in Seq(V) /\ Len(q) \in Nat \ {0} /\ Head(q) = q[1] /\ q[1] \in V
      /\ DOMAIN q = 1..Len(q) /\ DOMAIN Tail(q) = 1..(Len(q) - 1)
      /\ \A j \in DOMAIN Tail(q) : Tail(q)[j] = q[j + 1]
  OBVIOUS
<1>2. \A j \in DOMAIN Tail(q) : j + 1 \in DOMAIN q /\ j + 1 # 1 /\ j \in Int
  BY <1>1
<1>3. 1 \in DOMAIN q /\ \A j \in DOMAIN q : j = 1 \/ (j - 1 \in DOMAIN Tail(q) /\ (j - 1) + 1 = j)
  BY <1>1
<1>4. Head(q) \in ToSet(q)
  BY <1>1, <1>3 DEF ToSet
<1>5. ASSUME NEW x
      PROVE  x \in ToSet(q) <=> x \in ToSet(Tail(q)) \/ x = Head(q)
  <2>1. ASSUME NEW j \in DOMAIN q, x = q[j], j # 1
        PROVE  x \in ToSet(Tail(q))
    <3>1. x = Tail(q)[j - 1]
      BY <2>1, <1>1, <1>3
    <3>2. QED
      BY <3>1, <2>1, <1>3 DEF ToSet
  <2>2. x \in ToSet(q) => x \in ToSet(Tail(q)) \/ x = Head(q)
    BY <2>1, <1>1 DEF ToSet
  <2>3. x \in ToSet(Tail(q)) => x \in ToSet(q)
    BY <1>1, <1>2 DEF ToSet
  <2>4. QED
    BY <2>2, <2>3, <1>4
<1>6. ASSUME IsInjective(q)
      PROVE  IsInjective(Tail(q)) /\ Head(q) \notin ToSet(Tail(q))
  <2>1. \A i, j \in DOMAIN q : q[i] = q[j] => i = j
    BY <1>6 DEF IsInjective
  <2>2. \A i, j \in DOMAIN Tail(q) : Tail(q)[i] = Tail(q)[j] => i = j
    BY <2>1, <1>1, <1>2
  <2>3. \A i \in DOMAIN Tail(q) : Tail(q)[i] # q[1]
    BY <2>1, <1>1, <1>2, <1>3
  <2>4. QED
    BY <2>2, <2>3, <1>1 DEF IsInjective, ToSet
<1>7. QED
  BY <1>1, <1>4, <1>5, <1>6

\* As many members as places, where none is there twice.
LEMMA InjectiveLength ==
  ASSUME NEW V, NEW q \in Seq(V), IsInjective(q)
  PROVE  Len(q) = Cardinality(ToSet(q))
<1>1. Len(q) \in Nat /\ q \in [1..Len(q) -> ToSet(q)]
  BY DEF ToSet
<1>2. \A t \in ToSet(q) : \E i \in 1..Len(q) : q[i] = t
  BY DEF ToSet
<1>3. q \in Bijection(1..Len(q), ToSet(q))
  BY <1>1, <1>2 DEF Bijection, Injection, Surjection
<1>4. ExistsBijection(1..Len(q), ToSet(q))
  BY <1>3 DEF ExistsBijection
<1>5. QED
  BY <1>1, <1>4, FS_CountingElements

\* Wherever InsertSorted puts the frame, it inserts it.
LEMMA SortedInsertion ==
  ASSUME NEW q \in Seq(Nat), NEW i
  PROVE  \E k \in 1..(Len(q) + 1) : InsertSorted(q, i) = InsertAt(q, k, i)
<1> DEFINE S == {0} \cup {k \in DOMAIN q : Time(q[k]) <= Time(i)}
<1>1. Len(q) \in Nat /\ S \in SUBSET (0..Len(q)) /\ S # {}
  OBVIOUS
<1>2. Max(S) \in 0..Len(q)
  BY <1>1, Largest
<1>3. Max(S) + 1 \in 1..(Len(q) + 1)
  BY <1>1, <1>2
<1>4. QED
  BY <1>3 DEF InsertSorted

\* What the types say about the stream.
LEMMA StreamType ==
  ASSUME TypeOK
  PROVE  /\ stream \in Seq(Tags) /\ Len(stream) \in Nat /\ DOMAIN stream = 1..Len(stream)
         /\ \A i \in 1..Len(stream) : Time(i) \in Nat /\ stream[i] \in Tags
<1>1. stream \in Seq(Tags)
  BY ParserAssumption DEF TypeOK
<1>2. Len(stream) \in Nat /\ DOMAIN stream = 1..Len(stream)
  BY <1>1
<1>3. \A i \in 1..Len(stream) : stream[i] \in Tags
  BY <1>1, <1>2
<1>4. QED
  BY <1>1, <1>2, <1>3 DEF Time, Tags
-----------------------------------------------------------------------------
(* Every step keeps the invariant. *)

ParserStates == {"loop", "chunk", "tag", "push", "push block", "push wait",
                 "again", "loop block", "loop wait", "exited"}

\* The wakeup leads from a wait to where the thread goes on.
LEMMA WokenType ==
  ASSUME parser \in ParserStates
  PROVE  Woken \in ParserStates /\ (Woken = "push" <=> parser = "push")
BY DEF Woken, ParserStates

\* A step that only moves the threads.
LEMMA ThreadStep ==
  ASSUME ParserIInv, UNCHANGED <<index, parsed, history, inflight, queue>>,
         parser' \in ParserStates, parser' = "push" <=> parser = "push",
         main' \in Media \cup {"run", "seek", "join", "stopped"},
         main' \in Media => queue[main'] # << >>,
         main' = "seek" => main = "seek",
         indexOnly' \in BOOLEAN, kill' \in BOOLEAN, bufferTime' \in BufferTimes,
         seekRequest' \in BOOLEAN, seekRequest => seekRequest', seeks' \in 0..MaxSeeks
  PROVE  ParserIInv'
<1>1. TypeOK'
  BY DEF ParserIInv, TypeOK, ParserStates, index, parsed, history
<1>2. SeekPending' /\ TakenStays' /\ FramesSorted' /\ FramesAccounted'
  BY DEF ParserIInv, TypeOK, SeekPending, TakenStays, FramesSorted, FramesAccounted,
         parsed, history
<1>3. IndexSound' /\ CuesAreFrames' /\ Finished'
  BY DEF ParserIInv, IndexSound, CuesAreFrames, Finished, Time, index, parsed, history
<1>4. QED
  BY <1>1, <1>2, <1>3 DEF ParserIInv

LEMMA ParserMoves ==
  ASSUME ParserIInv, Loop \/ ChooseMode \/ NothingToDo \/ Again \/ Sleep \/ SpuriousWakeup
  PROVE  ParserIInv'
<1>1. /\ parser \in ParserStates /\ main \in Media \cup {"run", "seek", "join", "stopped"}
      /\ main \in Media => queue[main] # << >>
      /\ indexOnly \in BOOLEAN /\ kill \in BOOLEAN /\ seekRequest \in BOOLEAN
      /\ bufferTime \in BufferTimes /\ seeks \in 0..MaxSeeks
  BY DEF ParserIInv, TypeOK, TakenStays, ParserStates
<1>2. UNCHANGED <<index, parsed, history, inflight, queue, main, kill, bufferTime,
                  seekRequest, seeks>>
  BY DEF Loop, ChooseMode, NothingToDo, Again, Sleep, SpuriousWakeup
<1>3. indexOnly' \in BOOLEAN
  <2>1. CASE ~ChooseMode
    BY <1>1, <2>1 DEF Loop, NothingToDo, Again, Sleep, SpuriousWakeup
  <2>2. BufferFull \in BOOLEAN
    BY DEF BufferFull
  <2>3. CASE ChooseMode
    BY <2>2, <2>3 DEF ChooseMode
  <2>4. QED
    BY <2>1, <2>3
<1>4. (parser' \in ParserStates /\ parser' # "push") \/ SpuriousWakeup
  BY DEF Loop, ChooseMode, NothingToDo, Again, Sleep, ParserStates
<1>5. parser' \in ParserStates /\ (parser' = "push" <=> parser = "push")
  BY <1>1, <1>4, WokenType DEF Loop, ChooseMode, NothingToDo, Again, Sleep, SpuriousWakeup
<1>6. QED
  BY <1>1, <1>2, <1>3, <1>5, ThreadStep

LEMMA MainMoves ==
  ASSUME ParserIInv,
         \/ \E m \in Media : NextFrame(m)
         \/ \E t \in SeekTimes : SeekRefused(t)
         \/ \E t \in BufferTimes : SetBufferTime(t)
         \/ StopParser \/ Join
  PROVE  ParserIInv'
<1>1. /\ parser \in ParserStates /\ main \in Media \cup {"run", "seek", "join", "stopped"}
      /\ indexOnly \in BOOLEAN /\ kill \in BOOLEAN /\ seekRequest \in BOOLEAN
      /\ bufferTime \in BufferTimes /\ seeks \in 0..MaxSeeks
  BY DEF ParserIInv, TypeOK, ParserStates
<1>2. UNCHANGED <<index, parsed, history, inflight, queue>>
  BY DEF NextFrame, SeekRefused, SetBufferTime, StopParser, Join, thread
<1>3. CASE \E m \in Media : NextFrame(m)
  <2>1. PICK m \in Media : NextFrame(m)
    BY <1>3
  <2>2. QED
    BY <1>1, <1>2, <2>1, ThreadStep DEF NextFrame, thread, Media
<1>4. CASE \E t \in SeekTimes : SeekRefused(t)
  <2>1. /\ main = "run" /\ seeks < MaxSeeks /\ seekRequest' = TRUE /\ seeks' = seeks + 1
        /\ UNCHANGED <<thread, bufferTime, kill, main>>
    BY <1>4 DEF SeekRefused
  <2>2. seeks' \in 0..MaxSeeks
    BY <2>1, <1>1, ParserAssumption
  <2>3. QED
    BY <1>1, <1>2, <2>1, <2>2, ThreadStep DEF thread, Media
<1>5. CASE \E t \in BufferTimes : SetBufferTime(t)
  BY <1>1, <1>2, <1>5, ThreadStep DEF SetBufferTime, thread, Media
<1>6. CASE StopParser
  BY <1>1, <1>2, <1>6, ThreadStep, WokenType DEF StopParser, Media
<1>7. CASE Join
  BY <1>1, <1>2, <1>7, ThreadStep DEF Join, thread, Media
<1>8. QED
  BY <1>3, <1>4, <1>5, <1>6, <1>7
\* Empty buffers hold no frame twice.
LEMMA EmptyBuffers ==
  ASSUME NEW V, NEW q, q = [m \in Media |-> << >>]
  PROVE  q \in [Media -> Seq(V)] /\ \A m \in Media : ToSet(q[m]) = {} /\ IsInjective(q[m])
<1>1. \A m \in Media : q[m] = << >>
  OBVIOUS
<1>2. ToSet(<< >>) = {} /\ IsInjective(<< >>)
  BY DEF ToSet, IsInjective
<1>3. q \in [Media -> Seq(V)]
  OBVIOUS
<1>4. QED
  BY <1>1, <1>2, <1>3

\* Whether it found a request or not: what is buffered now are the frames of
\* the run before the position.
LEMMA HeedStep ==
  ASSUME ParserIInv, HeedSeek
  PROVE  /\ parser = "tag" /\ inflight = 0 /\ main # "seek" /\ ~seekRequest'
         /\ queue' \in [Media -> Seq(1..Len(stream))] /\ ~parsingComplete
         /\ since' \in 1..position /\ taken' \subseteq 1..Len(stream)
         /\ main \in Media => queue'[main] # << >>
         /\ Sorted(stream, queue', 0)
         /\ Accounted(stream, queue', taken', 0, since', position - 1)
<1>1. /\ parser = "tag" /\ inflight = 0 /\ main # "seek" /\ ~seekRequest' /\ ~parsingComplete
      /\ position \in 1..(Len(stream) + 1) /\ Len(stream) \in Nat
      /\ since \in 0..(Len(stream) + 1) /\ taken \subseteq 1..Len(stream)
      /\ queue \in [Media -> Seq(1..Len(stream))] /\ seekRequest \in BOOLEAN
  BY StreamType DEF HeedSeek, StreamMutexFree, ParserIInv, TypeOK
<1>2. CASE seekRequest
  <2>1. /\ queue' = [m \in Media |-> << >>] /\ since' = position /\ taken' = {}
        /\ main \notin Media
    BY <1>2 DEF HeedSeek, QMutexFree
  <2>2. /\ queue' \in [Media -> Seq(1..Len(stream))]
        /\ \A m \in Media : ToSet(queue'[m]) = {} /\ IsInjective(queue'[m])
    BY <2>1, EmptyBuffers
  <2>3. {i \in position..(position - 1) : stream[i].kind \in Media} = {}
    BY <1>1
  <2>4. Accounted(stream, queue', taken', 0, since', position - 1)
    BY <2>1, <2>2, <2>3 DEF Accounted, Media
  <2>5. Sorted(stream, queue', 0)
    BY <2>2 DEF Sorted
  <2>6. QED
    BY <1>1, <2>1, <2>2, <2>4, <2>5
<1>3. CASE ~seekRequest
  <2>1. queue' = queue /\ since' = since /\ taken' = taken
    BY <1>3 DEF HeedSeek
  <2>2. since # 0 /\ since <= position
    BY <1>3 DEF ParserIInv, SeekPending
  <2>3. since \in 1..position
    BY <1>1, <2>2
  <2>4. QED
    BY <1>1, <1>3, <2>1, <2>3 DEF ParserIInv, TakenStays, FramesSorted, FramesAccounted
<1>4. QED
  BY <1>1, <1>2, <1>3

LEMMA EndOfStreamStep == ASSUME ParserIInv, EndOfStream PROVE ParserIInv'
<1>1. /\ inflight' = 0 /\ UNCHANGED <<stream, position, nextIndex, cuePoints, main>>
      /\ queue' \in [Media -> Seq(1..Len(stream))] /\ ~seekRequest'
      /\ since' \in 1..position /\ taken' \subseteq 1..Len(stream)
      /\ main \in Media => queue'[main] # << >>
      /\ Sorted(stream, queue', 0) /\ main # "seek"
      /\ Accounted(stream, queue', taken', 0, since', position - 1)
  BY HeedStep DEF EndOfStream
<1>2. /\ parser' = "again" /\ seekRequest' \in BOOLEAN
      /\ parsingComplete' \in BOOLEAN /\ indexingCompleted' \in BOOLEAN
      /\ UNCHANGED <<infos, indexOnly, kill, bufferTime, seeks>>
  BY DEF EndOfStream, HeedSeek, ParserIInv, TypeOK
<1>3. Len(stream) \in Nat /\ position \in 1..(Len(stream) + 1)
  BY StreamType DEF ParserIInv, TypeOK
<1>4. since' \in 0..(Len(stream) + 1)
  BY <1>1, <1>3
<1>5. TypeOK'
  <2>1. inflight' \in 0..Len(stream) /\ (inflight' # 0 <=> parser' = "push")
    BY <1>1, <1>2, <1>3
  <2>2. QED
    BY <1>1, <1>2, <1>4, <2>1 DEF ParserIInv, TypeOK
<1>6. SeekPending' /\ TakenStays'
  BY <1>1, <1>3 DEF SeekPending, TakenStays
<1>7. FramesSorted' /\ FramesAccounted'
  BY <1>1 DEF FramesSorted, FramesAccounted
<1>8. IndexSound' /\ CuesAreFrames'
  BY <1>1 DEF ParserIInv, IndexSound, CuesAreFrames, Time
<1>9. Finished'
  <2>1. since' # 0
    BY <1>1, <1>3
  <2>2. CASE indexOnly
    BY <2>2, HeedStep DEF Finished, EndOfStream
  <2>3. CASE ~indexOnly
    <3>1. position = Len(stream) + 1
      BY <2>3, <1>3 DEF EndOfStream
    <3>2. QED
      BY <2>1, <3>1, <1>1 DEF Finished
  <2>4. QED
    BY <2>2, <2>3
<1>10. QED
  BY <1>5, <1>6, <1>7, <1>8, <1>9 DEF ParserIInv

\* A tag adds its cue point, if it is one; the cue points there are stay, but
\* for one of the same time.
LEMMA IndexedType ==
  ASSUME ParserIInv, NEW i \in 1..Len(stream)
  PROVE  /\ DOMAIN Indexed(i) \subseteq Nat /\ DOMAIN cuePoints \subseteq DOMAIN Indexed(i)
         /\ \A t \in DOMAIN Indexed(i) :
              /\ Indexed(i)[t] \in {k \in 1..Len(stream) : k < nextIndex \/ k = i}
              /\ Time(Indexed(i)[t]) = t
              /\ FrameAt(stream, Indexed(i)[t])
         /\ stream[i].kind = "video" /\ stream[i].key => Time(i) \in DOMAIN Indexed(i)
<1>1. Time(i) \in Nat
  BY StreamType DEF ParserIInv
<1>2. /\ DOMAIN cuePoints \subseteq Nat
      /\ \A t \in DOMAIN cuePoints : /\ cuePoints[t] \in 1..Len(stream)
                                     /\ cuePoints[t] < nextIndex /\ Time(cuePoints[t]) = t
                                     /\ FrameAt(stream, cuePoints[t])
  BY DEF ParserIInv, TypeOK, IndexSound, CuesAreFrames
<1>3. CASE IsCuePoint(i)
  <2>1. Indexed(i) = [t \in DOMAIN cuePoints \cup {Time(i)} |->
                        IF t = Time(i) THEN i ELSE cuePoints[t]]
    BY <1>3 DEF Indexed
  <2>2. FrameAt(stream, i)
    BY <1>3 DEF IsCuePoint, FrameAt, Media
  <2>3. QED
    BY <1>1, <1>2, <2>1, <2>2
<1>4. CASE ~IsCuePoint(i)
  <2>1. Indexed(i) = cuePoints
    BY <1>4 DEF Indexed
  <2>2. ~(stream[i].kind = "video" /\ stream[i].key)
    BY <1>4 DEF IsCuePoint
  <2>3. QED
    BY <1>2, <2>1, <2>2
<1>5. QED
  BY <1>3, <1>4

LEMMA IndexTagStep == ASSUME ParserIInv, IndexTag PROVE ParserIInv'
<1>1. /\ inflight' = 0 /\ UNCHANGED <<stream, position, main>>
      /\ queue' \in [Media -> Seq(1..Len(stream))] /\ ~seekRequest'
      /\ since' \in 1..position /\ taken' \subseteq 1..Len(stream)
      /\ main \in Media => queue'[main] # << >>
      /\ Sorted(stream, queue', 0) /\ main # "seek"
      /\ Accounted(stream, queue', taken', 0, since', position - 1)
  BY HeedStep DEF IndexTag, parsed
<1>2. /\ parser' = "again" /\ seekRequest' \in BOOLEAN
      /\ UNCHANGED <<parsingComplete, indexingCompleted, infos, indexOnly, kill,
                      bufferTime, seeks>>
  BY DEF IndexTag, HeedSeek, parsed
<1>3. Len(stream) \in Nat /\ position \in 1..(Len(stream) + 1)
      /\ nextIndex \in 1..(Len(stream) + 1) /\ nextIndex <= Len(stream)
      /\ position <= nextIndex
  BY StreamType DEF ParserIInv, TypeOK, IndexTag, IndexSound
<1>4. nextIndex \in 1..Len(stream) /\ nextIndex' = nextIndex + 1
      /\ nextIndex' \in 1..(Len(stream) + 1) /\ since' \in 0..(Len(stream) + 1)
  BY <1>1, <1>3 DEF IndexTag
<1>5. cuePoints' = Indexed(nextIndex)
  BY DEF IndexTag
<1>6. /\ DOMAIN (cuePoints') \subseteq Nat /\ DOMAIN cuePoints \subseteq DOMAIN (cuePoints')
      /\ \A t \in DOMAIN (cuePoints') :
           /\ cuePoints'[t] \in {k \in 1..Len(stream) : k < nextIndex \/ k = nextIndex}
           /\ Time(cuePoints'[t]) = t /\ FrameAt(stream, cuePoints'[t])
      /\ stream[nextIndex].kind = "video" /\ stream[nextIndex].key =>
           Time(nextIndex) \in DOMAIN (cuePoints')
  <2>1. PICK i \in 1..Len(stream) : i = nextIndex
    BY <1>4
  <2>2. cuePoints' = Indexed(i)
    BY <1>5, <2>1
  <2>3. DOMAIN (cuePoints') \subseteq Nat /\ DOMAIN cuePoints \subseteq DOMAIN (cuePoints')
    BY <2>2, IndexedType
  <2>4. \A t \in DOMAIN (cuePoints') :
          /\ cuePoints'[t] \in {k \in 1..Len(stream) : k < nextIndex \/ k = i}
          /\ Time(cuePoints'[t]) = t
          /\ FrameAt(stream, cuePoints'[t])
    BY <2>2, IndexedType
  <2>5. stream[i].kind = "video" /\ stream[i].key => Time(i) \in DOMAIN (cuePoints')
    BY <2>2, IndexedType
  <2>6. QED
    BY <2>1, <2>3, <2>4, <2>5
<1>7. TypeOK'
  <2>1. inflight' \in 0..Len(stream) /\ (inflight' # 0 <=> parser' = "push")
    BY <1>1, <1>2, <1>3
  <2>2. QED
    BY <1>1, <1>2, <1>4, <1>6, <2>1 DEF ParserIInv, TypeOK
<1>8. SeekPending' /\ TakenStays'
  BY <1>1, <1>3 DEF SeekPending, TakenStays
<1>9. FramesSorted' /\ FramesAccounted'
  BY <1>1 DEF FramesSorted, FramesAccounted
<1>10. IndexSound'
  <2>1. \A i \in 1..(nextIndex' - 1) : i \in 1..(nextIndex - 1) \/ i = nextIndex
    BY <1>3, <1>4
  <2>2. \A i \in 1..(nextIndex' - 1) :
          stream[i].kind = "video" /\ stream[i].key => Time(i) \in DOMAIN (cuePoints')
    BY <2>1, <1>6 DEF ParserIInv, IndexSound
  <2>3. \A t \in DOMAIN (cuePoints') :
          cuePoints'[t] < nextIndex' /\ Time(cuePoints'[t]) = t
    BY <1>3, <1>4, <1>6
  <2>4. position' <= nextIndex'
    BY <1>1, <1>3, <1>4
  <2>5. QED
    BY <2>2, <2>3, <2>4, <1>1 DEF IndexSound, Time
<1>11. CuesAreFrames'
  BY <1>1, <1>6 DEF CuesAreFrames
<1>12. Finished'
  BY <1>2, HeedStep DEF Finished, IndexTag
<1>13. QED
  BY <1>7, <1>8, <1>9, <1>10, <1>11, <1>12 DEF ParserIInv
LEMMA MaxOfTwo ==
  ASSUME NEW a \in Int, NEW b \in Int
  PROVE  Max({a, b}) = IF a >= b THEN a ELSE b
<1>1. \A x \in {a, b} : (\A y \in {a, b} : x >= y) <=> x = IF a >= b THEN a ELSE b
  OBVIOUS
<1>2. (IF a >= b THEN a ELSE b) \in {a, b}
  OBVIOUS
<1>3. QED
  BY <1>1, <1>2 DEF Max

\* The tag at the position joins the run, with its frame in hand if it has one.
LEMMA ParsedAccounted ==
  ASSUME NEW st, NEW q, NEW tk, NEW p \in Nat \ {0}, NEW from \in 1..p,
         Accounted(st, q, tk, 0, from, p - 1),
         NEW fl, fl = IF st[p].kind \in Media THEN p ELSE 0
  PROVE  Accounted(st, q, tk, fl, from, p)
<1> DEFINE S == tk \cup ToSet(q["audio"]) \cup ToSet(q["video"])
<1>1. S = {i \in from..(p - 1) : st[i].kind \in Media}
  BY DEF Accounted
<1>2. p \notin S /\ 0 \notin S
  BY <1>1
<1>3. \A i : i \in from..p <=> i \in from..(p - 1) \/ i = p
  OBVIOUS
<1>4. S \cup ({fl} \ {0}) = {i \in from..p : st[i].kind \in Media}
  <2>1. CASE st[p].kind \in Media
    BY <2>1, <1>1, <1>3
  <2>2. CASE st[p].kind \notin Media
    BY <2>2, <1>1, <1>3
  <2>3. QED
    BY <2>1, <2>2
<1>5. \A m \in Media : fl \notin ToSet(q[m]) \cup tk
  BY <1>2 DEF Media
<1>6. QED
  BY <1>4, <1>5 DEF Accounted

LEMMA ParseTagStep == ASSUME ParserIInv, ParseTag PROVE ParserIInv'
<1> DEFINE kind == stream[position].kind
<1>1. /\ UNCHANGED <<stream, main>>
      /\ queue' \in [Media -> Seq(1..Len(stream))] /\ ~seekRequest'
      /\ since' \in 1..position /\ taken' \subseteq 1..Len(stream)
      /\ main \in Media => queue'[main] # << >>
      /\ Sorted(stream, queue', 0) /\ main # "seek"
      /\ Accounted(stream, queue', taken', 0, since', position - 1)
  BY HeedStep DEF ParseTag
<1>2. /\ parser' = IF kind \in Media THEN "push" ELSE "again"
      /\ inflight' = IF kind \in Media THEN position ELSE 0
      /\ position' = position + 1 /\ position <= Len(stream)
      /\ nextIndex' = Max({nextIndex, position + 1}) /\ infos' = infos \cup ({kind} \cap Media)
      /\ UNCHANGED <<parsingComplete, indexingCompleted, indexOnly, kill, bufferTime, seeks>>
  BY DEF ParseTag, HeedSeek
<1>3. Len(stream) \in Nat /\ position \in 1..(Len(stream) + 1)
      /\ nextIndex \in 1..(Len(stream) + 1) /\ position <= nextIndex
  BY StreamType DEF ParserIInv, TypeOK, IndexSound
<1>4. position \in 1..Len(stream) /\ position' \in 1..(Len(stream) + 1)
      /\ since' \in 0..(Len(stream) + 1)
  BY <1>1, <1>2, <1>3
<1>5. nextIndex' = IF nextIndex >= position + 1 THEN nextIndex ELSE position + 1
  BY <1>2, <1>3, MaxOfTwo
<1>6. /\ DOMAIN (cuePoints') \subseteq Nat /\ DOMAIN cuePoints \subseteq DOMAIN (cuePoints')
      /\ \A t \in DOMAIN (cuePoints') :
           /\ cuePoints'[t] \in {k \in 1..Len(stream) : k < nextIndex \/ k = position}
           /\ Time(cuePoints'[t]) = t /\ FrameAt(stream, cuePoints'[t])
      /\ position + 1 >= nextIndex /\ kind = "video" /\ stream[position].key =>
           Time(position) \in DOMAIN (cuePoints')
  <2>1. PICK i \in 1..Len(stream) : i = position
    BY <1>4
  <2>2. CASE position + 1 >= nextIndex
    <3>1. cuePoints' = Indexed(i)
      BY <2>1, <2>2 DEF ParseTag
    <3>2. DOMAIN (cuePoints') \subseteq Nat /\ DOMAIN cuePoints \subseteq DOMAIN (cuePoints')
      BY <3>1, IndexedType
    <3>3. \A t \in DOMAIN (cuePoints') :
            /\ cuePoints'[t] \in {k \in 1..Len(stream) : k < nextIndex \/ k = i}
            /\ Time(cuePoints'[t]) = t
            /\ FrameAt(stream, cuePoints'[t])
      BY <3>1, IndexedType
    <3>4. stream[i].kind = "video" /\ stream[i].key => Time(i) \in DOMAIN (cuePoints')
      BY <3>1, IndexedType
    <3>5. QED
      BY <2>1, <3>2, <3>3, <3>4
  <2>3. CASE ~(position + 1 >= nextIndex)
    <3>1. cuePoints' = cuePoints
      BY <2>3 DEF ParseTag
    <3>2. DOMAIN cuePoints \subseteq Nat
      BY DEF ParserIInv, TypeOK
    <3>3. \A t \in DOMAIN cuePoints :
            /\ cuePoints[t] \in 1..Len(stream) /\ cuePoints[t] < nextIndex
            /\ Time(cuePoints[t]) = t /\ FrameAt(stream, cuePoints[t])
      BY DEF ParserIInv, TypeOK, IndexSound, CuesAreFrames
    <3>4. QED
      BY <2>3, <3>1, <3>2, <3>3
  <2>4. QED
    BY <2>2, <2>3
<1>7. nextIndex' \in 1..(Len(stream) + 1) /\ nextIndex <= nextIndex' /\ position < nextIndex'
  BY <1>3, <1>4, <1>5
<1>8. TypeOK'
  <2>1. inflight' \in 0..Len(stream) /\ (inflight' # 0 <=> parser' = "push")
    BY <1>2, <1>4
  <2>2. infos' \subseteq Media
    BY <1>2 DEF ParserIInv, TypeOK
  <2>3. \A t \in DOMAIN (cuePoints') : cuePoints'[t] \in 1..Len(stream)
    BY <1>6
  <2>4. seekRequest' \in BOOLEAN
    BY DEF ParseTag, HeedSeek
  <2>5. parser' \in {"push", "again"}
    BY <1>2
  <2>6. QED
    BY <1>1, <1>2, <1>4, <1>6, <1>7, <2>1, <2>2, <2>3, <2>4, <2>5 DEF ParserIInv, TypeOK
<1>9. SeekPending' /\ TakenStays'
  BY <1>1, <1>2, <1>3 DEF SeekPending, TakenStays
<1>10. FramesSorted'
  BY <1>1, <1>2 DEF FramesSorted, Sorted
<1>11. FramesAccounted'
  <2>1. Accounted(stream, queue', taken', inflight', since', position)
    BY <1>1, <1>2, <1>4, ParsedAccounted
  <2>2. position' - 1 = position
    BY <1>2, <1>4
  <2>3. QED
    BY <1>1, <2>1, <2>2 DEF FramesAccounted
<1>12. IndexSound'
  <2>1. ASSUME NEW i \in 1..(nextIndex' - 1), stream[i].kind = "video", stream[i].key
        PROVE  Time(i) \in DOMAIN (cuePoints')
    <3>1. CASE i < nextIndex
      <4>1. i \in 1..(nextIndex - 1)
        BY <3>1, <1>3
      <4>2. QED
        BY <4>1, <2>1, <1>6 DEF ParserIInv, IndexSound
    <3>2. CASE ~(i < nextIndex)
      <4>1. i = position /\ position + 1 >= nextIndex
        BY <3>2, <1>3, <1>5
      <4>2. QED
        BY <4>1, <2>1, <1>6
    <3>3. QED
      BY <3>1, <3>2
  <2>2. \A t \in DOMAIN (cuePoints') :
          cuePoints'[t] < nextIndex' /\ Time(cuePoints'[t]) = t
    BY <1>3, <1>6, <1>7
  <2>3. position' <= nextIndex'
    BY <1>2, <1>3, <1>5
  <2>4. QED
    BY <2>1, <2>2, <2>3, <1>1 DEF IndexSound, Time
<1>13. CuesAreFrames'
  BY <1>1, <1>6 DEF CuesAreFrames
<1>14. Finished'
  BY <1>2, HeedStep DEF Finished, ParseTag
<1>15. QED
  BY <1>8, <1>9, <1>10, <1>11, <1>12, <1>13, <1>14 DEF ParserIInv
\* A frame in hand that is queued stays accounted for.
LEMMA PushStep == ASSUME ParserIInv, Push PROVE ParserIInv'
<1> DEFINE m == stream[inflight].kind
<1>1. /\ inflight \in 1..Len(stream) /\ Len(stream) \in Nat
      /\ queue \in [Media -> Seq(1..Len(stream))] /\ FramesSorted
  <2>1. Len(stream) \in Nat
    BY StreamType DEF ParserIInv
  <2>2. inflight \in 0..Len(stream) /\ inflight # 0
    BY DEF ParserIInv, TypeOK, Push
  <2>3. inflight \in 1..Len(stream)
    BY <2>1, <2>2
  <2>4. QED
    BY <2>1, <2>3 DEF ParserIInv, TypeOK
<1>2. m \in Media
  BY <1>1 DEF FramesSorted, Sorted
<1> HIDE DEF m
<1>3. queue[m] \in Seq(1..Len(stream)) /\ queue[m] \in Seq(Nat)
  BY <1>1, <1>2
<1>4. PICK k \in 1..(Len(queue[m]) + 1) :
        InsertSorted(queue[m], inflight) = InsertAt(queue[m], k, inflight)
  BY <1>3, SortedInsertion
<1> DEFINE c == InsertAt(queue[m], k, inflight)
<1>5. /\ c \in Seq(1..Len(stream)) /\ ToSet(c) = ToSet(queue[m]) \cup {inflight}
      /\ IsInjective(queue[m]) /\ inflight \notin ToSet(queue[m]) => IsInjective(c)
  <2>1. c \in Seq(1..Len(stream))
    BY <1>1, <1>3, Inserted
  <2>2. ToSet(c) = ToSet(queue[m]) \cup {inflight}
    <3>1. \A x : x \in ToSet(c) <=> x \in ToSet(queue[m]) \/ x = inflight
      BY <1>1, <1>3, InsertedSet
    <3>2. QED
      BY <3>1
  <2>3. IsInjective(queue[m]) /\ inflight \notin ToSet(queue[m]) => IsInjective(c)
    BY <1>1, <1>3, InsertedSet
  <2>4. QED
    BY <2>1, <2>2, <2>3
<1>6. queue' = [queue EXCEPT ![m] = c]
  BY <1>4 DEF Push, m
<1> HIDE DEF c
<1>7. /\ queue'[m] = c /\ \A n \in Media \ {m} : queue'[n] = queue[n]
      /\ queue' \in [Media -> Seq(1..Len(stream))]
  BY <1>1, <1>2, <1>5, <1>6
<1>8. /\ inflight' = 0 /\ parser' \in {"push block", "again"}
      /\ UNCHANGED <<index, parsed, indexOnly, history, seekRequest, bufferTime, kill,
                      main, seeks>>
      /\ main \notin Media
  BY DEF Push, QMutexFree
<1>9. TypeOK'
  <2>1. 0 \in 0..Len(stream)
    BY <1>1
  <2>2. inflight' = 0 /\ parser' # "push"
    BY <1>8
  <2>3. QED
    BY <1>7, <1>8, <2>1, <2>2 DEF ParserIInv, TypeOK, index, parsed, history
<1>10. SeekPending' /\ TakenStays'
  BY <1>8 DEF ParserIInv, SeekPending, TakenStays, parsed, history
<1>11. FramesSorted'
  BY <1>1, <1>2, <1>5, <1>7, <1>8 DEF FramesSorted, Sorted, parsed, m
<1>12. FramesAccounted'
  <2> SUFFICES ASSUME since # 0
               PROVE  Accounted(stream, queue', taken, 0, since, position - 1)
    BY <1>8 DEF FramesAccounted, parsed, history
  <2>1. Accounted(stream, queue, taken, inflight, since, position - 1)
    BY DEF ParserIInv, FramesAccounted
  <2>2. since \in Nat \ {0} /\ position - 1 \in Int
    <3>1. since \in 0..(Len(stream) + 1) /\ position \in 1..(Len(stream) + 1)
      BY DEF ParserIInv, TypeOK
    <3>2. QED
      BY <3>1, <1>1
  <2>3. ToSet(queue'["audio"]) \cup ToSet(queue'["video"])
          = ToSet(queue["audio"]) \cup ToSet(queue["video"]) \cup {inflight}
    BY <1>2, <1>5, <1>7 DEF Media
  <2>4. taken \cup ToSet(queue'["audio"]) \cup ToSet(queue'["video"]) \cup ({0} \ {0})
          = {i \in since..(position - 1) : stream[i].kind \in Media}
    BY <2>1, <2>3, <1>1 DEF Accounted
  <2>5. 0 \notin {i \in since..(position - 1) : stream[i].kind \in Media}
    BY <2>2
  <2>6. \A n \in Media : IsInjective(queue'[n])
    BY <2>1, <1>2, <1>5, <1>7 DEF Accounted
  <2>7. \A n \in Media : ToSet(queue'[n]) \cap taken = {}
    BY <2>1, <1>2, <1>5, <1>7 DEF Accounted
  <2>8. \A n \in Media : 0 \notin ToSet(queue'[n]) \cup taken
    BY <2>4, <2>5 DEF Media
  <2>9. QED
    BY <2>4, <2>6, <2>7, <2>8 DEF Accounted
<1>13. IndexSound' /\ CuesAreFrames'
  BY <1>8 DEF ParserIInv, IndexSound, CuesAreFrames, Time, index, parsed
<1>14. Finished'
  BY <1>8 DEF ParserIInv, Finished, parsed, history
<1>15. QED
  BY <1>9, <1>10, <1>11, <1>12, <1>13, <1>14 DEF ParserIInv

LEMMA FrameTakenStep == ASSUME ParserIInv, FrameTaken PROVE ParserIInv'
<1> DEFINE h == Head(queue[main])
<1>1. /\ main \in Media /\ queue[main] \in Seq(1..Len(stream)) /\ queue[main] # << >>
      /\ queue \in [Media -> Seq(1..Len(stream))]
  BY DEF FrameTaken, ParserIInv, TypeOK, TakenStays
<1>2. /\ Tail(queue[main]) \in Seq(1..Len(stream))
      /\ h \in 1..Len(stream) /\ h \in ToSet(queue[main])
      /\ ToSet(queue[main]) = ToSet(Tail(queue[main])) \cup {h}
      /\ IsInjective(queue[main]) =>
           IsInjective(Tail(queue[main])) /\ h \notin ToSet(Tail(queue[main]))
  BY <1>1, TailSet
<1>3. /\ queue' = [queue EXCEPT ![main] = Tail(@)] /\ taken' = taken \cup {h}
      /\ parser' = Woken /\ main' = "run"
      /\ UNCHANGED <<index, parsed, indexOnly, inflight, since, seekRequest, bufferTime,
                      kill, seeks>>
  BY DEF FrameTaken
<1> HIDE DEF h
<1>4. /\ queue'[main] = Tail(queue[main]) /\ \A m \in Media \ {main} : queue'[m] = queue[m]
      /\ queue' \in [Media -> Seq(1..Len(stream))]
  BY <1>1, <1>2, <1>3
<1>5. parser' \in ParserStates /\ (parser' = "push" <=> parser = "push")
  BY <1>3, WokenType DEF ParserIInv, TypeOK, ParserStates
<1>6. TypeOK'
  <2>1. taken' \subseteq 1..Len(stream)
    BY <1>2, <1>3 DEF ParserIInv, TypeOK
  <2>2. QED
    BY <2>1, <1>3, <1>4, <1>5 DEF ParserIInv, TypeOK, ParserStates, index, parsed
<1>7. SeekPending' /\ TakenStays'
  BY <1>3 DEF ParserIInv, SeekPending, TakenStays, parsed, Media
<1>8. \A m \in Media : \A x \in ToSet(queue[m]) : stream[x].kind = m
  BY DEF ParserIInv, FramesSorted, Sorted
<1>9. FramesSorted'
  BY <1>1, <1>2, <1>3, <1>4 DEF ParserIInv, FramesSorted, Sorted, parsed
<1>10. FramesAccounted'
  <2> SUFFICES ASSUME since # 0
               PROVE  Accounted(stream, queue', taken', inflight, since, position - 1)
    BY <1>3 DEF FramesAccounted, parsed
  <2>1. Accounted(stream, queue, taken, inflight, since, position - 1)
    BY DEF ParserIInv, FramesAccounted
  <2>2. taken' \cup ToSet(queue'["audio"]) \cup ToSet(queue'["video"])
          = taken \cup ToSet(queue["audio"]) \cup ToSet(queue["video"])
    BY <1>1, <1>2, <1>3, <1>4 DEF Media
  <2>3. \A m \in Media \ {main} : h \notin ToSet(queue[m])
    BY <1>1, <1>2, <1>8
  <2>4. IsInjective(queue[main]) /\ inflight # h
    BY <2>1, <1>1, <1>2 DEF Accounted
  <2>5. \A m \in Media : IsInjective(queue'[m])
    BY <2>1, <2>4, <1>1, <1>2, <1>4 DEF Accounted
  <2>6. \A m \in Media : ToSet(queue'[m]) \cap taken' = {}
    BY <2>1, <2>3, <2>4, <1>1, <1>2, <1>3, <1>4 DEF Accounted
  <2>7. \A m \in Media : inflight \notin ToSet(queue'[m]) \cup taken'
    BY <2>1, <2>4, <1>1, <1>2, <1>3, <1>4 DEF Accounted
  <2>8. QED
    BY <2>1, <2>2, <2>5, <2>6, <2>7 DEF Accounted
<1>11. IndexSound' /\ CuesAreFrames' /\ Finished'
  BY <1>3 DEF ParserIInv, IndexSound, CuesAreFrames, Finished, Time, index, parsed
<1>12. QED
  BY <1>6, <1>7, <1>9, <1>10, <1>11 DEF ParserIInv

\* The position moves to a tag that is indexed.
LEMMA SeekAcceptedStep ==
  ASSUME ParserIInv, NEW t \in SeekTimes, SeekAccepted(t)
  PROVE  ParserIInv'
<1> DEFINE cues == {c \in DOMAIN cuePoints : c >= t}
<1>1. cues \in SUBSET Nat /\ cues # {} /\ position' = cuePoints[Min(cues)]
  BY DEF SeekAccepted, ParserIInv, TypeOK
<1>2. Min(cues) \in DOMAIN cuePoints
  BY <1>1, Smallest
<1>3. position' \in 1..Len(stream) /\ position' < nextIndex
  BY <1>1, <1>2 DEF ParserIInv, TypeOK, IndexSound
<1>4. /\ seekRequest' = TRUE /\ parsingComplete' = FALSE /\ since' = 0 /\ main' = "seek"
      /\ seeks' = seeks + 1 /\ seeks < MaxSeeks
      /\ UNCHANGED <<index, stream, infos, thread, taken, queue, bufferTime, kill>>
  BY DEF SeekAccepted
<1>5. Len(stream) \in Nat /\ nextIndex \in 1..(Len(stream) + 1)
  BY StreamType DEF ParserIInv, TypeOK
<1>6. TypeOK'
  <2>1. seeks' \in 0..MaxSeeks /\ position' \in 1..(Len(stream) + 1)
        /\ since' \in 0..(Len(stream) + 1)
    <3>1. seeks \in 0..MaxSeeks
      BY DEF ParserIInv, TypeOK
    <3>2. seeks' \in 0..MaxSeeks
      BY <3>1, <1>4, ParserAssumption
    <3>3. position' \in 1..(Len(stream) + 1) /\ since' \in 0..(Len(stream) + 1)
      BY <1>3, <1>4, <1>5
    <3>4. QED
      BY <3>2, <3>3
  <2>2. QED
    BY <1>4, <2>1 DEF ParserIInv, TypeOK, index, thread
<1>7. SeekPending' /\ TakenStays' /\ FramesAccounted'
  <2>1. FrameAt(stream, position')
    BY <1>1, <1>2 DEF ParserIInv, CuesAreFrames
  <2>2. position' \in Nat
    BY <1>3
  <2>3. QED
    BY <1>4, <2>1, <2>2 DEF SeekPending, TakenStays, FramesAccounted, Media
<1>8. FramesSorted'
  BY <1>4 DEF ParserIInv, FramesSorted, thread
<1>9. IndexSound'
  <2>1. position' <= nextIndex
    BY <1>3, <1>5
  <2>2. QED
    BY <1>4, <2>1 DEF ParserIInv, IndexSound, Time, index
<1>10. CuesAreFrames' /\ Finished'
  BY <1>4 DEF ParserIInv, CuesAreFrames, Finished, index
<1>11. QED
  BY <1>6, <1>7, <1>8, <1>9, <1>10 DEF ParserIInv

LEMMA ClearBuffersStep == ASSUME ParserIInv, ClearBuffers PROVE ParserIInv'
<1>1. /\ main = "seek" /\ queue' = [m \in Media |-> << >>] /\ parser' = Woken /\ main' = "run"
      /\ UNCHANGED <<index, parsed, indexOnly, inflight, history, seekRequest, bufferTime,
                      kill, seeks>>
  BY DEF ClearBuffers
<1>2. /\ queue' \in [Media -> Seq(1..Len(stream))]
      /\ \A m \in Media : ToSet(queue'[m]) = {} /\ IsInjective(queue'[m])
  BY <1>1, EmptyBuffers
<1>3. parser' \in ParserStates /\ (parser' = "push" <=> parser = "push")
  BY <1>1, WokenType DEF ParserIInv, TypeOK, ParserStates
<1>4. since = 0 /\ seekRequest
  BY <1>1 DEF ParserIInv, SeekPending
<1>5. TypeOK'
  BY <1>1, <1>2, <1>3 DEF ParserIInv, TypeOK, ParserStates, index, parsed, history
<1>6. SeekPending' /\ TakenStays' /\ FramesAccounted'
  BY <1>1, <1>4 DEF ParserIInv, SeekPending, TakenStays, FramesAccounted, history, parsed, Media
<1>7. FramesSorted'
  BY <1>1, <1>2 DEF ParserIInv, FramesSorted, Sorted, parsed
<1>8. IndexSound' /\ CuesAreFrames' /\ Finished'
  BY <1>1 DEF ParserIInv, IndexSound, CuesAreFrames, Finished, Time, index, parsed, history
<1>9. QED
  BY <1>5, <1>6, <1>7, <1>8 DEF ParserIInv
LEMMA ParserInitIInv == Init => ParserIInv
<1> SUFFICES ASSUME Init
             PROVE  ParserIInv
  OBVIOUS
<1>1. stream \in Streams /\ Len(stream) \in Nat
  BY ParserAssumption DEF Init
<1>2. /\ queue \in [Media -> Seq(1..Len(stream))]
      /\ \A m \in Media : ToSet(queue[m]) = {} /\ IsInjective(queue[m])
  BY EmptyBuffers DEF Init
<1>3. TypeOK
  <2>1. 1 \in 1..(Len(stream) + 1) /\ 1 \in 0..(Len(stream) + 1) /\ 0 \in 0..Len(stream)
    BY <1>1
  <2>2. 0 \in 0..MaxSeeks
    BY ParserAssumption
  <2>3. DOMAIN << >> = {}
    OBVIOUS
  <2>4. QED
    BY <1>1, <1>2, <2>1, <2>2, <2>3 DEF Init, TypeOK
<1>4. SeekPending /\ TakenStays
  BY DEF Init, SeekPending, TakenStays, Media
<1>5. FramesSorted
  BY <1>2 DEF Init, FramesSorted, Sorted
<1>6. FramesAccounted
  <2>1. {i \in 1..(1 - 1) : stream[i].kind \in Media} = {}
    OBVIOUS
  <2>2. QED
    BY <1>2, <2>1 DEF Init, FramesAccounted, Accounted, Media
<1>7. IndexSound /\ CuesAreFrames /\ Finished
  BY DEF Init, IndexSound, CuesAreFrames, Finished
<1>8. QED
  BY <1>3, <1>4, <1>5, <1>6, <1>7 DEF ParserIInv

LEMMA ParserNextIInv == ParserIInv /\ [Next]_vars => ParserIInv'
<1> SUFFICES ASSUME ParserIInv, [Next]_vars
             PROVE  ParserIInv'
  OBVIOUS
<1>1. CASE ParserNext
  BY <1>1, ParserMoves, EndOfStreamStep, IndexTagStep, ParseTagStep, PushStep DEF ParserNext
<1>2. CASE SpuriousWakeup
  BY <1>2, ParserMoves
<1>3. CASE MainNext
  BY <1>3, MainMoves, FrameTakenStep, SeekAcceptedStep, ClearBuffersStep DEF MainNext
<1>4. CASE UNCHANGED vars
  <2>1. UNCHANGED <<index, parsed, history, thread, seekRequest, queue, bufferTime, kill,
                    main, seeks>>
    BY <1>4 DEF vars
  <2>2. TypeOK'
    BY <2>1 DEF ParserIInv, TypeOK, index, parsed, history, thread
  <2>3. SeekPending' /\ TakenStays' /\ FramesSorted' /\ FramesAccounted'
    BY <2>1 DEF ParserIInv, SeekPending, TakenStays, FramesSorted, FramesAccounted,
         parsed, history, thread
  <2>4. IndexSound' /\ CuesAreFrames' /\ Finished'
    BY <2>1 DEF ParserIInv, IndexSound, CuesAreFrames, Finished, Time, index, parsed,
         history, thread
  <2>5. QED
    BY <2>2, <2>3, <2>4 DEF ParserIInv
<1>5. QED
  BY <1>1, <1>2, <1>3, <1>4 DEF Next

-----------------------------------------------------------------------------
(* The theorems. *)

\* The invariant of the buffers and the index, beside both threads.
THEOREM ParserInvariant == Spec => []ParserIInv
<1>1. Init => ParserIInv
  BY ParserInitIInv
<1>2. ParserIInv /\ [Next]_vars => ParserIInv'
  BY ParserNextIInv
<1>3. QED
  BY <1>1, <1>2, PTL DEF Spec

\* Every variable of the parser keeps its type.
THEOREM ParserTypeCorrect == Spec => []TypeOK
<1>1. ParserIInv => TypeOK
  BY DEF ParserIInv
<1>2. QED
  BY <1>1, ParserInvariant, PTL

\* What the invariant says of the frames between two seeks.
LEMMA AccountedOnce == ParserIInv => EachFrameOnce
<1> SUFFICES ASSUME ParserIInv, since # 0
             PROVE  /\ taken \cup Queued("audio") \cup Queued("video") \cup InFlight
                         = {i \in since..(position - 1) : stream[i].kind \in Media}
                    /\ \A m \in Media : /\ Len(queue[m]) = Cardinality(Queued(m))
                                        /\ Queued(m) \cap taken = {}
                                        /\ inflight \notin Queued(m) \cup taken
  BY DEF EachFrameOnce
<1>1. Accounted(stream, queue, taken, inflight, since, position - 1)
  BY DEF ParserIInv, FramesAccounted
<1>2. \A m \in Media : queue[m] \in Seq(1..Len(stream)) /\ IsInjective(queue[m])
  BY <1>1 DEF ParserIInv, TypeOK, Accounted
<1>3. \A m \in Media : Len(queue[m]) = Cardinality(Queued(m))
  BY <1>2, InjectiveLength DEF Queued
<1>4. QED
  BY <1>1, <1>3 DEF Accounted, Queued, InFlight

\* Between two seeks each frame that was parsed is taken, buffered or on its way,
\* once; an earlier one never comes back.
THEOREM FramesDeliveredOnce == Spec => []EachFrameOnce
BY AccountedOnce, ParserInvariant, PTL

\* Indexing, ahead or along, leaves out no key frame, and every cue point leads to
\* a tag of its time.
THEOREM IndexComplete == Spec => []IndexSound
<1>1. ParserIInv => IndexSound
  BY DEF ParserIInv
<1>2. QED
  BY <1>1, ParserInvariant, PTL
-----------------------------------------------------------------------------
(* Why an accepted seek is heeded: the parser does not sleep meanwhile. *)

\* On its way to _parserThreadWakeup, or waiting there.
Asleep == {"push block", "push wait", "loop block", "loop wait"}

\* Since the buffers were cleared, one frame at most, parsed before the seek, came
\* into them: two are needed to fill a buffer.
Awake ==
  since = 0 /\ main # "seek" =>
    /\ parser \notin Asleep
    /\ \A m \in Media : Len(queue[m]) <= 1 /\ (inflight # 0 => queue[m] = << >>)

\* A sequence of one.
LEMMA SingleMember ==
  ASSUME NEW V, NEW q \in Seq(V), q # << >>, Len(q) <= 1
  PROVE  Len(q) = 1 /\ q[1] \in V
<1>1. Len(q) \in Nat \ {0} /\ q[1] \in V
  OBVIOUS
<1>2. \A n \in Nat \ {0} : n <= 1 => n = 1
  OBVIOUS
<1>3. QED
  BY <1>1, <1>2

\* No buffer holds more than one frame.
Short == \A m \in Media : Len(queue[m]) <= 1

\* Such buffers are not full, whatever _bufferTime is.
LEMMA ShortBuffers == TypeOK /\ Short /\ ~parsingComplete => ~MustWait
<1> SUFFICES ASSUME TypeOK, Short, ~parsingComplete
             PROVE  ~MustWait
  OBVIOUS
<1>1. ASSUME NEW m \in Media
      PROVE  Span(queue[m]) = 0
  <2>1. CASE queue[m] = << >>
    BY <2>1 DEF Span
  <2>2. CASE queue[m] # << >>
    <3>1. queue[m] \in Seq(1..Len(stream)) /\ Len(queue[m]) <= 1
      BY DEF TypeOK, Short
    <3>2. Len(queue[m]) = 1 /\ queue[m][1] \in 1..Len(stream)
      BY <2>2, <3>1, SingleMember
    <3>3. Time(queue[m][1]) \in Nat
      BY <3>2, StreamType
    <3>4. QED
      BY <2>2, <3>2, <3>3 DEF Span
  <2>3. QED
    BY <2>1, <2>2
<1>2. BufferLength = 0
  <2>1. CASE infos = {}
    BY <2>1 DEF BufferLength
  <2>2. CASE infos # {}
    <3>1. infos \subseteq Media
      BY DEF TypeOK
    <3>2. {Span(queue[m]) : m \in infos} = {0}
      BY <1>1, <2>2, <3>1
    <3>3. Min({0}) = 0
      BY Smallest
    <3>4. QED
      BY <2>2, <3>2, <3>3 DEF BufferLength
  <2>3. QED
    BY <2>1, <2>2
<1>3. bufferTime \in Nat
  BY ParserAssumption DEF TypeOK
<1>4. QED
  BY <1>2, <1>3 DEF MustWait, BufferFull

\* A frame inserted into an empty queue is alone there.
LEMMA InsertedAlone ==
  ASSUME NEW i
  PROVE  Len(InsertSorted(<< >>, i)) = 1
<1>1. << >> \in Seq(Nat) /\ << >> \in Seq({i}) /\ Len(<< >>) = 0
  OBVIOUS
<1>2. PICK k \in 1..(Len(<< >>) + 1) : InsertSorted(<< >>, i) = InsertAt(<< >>, k, i)
  <2> DEFINE q == << >>
  <2>1. q \in Seq(Nat)
    OBVIOUS
  <2> HIDE DEF q
  <2>2. \E k \in 1..(Len(q) + 1) : InsertSorted(q, i) = InsertAt(q, k, i)
    BY <2>1, SortedInsertion
  <2>3. QED
    BY <2>2 DEF q
<1>3. Len(InsertAt(<< >>, k, i)) = Len(<< >>) + 1
  <2> DEFINE q == << >>
  <2>1. q \in Seq({i}) /\ k \in 1..(Len(q) + 1) /\ i \in {i}
    OBVIOUS
  <2> HIDE DEF q
  <2>2. Len(InsertAt(q, k, i)) = Len(q) + 1
    BY <2>1, Inserted
  <2>3. QED
    BY <2>2 DEF q
<1>4. QED
  BY <1>1, <1>2, <1>3

\* A step that leaves a seek unheeded, and does not clear the buffers, found it so.
LEMMA StillUnheeded ==
  ASSUME ParserIInv, [Next]_vars, since' = 0, main' # "seek", ~ClearBuffers
  PROVE  since = 0 /\ main # "seek" /\ ~EndOfStream /\ ~IndexTag /\ ~ParseTag
<1>1. ~EndOfStream /\ ~IndexTag /\ ~ParseTag
  <2>1. position \in 1..(Len(stream) + 1) /\ Len(stream) \in Nat
    BY StreamType DEF ParserIInv, TypeOK
  <2>2. position # 0
    BY <2>1
  <2>3. since = 0 => seekRequest
    BY DEF ParserIInv, SeekPending
  <2>4. ~HeedSeek
    BY <2>2, <2>3 DEF HeedSeek
  <2>5. QED
    BY <2>4 DEF EndOfStream, IndexTag, ParseTag
<1>2. CASE ParserNext \/ SpuriousWakeup
  BY <1>1, <1>2 DEF ParserNext, Loop, ChooseMode, NothingToDo, Push, Again, Sleep,
     SpuriousWakeup, history
<1>3. CASE MainNext
  <2>1. CASE FrameTaken
    BY <2>1, <1>1 DEF FrameTaken, Media
  <2>2. CASE \E t \in SeekTimes : SeekAccepted(t)
    BY <2>2, <1>1 DEF SeekAccepted
  <2>3. CASE ~FrameTaken /\ ~(\E t \in SeekTimes : SeekAccepted(t))
    BY <1>1, <1>3, <2>3 DEF MainNext, NextFrame, SeekRefused, SetBufferTime, StopParser, Join,
       history
  <2>4. QED
    BY <2>1, <2>2, <2>3
<1>4. CASE UNCHANGED vars
  BY <1>1, <1>4 DEF vars, history
<1>5. QED
  BY <1>1, <1>2, <1>3, <1>4 DEF Next

\* A frame pushed on empty buffers does not send the parser to sleep.
LEMMA PushAwake ==
  ASSUME ParserIInv, Push, ~parsingComplete,
         \A m \in Media : queue[m] = << >>
  PROVE  /\ inflight' = 0 /\ parser' = "again"
         /\ \A m \in Media : Len(queue'[m]) <= 1
<1>1. queue \in [Media -> Seq(1..Len(stream))] /\ TypeOK'
  BY ParserNextIInv DEF ParserIInv, TypeOK, Next, ParserNext
<1>2. /\ inflight' = 0 /\ parsingComplete' = parsingComplete
      /\ queue' = [queue EXCEPT ![stream[inflight].kind] = InsertSorted(@, inflight)]
      /\ parser' = IF MustWait' THEN "push block" ELSE "again"
  BY DEF Push, parsed
<1>3. ASSUME NEW m \in Media
      PROVE  Len(queue'[m]) <= 1
  <2>1. CASE m = stream[inflight].kind
    <3>1. queue'[m] = InsertSorted(<< >>, inflight)
      BY <1>1, <1>2, <2>1
    <3>2. Len(queue'[m]) = 1
      BY <3>1, InsertedAlone
    <3>3. QED
      BY <3>2
  <2>2. CASE m # stream[inflight].kind
    <3>1. queue'[m] = << >> /\ Len(<< >>) = 0
      BY <1>1, <1>2, <2>2
    <3>2. QED
      BY <3>1
  <2>3. QED
    BY <2>1, <2>2
<1>4. TypeOK' /\ Short' /\ ~parsingComplete'
  BY <1>1, <1>2, <1>3 DEF Short
<1>5. ~MustWait'
  BY <1>4, ShortBuffers, PTL
<1>6. QED
  BY <1>2, <1>3, <1>5

\* Until a seek is heeded the parser stays awake.
LEMMA AwakeNext == ParserIInv /\ Awake /\ [Next]_vars => Awake'
<1> SUFFICES ASSUME ParserIInv, Awake, [Next]_vars, since' = 0, main' # "seek"
             PROVE  /\ parser' \notin Asleep
                    /\ \A m \in Media :
                         Len(queue'[m]) <= 1 /\ (inflight' # 0 => queue'[m] = << >>)
  BY DEF Awake
<1>1. CASE ClearBuffers
  <2>1. parser \notin {"push block", "loop block"} /\ parser' = Woken
    BY <1>1 DEF ClearBuffers, QMutexFree
  <2>2. \A m \in Media : queue'[m] = << >> /\ Len(<< >>) = 0
    BY <1>1 DEF ClearBuffers
  <2>3. parser' \notin Asleep
    BY <2>1 DEF Woken, Asleep
  <2>4. QED
    BY <2>2, <2>3
<1>2. CASE ~ClearBuffers
  <2>1. since = 0 /\ main # "seek" /\ ~EndOfStream /\ ~IndexTag /\ ~ParseTag
    BY <1>2, StillUnheeded
  <2>2. /\ parser \notin Asleep
        /\ \A m \in Media : Len(queue[m]) <= 1 /\ (inflight # 0 => queue[m] = << >>)
    BY <2>1 DEF Awake
  <2>3. Woken = parser
    BY <2>2 DEF Woken, Asleep
  <2>4. ~parsingComplete /\ TypeOK
    BY <2>1 DEF ParserIInv, Finished
  <2>5. CASE Push
    <3>1. \A m \in Media : queue[m] = << >>
      BY <2>2, <2>4, <2>5 DEF Push, TypeOK
    <3>2. /\ inflight' = 0 /\ parser' = "again" /\ \A m \in Media : Len(queue'[m]) <= 1
      BY <3>1, <2>4, <2>5, PushAwake
    <3>3. QED
      BY <3>2 DEF Asleep
  <2>6. CASE Again
    <3>1. ~MustWait
      BY <2>2, <2>4, ShortBuffers DEF Short
    <3>2. QED
      BY <2>2, <2>6, <3>1 DEF Again, Asleep
  <2>7. CASE FrameTaken
    <3>1. /\ main \in Media /\ queue[main] \in Seq(1..Len(stream)) /\ queue[main] # << >>
          /\ queue \in [Media -> Seq(1..Len(stream))]
      BY <2>7 DEF FrameTaken, ParserIInv, TypeOK, TakenStays
    <3>2. inflight = 0 /\ inflight' = 0 /\ parser' = Woken
          /\ queue' = [queue EXCEPT ![main] = Tail(@)]
      BY <2>2, <2>7, <3>1 DEF FrameTaken
    <3>3. Len(Tail(queue[main])) <= 1
      <4>1. Len(queue[main]) <= 1
        BY <2>2, <3>1
      <4>2. QED
        BY <4>1, <3>1
    <3>4. \A m \in Media : Len(queue'[m]) <= 1
      BY <2>2, <3>1, <3>2, <3>3
    <3>5. QED
      BY <2>2, <2>3, <3>2, <3>4
  <2>8. CASE ~Push /\ ~Again /\ ~FrameTaken
    <3>1. /\ UNCHANGED <<queue, inflight>>
          /\ parser' = parser \/ parser' = Woken \/ parser' \in {"exited", "chunk", "tag", "again"}
             \/ Sleep
      <4>1. CASE ParserNext \/ SpuriousWakeup
        BY <4>1, <2>1, <2>8 DEF ParserNext, Loop, ChooseMode, NothingToDo, Sleep, SpuriousWakeup
      <4>2. CASE MainNext
        BY <4>2, <1>2, <2>8 DEF MainNext, NextFrame, SeekRefused, SeekAccepted, SetBufferTime,
           StopParser, Join, thread
      <4>3. CASE UNCHANGED vars
        BY <4>3 DEF vars, thread
      <4>4. QED
        BY <4>1, <4>2, <4>3 DEF Next
    <3>2. ~Sleep
      BY <2>2 DEF Sleep, Asleep
    <3>3. parser' \notin Asleep
      BY <2>2, <2>3, <3>1, <3>2 DEF Asleep
    <3>4. QED
      BY <2>2, <3>1, <3>3
  <2>9. QED
    BY <2>5, <2>6, <2>7, <2>8
<1>3. QED
  BY <1>1, <1>2

\* The safety half of SeekHeeded: once the seek has cleared the buffers and woken the
\* parser, it neither sleeps nor is about to before it has heeded the seek.
THEOREM SeekNotSleptOver == Spec => [](since = 0 /\ main # "seek" => parser \notin Asleep)
<1>1. Init => Awake
  BY DEF Init, Awake
<1>2. ParserIInv /\ Awake /\ [Next]_vars => Awake'
  BY AwakeNext
<1>3. Awake => (since = 0 /\ main # "seek" => parser \notin Asleep)
  BY DEF Awake
<1>4. QED
  BY <1>1, <1>2, <1>3, ParserInvariant, PTL DEF Spec
================================================================================
