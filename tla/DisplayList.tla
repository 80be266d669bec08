------------------------------- MODULE DisplayList -------------------------------
(***************************************************************************)
(* The display list of one movie clip (libcore/DisplayList.cpp).           *)
(*                                                                         *)
(* The list is sorted by depth, so it is a set of instances that each know *)
(* their depth.  Two lists are kept: the one on display and the temporary  *)
(* one a rewinding clip builds before it merges the two.  An instance that *)
(* has an unload handler is not destroyed when it is removed: it moves to  *)
(* the removed zone, below StaticOffset, until the end of the tick, and its*)
(* handler is queued.                                                      *)
(*                                                                         *)
(* The operations here are action-level operators: each states chr' and    *)
(* owed', and MovieClip has the actions that call them.                    *)
(***************************************************************************)
EXTENDS Integers, FiniteSets

CONSTANTS
  Chars,         \* identities of the instances
  StaticOffset,  \* staticDepthOffset, -16384 in the code
  NoRatio        \* a tag without a ratio

ASSUME CharsAssumption == Chars \subseteq Nat
ASSUME OffsetAssumption == StaticOffset \in Int /\ StaticOffset < 0
ASSUME NoRatioAssumption == NoRatio \notin Nat

VARIABLES
  chr,   \* the instances: where each is listed, and its state
  owed   \* the unloaded instances whose UNLOAD handler is still queued: also
         \* those destroyed meanwhile, whose handler will be skipped

\* removedDepthOffset, -32769 in the code.
RemovedOffset == 2 * StaticOffset - 1

Lists == {"main", "tmp"}

Instances ==
  [list : Lists \cup {"none"}, depth : Int, kind : {"shape", "clip"},
   handler : BOOLEAN, dynamic : BOOLEAN, scripted : BOOLEAN,
   unloaded : BOOLEAN, ratio : Nat]

\* An identity that no instance has: never created, or destroyed.  Nested
\* lists keep destroyed instances, which every operation skips.
Nobody == [list |-> "none", depth |-> 0, kind |-> "shape", handler |-> FALSE,
           dynamic |-> FALSE, scripted |-> FALSE, unloaded |-> FALSE, ratio |-> 0]

Listed(l) == {c \in Chars : chr[c].list = l}

\* beginNonRemoved to the end.
Stage(l) == {c \in Listed(l) : chr[c].depth >= StaticOffset}

\* getDisplayObjectAtDepth
At(l, d) == {c \in Listed(l) : chr[c].depth = d}

Unused == Listed("none")

-----------------------------------------------------------------------------
\* What becomes of an instance that is taken out of its list: unload() says
\* whether a handler is to run; reinsertRemovedCharacter or destroy().
Removed(i) ==
  IF i.handler
    THEN [i EXCEPT !.unloaded = TRUE, !.depth = RemovedOffset - i.depth]
    ELSE Nobody

Without(X) == [c \in Chars |-> IF c \in X THEN Removed(chr[c]) ELSE chr[c]]

\* Only the first unload of an instance queues its handler.
Owing(X) == owed \cup {c \in X : chr[c].handler /\ ~chr[c].unloaded}

\* removeDisplayObject, of what is found at the depth.
Take(X) ==
  /\ chr' = Without(X)
  /\ owed' = Owing(X)

\* placeDisplayObject and replaceDisplayObject: the new instance takes the
\* place of those found at its depth.
Put(i, X) ==
  /\ \E new \in Unused :
       /\ \A c \in Unused : new <= c
       /\ chr' = [Without(X) EXCEPT ![new] = i]
  /\ owed' = Owing(X)

\* swapDepths: an occupant of the new depth gets the old one.  A new depth
\* below the static zone is ignored.
SwapDepths(c, d) ==
  /\ chr' =
       IF d < StaticOffset THEN chr
       ELSE [e \in Chars |->
               CASE e = c -> [chr[e] EXCEPT !.depth = d, !.scripted = TRUE]
                 [] e # c /\ e \in At("main", d) ->
                      [chr[e] EXCEPT !.depth = chr[c].depth, !.scripted = TRUE]
                 [] OTHER -> chr[e]]
  /\ UNCHANGED owed

\* transformedByScript
Transform(c) ==
  /\ chr' = [chr EXCEPT ![c].scripted = TRUE]
  /\ UNCHANGED owed

\* moveDisplayObject: what scripts transformed or created is deaf to tags.
AcceptsAnimMoves(c) == ~chr[c].scripted /\ ~chr[c].dynamic

SetRatio(l, d, ratio) ==
  /\ chr' = [c \in Chars |->
               IF c \in At(l, d) /\ AcceptsAnimMoves(c) /\ ratio # NoRatio
                 THEN [chr[c] EXCEPT !.ratio = ratio]
                 ELSE chr[c]]
  /\ UNCHANGED owed

-----------------------------------------------------------------------------
\* Mutant: instances that scripts created are kept as well.
KeepsDynamic(old, new) ==
  /\ chr[old].ratio = chr[new].ratio
  /\ chr[old].kind = "clip"

\* mergeDisplayList, where both lists have an instance at a depth: the old one
\* survives if it could be the one the tags placed.
Keeps(old, new) ==
  /\ chr[old].ratio = chr[new].ratio
  /\ ~chr[old].dynamic
  /\ chr[old].kind = "clip"

\* The instances of the old list that leave the stage, and those of the new
\* one that never reach it.
Outdated ==
  {old \in Stage("main") :
     LET rivals == At("tmp", chr[old].depth)
     IN IF rivals = {} THEN chr[old].depth < 0
                       ELSE \E new \in rivals : ~Keeps(old, new)}

Superfluous ==
  {new \in Stage("tmp") :
     \E old \in At("main", chr[new].depth) : Keeps(old, new)}

MergeDisplayList ==
  /\ chr' = [c \in Chars |->
               CASE c \in Outdated -> Removed(chr[c])
                 [] c \in Superfluous -> Nobody
                 [] c \in Listed("tmp") \ Superfluous ->
                      [chr[c] EXCEPT !.list = "main"]
                 [] OTHER -> chr[c]]
  /\ owed' = Owing(Outdated)

-----------------------------------------------------------------------------
\* unload(): every instance on stage is unloaded; those below the first one
\* with a handler are destroyed, the others stay where they are.
Survivors ==
  {c \in Stage("main") :
     \E e \in Stage("main") : chr[e].handler /\ chr[e].depth <= chr[c].depth}

UnloadAll ==
  /\ chr' = [c \in Chars |->
               CASE c \in Survivors -> [chr[c] EXCEPT !.unloaded = TRUE]
                 [] c \in Stage("main") \ Survivors -> Nobody
                 [] OTHER -> chr[c]]
  /\ owed' = Owing(Survivors)

\* destroy(), the removed zone included.  What is queued stays queued.
DestroyAll == chr' = [c \in Chars |-> Nobody]

\* What movie_root::cleanupDisplayList does to the list of a clip that stays:
\* removeUnloaded for a level, and the scan of the live clips for all.
RemoveUnloaded ==
  /\ chr' = [c \in Chars |-> IF chr[c].unloaded THEN Nobody ELSE chr[c]]
  /\ UNCHANGED owed
================================================================================
