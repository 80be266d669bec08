----------------------------- MODULE MovieClipProofs -----------------------------
(***************************************************************************)
(* What is proved of a movie clip and its display list, for every set of   *)
(* timelines, every static offset and every choice of depths that scripts  *)
(* ask for.                                                                *)
(***************************************************************************)
EXTENDS MovieClip, TLAPS

-----------------------------------------------------------------------------
(* Lists as values: f maps identities to instances and o is the set of those
   whose handler is queued.  What an operation does to them is proved here
   without reference to the state. *)

Shown(i) == i.list \in Lists /\ i.depth >= StaticOffset

Sound(f, o) ==
  /\ f \in [Chars -> Instances] /\ o \subseteq Chars
  /\ \A c, e \in Chars :
       Shown(f[c]) /\ Shown(f[e]) /\ f[c].list = f[e].list /\ f[c].depth = f[e].depth
         => c = e
  /\ \A c \in Chars : Shown(f[c]) /\ f[c].list = "tmp" => ~f[c].unloaded
  /\ \A c \in Chars : f[c].list \in Lists /\ ~Shown(f[c]) =>
                        f[c].unloaded /\ f[c].handler
  /\ \A c \in o : f[c].list \in Lists /\ f[c].unloaded /\ f[c].handler

USE OffsetAssumption

\* A depth on stage is moved below the stage, and a removed instance is typed.
LEMMA RemovedType ==
  ASSUME NEW i \in Instances
  PROVE  /\ Removed(i) \in Instances
         /\ Removed(i).list # "none" => /\ Removed(i).list = i.list
                                        /\ Removed(i).unloaded /\ Removed(i).handler
                                        /\ Removed(i).depth = RemovedOffset - i.depth
         /\ ~i.handler => Removed(i) = Nobody
         /\ i.handler => Removed(i).list = i.list
<1>1. CASE i.handler
  <2>1. Removed(i) = [i EXCEPT !.unloaded = TRUE, !.depth = RemovedOffset - i.depth]
    BY <1>1 DEF Removed
  <2>2. RemovedOffset - i.depth \in Int
    BY DEF RemovedOffset, Instances
  <2> QED
    BY <1>1, <2>1, <2>2 DEF Instances
<1>2. CASE ~i.handler
  <2>1. Removed(i) = Nobody
    BY <1>2 DEF Removed
  <2> QED
    BY <1>2, <2>1 DEF Nobody, Instances
<1> QED
  BY <1>1, <1>2

LEMMA NobodyType == Nobody \in Instances /\ Nobody.list = "none"
  BY DEF Nobody, Instances

\* Any instances on stage may be removed.
LEMMA RemoveSound ==
  ASSUME NEW f, NEW o, Sound(f, o),
         NEW X \in SUBSET {c \in Chars : Shown(f[c])},
         NEW g, g = [c \in Chars |-> IF c \in X THEN Removed(f[c]) ELSE f[c]],
         NEW q, q = o \cup {c \in X : f[c].handler /\ ~f[c].unloaded}
  PROVE  Sound(g, q) /\ \A c \in Chars : Shown(g[c]) => c \notin X /\ g[c] = f[c]
<1>1. \A c \in Chars : f[c] \in Instances
  BY DEF Sound
<1>2. \A c \in X : Removed(f[c]) \in Instances
  BY <1>1, RemovedType
<1>3. g \in [Chars -> Instances] /\ q \subseteq Chars
  BY <1>1, <1>2 DEF Sound
<1>4. \A c \in Chars : c \notin X => g[c] = f[c]
  OBVIOUS
<1>5. \A c \in X : ~Shown(g[c]) /\ (g[c].list \in Lists => g[c].unloaded /\ g[c].handler)
  <2> SUFFICES ASSUME NEW c \in X
               PROVE ~Shown(g[c]) /\ (g[c].list \in Lists => g[c].unloaded /\ g[c].handler)
    OBVIOUS
  <2>1. g[c] = Removed(f[c]) /\ f[c] \in Instances /\ f[c].depth >= StaticOffset
    BY <1>1 DEF Shown
  <2>2. f[c].depth \in Int
    BY <2>1 DEF Instances
  <2>3. RemovedOffset - f[c].depth < StaticOffset
    BY <2>1, <2>2 DEF RemovedOffset
  <2>4. CASE g[c].list = "none"
    BY <2>4 DEF Shown, Lists
  <2>5. CASE g[c].list # "none"
    <3>1. g[c].depth = RemovedOffset - f[c].depth /\ g[c].unloaded /\ g[c].handler
      BY <2>1, <2>5, RemovedType
    <3> QED
      BY <3>1, <2>2, <2>3 DEF Shown, RemovedOffset
  <2> QED
    BY <2>4, <2>5
<1>6. \A c \in q : g[c].list \in Lists /\ g[c].unloaded /\ g[c].handler
  <2> SUFFICES ASSUME NEW c \in q
               PROVE  g[c].list \in Lists /\ g[c].unloaded /\ g[c].handler
    OBVIOUS
  <2>1. CASE c \in X
    <3>1. f[c].handler /\ f[c].list \in Lists /\ g[c] = Removed(f[c]) /\ f[c] \in Instances
      BY <2>1, <1>1 DEF Sound, Shown
    <3>2. g[c].list = f[c].list
      BY <3>1, RemovedType
    <3>3. g[c].list # "none"
      BY <3>1, <3>2 DEF Lists
    <3> QED
      BY <3>1, <3>2, <3>3, RemovedType
  <2>2. CASE c \notin X
    BY <2>2, <1>4, <1>3 DEF Sound
  <2> QED
    BY <2>1, <2>2
<1>7. \A c \in Chars : Shown(g[c]) => c \notin X /\ g[c] = f[c]
  BY <1>4, <1>5
<1>8. \A c, e \in Chars :
         Shown(g[c]) /\ Shown(g[e]) /\ g[c].list = g[e].list /\ g[c].depth = g[e].depth
           => c = e
  BY <1>7 DEF Sound
<1>9. \A c \in Chars : Shown(g[c]) /\ g[c].list = "tmp" => ~g[c].unloaded
  BY <1>7 DEF Sound
<1>10. \A c \in Chars : g[c].list \in Lists /\ ~Shown(g[c]) =>
                          g[c].unloaded /\ g[c].handler
  BY <1>4, <1>5 DEF Sound
<1> QED
  BY <1>3, <1>6, <1>7, <1>8, <1>9, <1>10 DEF Sound

\* A new instance may be put on stage where there is none.
LEMMA AddSound ==
  ASSUME NEW f, NEW o, Sound(f, o),
         NEW n \in Chars, f[n].list = "none",
         NEW i \in Instances, Shown(i), ~i.unloaded,
         \A c \in Chars : Shown(f[c]) /\ f[c].list = i.list => f[c].depth # i.depth,
         NEW g, g = [f EXCEPT ![n] = i]
  PROVE  Sound(g, o)
<1>1. g \in [Chars -> Instances] /\ o \subseteq Chars
  BY DEF Sound
<1>2. g[n] = i /\ \A c \in Chars : c # n => g[c] = f[c]
  BY DEF Sound
<1>3. n \notin o
  BY DEF Sound, Lists
<1>4. \A c, e \in Chars :
         Shown(g[c]) /\ Shown(g[e]) /\ g[c].list = g[e].list /\ g[c].depth = g[e].depth
           => c = e
  BY <1>2 DEF Sound
<1> QED
  BY <1>1, <1>2, <1>3, <1>4 DEF Sound

\* Only list, depth and whether an instance is unloaded and has a handler matter.
LEMMA SameSound ==
  ASSUME NEW f, NEW o, Sound(f, o),
         NEW g \in [Chars -> Instances],
         \A c \in Chars : /\ g[c].list = f[c].list /\ g[c].depth = f[c].depth
                          /\ g[c].unloaded = f[c].unloaded
                          /\ g[c].handler = f[c].handler
  PROVE  Sound(g, o)
<1>1. \A c \in Chars : Shown(g[c]) <=> Shown(f[c])
  BY DEF Shown
<1> QED
  BY <1>1 DEF Sound

\* Instances that owe no handler may be forgotten.
LEMMA ForgetSound ==
  ASSUME NEW f, NEW o, Sound(f, o), NEW Y \in SUBSET Chars, Y \cap o = {},
         NEW g, g = [c \in Chars |-> IF c \in Y THEN Nobody ELSE f[c]]
  PROVE  Sound(g, o)
<1>1. g \in [Chars -> Instances]
  BY NobodyType DEF Sound
<1>2. \A c \in Chars : g[c].list \in Lists => c \notin Y /\ g[c] = f[c]
  BY NobodyType DEF Lists
<1>3. \A c \in Chars : Shown(g[c]) => c \notin Y /\ g[c] = f[c]
  BY <1>2 DEF Shown
<1>4. \A c \in o : g[c] = f[c]
  BY DEF Sound
<1> QED
  BY <1>1, <1>2, <1>3, <1>4 DEF Sound

\* Two instances of a list, or one and an empty place, may exchange depths.
LEMMA SwapSound ==
  ASSUME NEW f, NEW o, Sound(f, o),
         NEW c \in Chars, Shown(f[c]), f[c].list = "main",
         NEW d \in Int, d >= StaticOffset,
         NEW g \in [Chars -> Instances],
         \A e \in Chars :
           /\ g[e].list = f[e].list /\ g[e].unloaded = f[e].unloaded
           /\ g[e].handler = f[e].handler
           /\ g[e].depth = IF e = c THEN d
                           ELSE IF f[e].list = "main" /\ f[e].depth = d THEN f[c].depth
                           ELSE f[e].depth
  PROVE  Sound(g, o)
<1>1. \A e \in Chars : Shown(g[e]) <=> Shown(f[e])
  BY DEF Shown
<1>2. \A e, h \in Chars :
         Shown(g[e]) /\ Shown(g[h]) /\ g[e].list = g[h].list /\ g[e].depth = g[h].depth
           => e = h
  <2> SUFFICES ASSUME NEW e \in Chars, NEW h \in Chars, Shown(f[e]), Shown(f[h]),
                      f[e].list = f[h].list, g[e].depth = g[h].depth
               PROVE  e = h
    BY <1>1
  <2>1. CASE f[e].list # "main"
    BY <2>1 DEF Sound
  <2>2. CASE f[e].list = "main"
    <3>1. \A x, y \in Chars :
             Shown(f[x]) /\ Shown(f[y]) /\ f[x].list = "main" /\ f[y].list = "main"
               /\ f[x].depth = f[y].depth => x = y
      BY DEF Sound
    <3>2. CASE e = c \/ h = c
      BY <3>1, <3>2, <2>2
    <3>3. CASE e # c /\ h # c
      BY <3>1, <3>3, <2>2
    <3> QED
      BY <3>2, <3>3
  <2> QED
    BY <2>1, <2>2
<1> QED
  BY <1>1, <1>2 DEF Sound

\* The temporary list may become part of the other one where that is empty.
LEMMA RelistSound ==
  ASSUME NEW f, NEW o, Sound(f, o),
         \A c, e \in Chars :
           Shown(f[c]) /\ Shown(f[e]) /\ f[c].list = "main" /\ f[e].list = "tmp"
             => f[c].depth # f[e].depth,
         NEW g, g = [c \in Chars |-> IF f[c].list = "tmp"
                                       THEN [f[c] EXCEPT !.list = "main"] ELSE f[c]]
  PROVE  Sound(g, o)
<1>1. \A c \in Chars : f[c] \in Instances
  BY DEF Sound
<1>2. \A c \in Chars : f[c].list = "tmp" => g[c] = [f[c] EXCEPT !.list = "main"]
  OBVIOUS
<1>3. \A c \in Chars : f[c].list = "tmp" =>
         /\ g[c] \in Instances /\ g[c].list = "main" /\ g[c].depth = f[c].depth
         /\ g[c].unloaded = f[c].unloaded /\ g[c].handler = f[c].handler
  BY <1>1, <1>2 DEF Instances, Lists
<1>4. \A c \in Chars : f[c].list # "tmp" => g[c] = f[c]
  OBVIOUS
<1>5. g \in [Chars -> Instances] /\ o \subseteq Chars
  BY <1>1, <1>3, <1>4 DEF Sound
<1>6. \A c \in Chars : /\ g[c].list = "main" <=> f[c].list \in Lists
                       /\ g[c].list # "tmp"
                       /\ g[c].depth = f[c].depth
                       /\ g[c].unloaded = f[c].unloaded /\ g[c].handler = f[c].handler
  BY <1>3, <1>4 DEF Lists
<1>7. \A c \in Chars : Shown(g[c]) <=> Shown(f[c])
  BY <1>6 DEF Shown, Lists
<1>8. \A c, e \in Chars :
         Shown(g[c]) /\ Shown(g[e]) /\ g[c].list = g[e].list /\ g[c].depth = g[e].depth
           => c = e
  BY <1>6, <1>7 DEF Sound, Shown, Lists
<1>9. \A c \in Chars : g[c].list \in Lists <=> f[c].list \in Lists
  BY <1>6 DEF Lists
<1>10. \A c \in o : g[c].list \in Lists /\ g[c].unloaded /\ g[c].handler
  BY <1>6, <1>9 DEF Sound
<1>11. \A c \in Chars : g[c].list \in Lists /\ ~Shown(g[c]) => g[c].unloaded /\ g[c].handler
  BY <1>6, <1>7, <1>9 DEF Sound
<1> QED
  BY <1>5, <1>6, <1>8, <1>10, <1>11 DEF Sound

\* Instances on stage may be unloaded where they are, in the list on display.
LEMMA MarkSound ==
  ASSUME NEW f, NEW o, Sound(f, o),
         NEW X \in SUBSET {c \in Chars : Shown(f[c]) /\ f[c].list = "main"},
         NEW g, g = [c \in Chars |-> IF c \in X THEN [f[c] EXCEPT !.unloaded = TRUE]
                                     ELSE f[c]],
         NEW q, q = o \cup {c \in X : f[c].handler /\ ~f[c].unloaded}
  PROVE  Sound(g, q)
<1>1. \A c \in Chars : f[c] \in Instances
  BY DEF Sound
<1>2. \A c \in X : /\ g[c] \in Instances /\ g[c].list = "main" /\ g[c].unloaded
                   /\ g[c].depth = f[c].depth /\ g[c].handler = f[c].handler
  <2> TAKE c \in X
  <2>1. g[c] = [f[c] EXCEPT !.unloaded = TRUE] /\ f[c] \in Instances
    BY <1>1
  <2> QED
    BY <2>1 DEF Instances
<1>3. \A c \in Chars : c \notin X => g[c] = f[c]
  OBVIOUS
<1>4. g \in [Chars -> Instances] /\ q \subseteq Chars
  BY <1>1, <1>2, <1>3 DEF Sound
<1>5. \A c \in Chars : /\ g[c].list = f[c].list /\ g[c].depth = f[c].depth
                       /\ g[c].handler = f[c].handler
                       /\ f[c].unloaded => g[c].unloaded
  BY <1>2, <1>3
<1>6. \A c \in Chars : Shown(g[c]) <=> Shown(f[c])
  BY <1>5 DEF Shown
<1>7. \A c \in q : g[c].list \in Lists /\ g[c].unloaded /\ g[c].handler
  BY <1>2, <1>5 DEF Sound, Lists
<1>8. \A c \in Chars : Shown(g[c]) /\ g[c].list = "tmp" => ~g[c].unloaded
  BY <1>2, <1>3 DEF Sound
<1> QED
  BY <1>4, <1>5, <1>6, <1>7, <1>8 DEF Sound

-----------------------------------------------------------------------------
(* The operations of DisplayList.                                          *)

\* No instance on display is unloaded.
Live(f) == \A c \in Chars : Shown(f[c]) /\ f[c].list = "main" => ~f[c].unloaded

LEMMA TakeStep ==
  ASSUME Sound(chr, owed), NEW X \in SUBSET {c \in Chars : Shown(chr[c])}, Take(X)
  PROVE  Sound(chr', owed') /\ (Live(chr) => Live(chr'))
<1>1. chr' = [c \in Chars |-> IF c \in X THEN Removed(chr[c]) ELSE chr[c]]
  BY DEF Take, Without
<1>2. owed' = owed \cup {c \in X : chr[c].handler /\ ~chr[c].unloaded}
  BY DEF Take, Owing
<1>3. Sound(chr', owed') /\ \A c \in Chars : Shown(chr'[c]) => c \notin X /\ chr'[c] = chr[c]
  BY <1>1, <1>2, RemoveSound
<1> QED
  BY <1>3 DEF Live

LEMMA PutType ==
  ASSUME chr \in [Chars -> Instances], owed \subseteq Chars,
         NEW i \in Instances, NEW X \in SUBSET Chars, Put(i, X)
  PROVE  chr' \in [Chars -> Instances] /\ owed' \subseteq Chars
<1>1. PICK n \in Unused : chr' = [Without(X) EXCEPT ![n] = i]
  BY DEF Put
<1>2. Without(X) \in [Chars -> Instances]
  BY RemovedType DEF Without
<1> QED
  BY <1>1, <1>2 DEF Put, Owing

LEMMA PutStep ==
  ASSUME Sound(chr, owed),
         NEW i \in Instances, Shown(i), ~i.unloaded,
         NEW X, X = At(i.list, i.depth), Put(i, X)
  PROVE  Sound(chr', owed') /\ (Live(chr) => Live(chr'))
<1>1. PICK n \in Unused : chr' = [Without(X) EXCEPT ![n] = i]
  BY DEF Put
<1>2. n \in Chars /\ chr[n].list = "none"
  BY DEF Unused, Listed
<1>3. owed' = owed \cup {c \in X : chr[c].handler /\ ~chr[c].unloaded}
  BY DEF Put, Owing
<1>4. X \in SUBSET {c \in Chars : Shown(chr[c])}
  BY DEF At, Listed, Shown
<1> DEFINE f == Without(X)
<1>5. f = [c \in Chars |-> IF c \in X THEN Removed(chr[c]) ELSE chr[c]]
  BY DEF Without
<1> HIDE DEF f
<1>6. Sound(f, owed') /\ \A c \in Chars : Shown(f[c]) => c \notin X /\ f[c] = chr[c]
  BY <1>3, <1>4, <1>5, RemoveSound
<1>7. f[n].list = "none"
  <2>1. n \notin X
    BY <1>2, <1>4 DEF Shown, Lists
  <2> QED
    BY <2>1, <1>2, <1>5
<1>8. \A c \in Chars : Shown(f[c]) /\ f[c].list = i.list => f[c].depth # i.depth
  BY <1>6 DEF At, Listed
<1>9. chr' = [f EXCEPT ![n] = i]
  BY <1>1 DEF f
<1>10. Sound(chr', owed')
  BY <1>2, <1>6, <1>7, <1>8, <1>9, AddSound
<1>11. \A c \in Chars : chr'[c] = IF c = n THEN i ELSE f[c]
  BY <1>9, <1>6 DEF Sound
<1>12. Live(chr) => Live(chr')
  BY <1>6, <1>11 DEF Live
<1> QED
  BY <1>10, <1>12

LEMMA SwapStep ==
  ASSUME Sound(chr, owed), NEW c \in Stage("main"), NEW d \in Int, SwapDepths(c, d)
  PROVE  Sound(chr', owed') /\ (Live(chr) => Live(chr'))
<1>1. c \in Chars /\ Shown(chr[c]) /\ chr[c].list = "main"
  BY DEF Stage, Listed, Shown, Lists
<1>2. owed' = owed
  BY DEF SwapDepths
<1>3. CASE d < StaticOffset
  BY <1>2, <1>3 DEF SwapDepths
<1>4. CASE ~(d < StaticOffset)
  <2>1. \A e \in Chars : chr[e] \in Instances
    BY DEF Sound
  <2>2. \A e \in Chars :
          chr'[e] = CASE e = c -> [chr[e] EXCEPT !.depth = d, !.scripted = TRUE]
                      [] e # c /\ e \in At("main", d) ->
                           [chr[e] EXCEPT !.depth = chr[c].depth, !.scripted = TRUE]
                      [] OTHER -> chr[e]
    BY <1>4 DEF SwapDepths
  <2>3. chr[c].depth \in Int
    BY <1>1, <2>1 DEF Instances
  <2>4. \A e \in Chars :
           /\ chr'[e] \in Instances
           /\ chr'[e].list = chr[e].list /\ chr'[e].unloaded = chr[e].unloaded
           /\ chr'[e].handler = chr[e].handler
           /\ chr'[e].depth = IF e = c THEN d
                              ELSE IF chr[e].list = "main" /\ chr[e].depth = d
                                     THEN chr[c].depth
                              ELSE chr[e].depth
    <3> TAKE e \in Chars
    <3>1. CASE e = c
      <4>1. chr'[e] = [chr[e] EXCEPT !.depth = d, !.scripted = TRUE]
        BY <3>1, <2>2
      <4> QED
        BY <4>1, <3>1, <2>1 DEF Instances
    <3>2. CASE e # c /\ e \in At("main", d)
      <4>1. chr'[e] = [chr[e] EXCEPT !.depth = chr[c].depth, !.scripted = TRUE]
        BY <3>2, <2>2
      <4>2. chr[e].list = "main" /\ chr[e].depth = d
        BY <3>2 DEF At, Listed
      <4> QED
        BY <4>1, <4>2, <3>2, <2>1, <2>3 DEF Instances
    <3>3. CASE e # c /\ e \notin At("main", d)
      <4>1. chr'[e] = chr[e]
        BY <3>3, <2>2
      <4> QED
        BY <4>1, <3>3, <2>1 DEF At, Listed
    <3> QED
      BY <3>1, <3>2, <3>3
  <2>5. chr' \in [Chars -> Instances]
    <3>1. DOMAIN chr' = Chars /\ chr' = [e \in Chars |-> chr'[e]]
      BY <1>4 DEF SwapDepths
    <3> QED
      BY <3>1, <2>4
  <2>6. Sound(chr', owed)
    BY <1>1, <1>4, <2>4, <2>5, SwapSound
  <2>7. Live(chr) => Live(chr')
    BY <1>1, <1>4, <2>4 DEF Live, Shown
  <2> QED
    BY <1>2, <2>6, <2>7
<1> QED
  BY <1>3, <1>4

LEMMA RatioStep ==
  ASSUME chr \in [Chars -> Instances], owed \subseteq Chars,
         NEW l, NEW d, NEW ratio \in Nat \cup {NoRatio}, SetRatio(l, d, ratio)
  PROVE  /\ chr' \in [Chars -> Instances] /\ owed' = owed
         /\ Sound(chr, owed) => Sound(chr', owed') /\ (Live(chr) => Live(chr'))
<1>1. owed' = owed
  BY DEF SetRatio
<1>2. \A c \in Chars : /\ chr'[c] \in Instances
                       /\ chr'[c].list = chr[c].list /\ chr'[c].depth = chr[c].depth
                       /\ chr'[c].unloaded = chr[c].unloaded
                       /\ chr'[c].handler = chr[c].handler
  <2> TAKE c \in Chars
  <2>1. CASE c \in At(l, d) /\ AcceptsAnimMoves(c) /\ ratio # NoRatio
    <3>1. chr'[c] = [chr[c] EXCEPT !.ratio = ratio] /\ ratio \in Nat
      BY <2>1 DEF SetRatio
    <3> QED
      BY <3>1 DEF Instances
  <2>2. CASE ~(c \in At(l, d) /\ AcceptsAnimMoves(c) /\ ratio # NoRatio)
    BY <2>2 DEF SetRatio
  <2> QED
    BY <2>1, <2>2
<1>3. chr' \in [Chars -> Instances]
  <2>1. chr' = [c \in Chars |-> chr'[c]]
    BY DEF SetRatio
  <2> QED
    BY <2>1, <1>2
<1>4. Sound(chr, owed) => Sound(chr', owed)
  BY <1>2, <1>3, SameSound
<1>5. Live(chr) => Live(chr')
  BY <1>2 DEF Live, Shown
<1> QED
  BY <1>1, <1>3, <1>4, <1>5

LEMMA TransformStep ==
  ASSUME Sound(chr, owed), NEW c \in Chars, Transform(c)
  PROVE  Sound(chr', owed') /\ (Live(chr) => Live(chr'))
<1>1. owed' = owed /\ chr' = [chr EXCEPT ![c].scripted = TRUE]
  BY DEF Transform
<1>2. chr \in [Chars -> Instances]
  BY DEF Sound
<1>3. chr' \in [Chars -> Instances]
  BY <1>1, <1>2 DEF Instances
<1>4. \A e \in Chars : /\ chr'[e].list = chr[e].list /\ chr'[e].depth = chr[e].depth
                       /\ chr'[e].unloaded = chr[e].unloaded
                       /\ chr'[e].handler = chr[e].handler
  BY <1>1, <1>2 DEF Instances
<1>5. Sound(chr', owed)
  BY <1>3, <1>4, SameSound
<1>6. Live(chr) => Live(chr')
  BY <1>4 DEF Live, Shown
<1> QED
  BY <1>1, <1>5, <1>6

\* An old instance that stays where the temporary list has one keeps that one out.
LEMMA MergeStep ==
  ASSUME Sound(chr, owed), MergeDisplayList
  PROVE  Sound(chr', owed') /\ (Live(chr) => Live(chr'))
<1> DEFINE f == [c \in Chars |-> IF c \in Outdated THEN Removed(chr[c]) ELSE chr[c]]
           g == [c \in Chars |-> IF c \in Superfluous THEN Nobody ELSE f[c]]
           h == [c \in Chars |-> IF g[c].list = "tmp"
                                   THEN [g[c] EXCEPT !.list = "main"] ELSE g[c]]
<1>1. /\ Outdated \in SUBSET {c \in Chars : Shown(chr[c])}
      /\ \A c \in Outdated : chr[c].list = "main"
  BY DEF Outdated, Stage, Listed, Shown, Lists
<1>2. /\ Superfluous \in SUBSET Chars
      /\ \A c \in Superfluous : chr[c].list = "tmp" /\ Shown(chr[c]) /\ ~chr[c].unloaded
  BY DEF Superfluous, Stage, Listed, Shown, Lists, Sound
<1>3. owed' = owed \cup {c \in Outdated : chr[c].handler /\ ~chr[c].unloaded}
  BY DEF MergeDisplayList, Owing
<1>4. Sound(f, owed') /\ \A c \in Chars : Shown(f[c]) => c \notin Outdated /\ f[c] = chr[c]
  BY <1>1, <1>3, RemoveSound
<1>5. Superfluous \cap owed' = {}
  BY <1>1, <1>2, <1>3 DEF Sound
<1>6. Sound(g, owed')
  BY <1>2, <1>4, <1>5, ForgetSound
<1>7. \A c \in Chars : Shown(g[c]) => /\ c \notin Outdated /\ c \notin Superfluous
                                      /\ g[c] = chr[c]
  BY <1>4, NobodyType DEF Shown, Lists
<1>8. \A c, e \in Chars :
         Shown(g[c]) /\ Shown(g[e]) /\ g[c].list = "main" /\ g[e].list = "tmp"
           => g[c].depth # g[e].depth
  <2> SUFFICES ASSUME NEW c \in Chars, NEW e \in Chars, Shown(g[c]), Shown(g[e]),
                      g[c].list = "main", g[e].list = "tmp", g[c].depth = g[e].depth
               PROVE  FALSE
    OBVIOUS
  <2>1. c \in Stage("main") /\ e \in Stage("tmp") /\ chr[c].depth = chr[e].depth
    BY <1>7 DEF Stage, Listed, Shown
  <2>2. e \in At("tmp", chr[c].depth) /\ c \in At("main", chr[e].depth)
    BY <2>1 DEF At, Stage
  <2>3. Keeps(c, e)
    BY <1>7, <2>1, <2>2 DEF Outdated
  <2> QED
    BY <1>7, <2>1, <2>2, <2>3 DEF Superfluous
<1>9. Sound(h, owed')
  BY <1>6, <1>8, RelistSound
<1>10. \A c \in Chars : chr'[c] = h[c]
  <2> TAKE c \in Chars
  <2>0. chr'[c] = CASE c \in Outdated -> Removed(chr[c])
                    [] c \in Superfluous -> Nobody
                    [] c \in Listed("tmp") \ Superfluous -> [chr[c] EXCEPT !.list = "main"]
                    [] OTHER -> chr[c]
    BY DEF MergeDisplayList
  <2>1. CASE c \in Outdated
    <3>1. c \notin Superfluous /\ c \notin Listed("tmp")
      BY <2>1, <1>1, <1>2 DEF Listed
    <3>2. chr[c] \in Instances
      BY DEF Sound
    <3>3. Removed(chr[c]).list # "tmp"
      BY <3>2, <2>1, <1>1, RemovedType
    <3> QED
      BY <2>0, <2>1, <3>1, <3>3
  <2>2. CASE c \in Superfluous
    <3>1. c \notin Outdated
      BY <2>2, <1>1, <1>2
    <3> QED
      BY <2>0, <2>2, <3>1, NobodyType
  <2>3. CASE c \notin Outdated /\ c \notin Superfluous
    BY <2>0, <2>3 DEF Listed
  <2> QED
    BY <2>1, <2>2, <2>3
<1>11. chr' = h
  <2>1. chr' = [c \in Chars |-> chr'[c]]
    BY DEF MergeDisplayList
  <2> QED
    BY <2>1, <1>10
<1>12. Live(chr) => Live(h)
  <2> SUFFICES ASSUME Live(chr), NEW c \in Chars, Shown(h[c]), h[c].list = "main"
               PROVE  ~h[c].unloaded
    BY DEF Live
  <2>0. g[c] \in Instances
    BY <1>6 DEF Sound
  <2>1. CASE g[c].list = "tmp"
    <3>1. h[c].depth = g[c].depth /\ h[c].unloaded = g[c].unloaded
      BY <2>0, <2>1 DEF Instances
    <3>2. Shown(g[c])
      BY <3>1, <2>1 DEF Shown, Lists
    <3> QED
      BY <3>1, <3>2, <2>1, <1>6 DEF Sound
  <2>2. CASE g[c].list # "tmp"
    <3>1. h[c] = g[c]
      BY <2>2
    <3> QED
      BY <3>1, <1>7 DEF Live
  <2> QED
    BY <2>1, <2>2
<1> QED
  BY <1>9, <1>11, <1>12

LEMMA UnloadAllStep ==
  ASSUME Sound(chr, owed), UnloadAll
  PROVE  Sound(chr', owed')
<1> DEFINE D == Stage("main") \ Survivors
           f == [c \in Chars |-> IF c \in D THEN Nobody ELSE chr[c]]
           g == [c \in Chars |-> IF c \in Survivors THEN [f[c] EXCEPT !.unloaded = TRUE]
                                 ELSE f[c]]
<1>1. Survivors \subseteq Stage("main") /\ Stage("main") \subseteq Chars
  BY DEF Survivors, Stage, Listed
<1>2. \A c \in Stage("main") : Shown(chr[c]) /\ chr[c].list = "main"
  BY DEF Stage, Listed, Shown, Lists
<1>3. D \cap owed = {}
  <2> SUFFICES ASSUME NEW c \in D, c \in owed PROVE FALSE
    OBVIOUS
  <2>1. chr[c].handler /\ chr[c].depth \in Int
    BY <1>1 DEF Sound, Instances
  <2>2. chr[c].depth <= chr[c].depth
    BY <2>1
  <2> QED
    BY <2>1, <2>2 DEF Survivors
<1>4. Sound(f, owed)
  BY <1>1, <1>3, ForgetSound
<1>5. \A c \in Survivors : f[c] = chr[c]
  BY <1>1
<1>6. Survivors \in SUBSET {c \in Chars : Shown(f[c]) /\ f[c].list = "main"}
  BY <1>1, <1>2, <1>5
<1>7. owed' = owed \cup {c \in Survivors : f[c].handler /\ ~f[c].unloaded}
  BY <1>5 DEF UnloadAll, Owing
<1>8. Sound(g, owed')
  BY <1>4, <1>6, <1>7, MarkSound
<1>9. \A c \in Chars : chr'[c] = g[c]
  BY <1>1 DEF UnloadAll
<1>10. chr' = g
  <2>1. chr' = [c \in Chars |-> chr'[c]]
    BY DEF UnloadAll
  <2> QED
    BY <2>1, <1>9
<1> QED
  BY <1>8, <1>10

LEMMA RemoveUnloadedStep ==
  ASSUME Sound(chr, owed), owed = {}, RemoveUnloaded
  PROVE  Sound(chr', owed') /\ Live(chr')
<1> DEFINE Y == {c \in Chars : chr[c].unloaded}
<1>1. chr' = [c \in Chars |-> IF c \in Y THEN Nobody ELSE chr[c]] /\ owed' = owed
  BY DEF RemoveUnloaded
<1>2. Sound(chr', owed)
  BY <1>1, ForgetSound
<1>3. Live(chr')
  BY <1>1 DEF Live, Nobody
<1> QED
  BY <1>1, <1>2, <1>3

LEMMA NoneSound ==
  ASSUME NEW f, f = [c \in Chars |-> Nobody]
  PROVE  Sound(f, {}) /\ Live(f)
<1>1. f \in [Chars -> Instances] /\ \A c \in Chars : f[c].list = "none" /\ ~Shown(f[c])
  BY NobodyType DEF Shown, Lists
<1> QED
  BY <1>1 DEF Sound, Live, Lists

-----------------------------------------------------------------------------
(* The movie clip.                                                         *)

\* Until the execution goes astray the lists are sound, and what is on display
\* is live unless the clip itself was unloaded.  A destroyed clip executes no tags
\* and has no children, but may have left handlers in the queue.
Healthy ==
  ~strayed =>
    /\ clip # "destroyed" => Sound(chr, owed)
    /\ clip = "placed" => Live(chr)
    /\ clip = "destroyed" => pos = 0 /\ Sound(chr, {})

IInv == TypeOK /\ Healthy

USE TimelinesAssumption, ScriptDepthsAssumption, MaxScriptsAssumption

\* What the type invariant says of the timeline and of the next tag.
LEMMA TimelineFacts ==
  ASSUME TypeOK
  PROVE  /\ timeline \in Seq(Seq(Tags)) /\ Len(timeline) \in Nat /\ Len(timeline) >= 1
         /\ \A f \in 1..Len(timeline) : timeline[f] \in Seq(Tags) /\ Len(timeline[f]) \in Nat
         /\ pos \in Nat /\ frame \in Nat /\ target \in Nat
<1>1. timeline \in Seq(Seq(Tags)) /\ timeline # <<>>
  BY DEF TypeOK
<1>2. \A f \in 1..Len(timeline) : timeline[f] \in Seq(Tags)
  BY <1>1
<1>3. Len(timeline) \in Nat /\ \A f \in 1..Len(timeline) : Len(timeline[f]) \in Nat
  BY <1>1, <1>2
<1>4. Len(timeline) >= 1
  BY <1>1
<1> QED
  BY <1>1, <1>2, <1>3, <1>4 DEF TypeOK

LEMMA TagFacts ==
  ASSUME TypeOK, pos \in 1..Len(timeline[frame])
  PROVE  /\ timeline[frame][pos] \in Tags
         /\ timeline[frame][pos].depth \in Int
         /\ timeline[frame][pos].depth >= StaticOffset
<1>1. frame \in 1..Len(timeline) /\ timeline \in Timelines
  BY DEF TypeOK
<1>2. timeline[frame] \in Seq(Tags)
  BY <1>1, TimelineFacts
<1>3. timeline[frame][pos] \in Tags
  BY <1>2
<1>4. timeline[frame][pos].depth >= StaticOffset
  BY <1>1
<1> QED
  BY <1>3, <1>4 DEF Tags

\* Tags are executed while the clip exists.
LEMMA TagsAlive ==
  ASSUME IInv, ~strayed, pos # 0
  PROVE  clip # "destroyed" /\ Sound(chr, owed) /\ (clip = "placed" => Live(chr))
  BY DEF IInv, Healthy

\* What the four kinds of tags share.
LEMMA MoveSound ==
  ASSUME IInv, ~strayed, pos # 0, NEW tag \in Tags, MoveDisplayObject(tag)
  PROVE  /\ chr' \in [Chars -> Instances] /\ owed' \subseteq Chars
         /\ Sound(chr', owed') /\ (Live(chr) => Live(chr')) /\ strayed' \in BOOLEAN
<1>1. tag.ratio \in Nat \cup {NoRatio}
  BY DEF Tags
<1>2. Sound(chr, owed)
  BY TagsAlive
<1>3. chr \in [Chars -> Instances] /\ owed \subseteq Chars
  BY DEF IInv, TypeOK
<1> QED
  BY <1>1, <1>2, <1>3, RatioStep DEF MoveDisplayObject

LEMMA PlaceSound ==
  ASSUME IInv, ~strayed, pos # 0, NEW tag \in Tags, tag.depth >= StaticOffset,
         Put(Instance(dest, tag, Ratio(tag)), At(dest, tag.depth))
  PROVE  /\ chr' \in [Chars -> Instances] /\ owed' \subseteq Chars
         /\ Sound(chr', owed') /\ (Live(chr) => Live(chr'))
<1> DEFINE i == Instance(dest, tag, Ratio(tag))
<1>1. dest \in Lists
  BY DEF IInv, TypeOK
<1>2. tag.depth \in Int /\ tag.kind \in {"shape", "clip"} /\ tag.handler \in BOOLEAN
  BY DEF Tags
<1>3. Ratio(tag) \in Nat
  BY DEF Tags, Ratio
<1>4. i \in Instances
  BY <1>1, <1>2, <1>3 DEF Instance, Instances
<1>5. i.list = dest /\ i.depth = tag.depth /\ ~i.unloaded
  BY DEF Instance
<1>6. Shown(i)
  BY <1>1, <1>5 DEF Shown
<1>7. Sound(chr, owed)
  BY TagsAlive
<1>8. Sound(chr', owed') /\ (Live(chr) => Live(chr'))
  BY <1>4, <1>5, <1>6, <1>7, PutStep
<1> QED
  BY <1>8 DEF Sound

LEMMA TagStep ==
  ASSUME IInv, ExecuteTag
  PROVE  IInv'
<1> DEFINE tag == timeline[frame][pos]
<1>1. tag \in Tags /\ tag.depth \in Int /\ tag.depth >= StaticOffset
  BY TagFacts DEF IInv, ExecuteTag
<1> HIDE DEF tag
<1>2. /\ ~strayed /\ strayed \in BOOLEAN /\ clip' = clip /\ pos # 0
      /\ clip # "destroyed" /\ Sound(chr, owed) /\ (clip = "placed" => Live(chr))
  <2>1. pos # 0 /\ ~strayed
    BY DEF ExecuteTag
  <2> QED
    BY <2>1, TagsAlive DEF IInv, TypeOK, ExecuteTag
<1>3. At(dest, tag.depth) \in SUBSET {c \in Chars : Shown(chr[c])}
  BY <1>1 DEF At, Listed, Shown, IInv, TypeOK
<1>4. /\ chr' \in [Chars -> Instances] /\ owed' \subseteq Chars
      /\ Sound(chr', owed') /\ (Live(chr) => Live(chr')) /\ strayed' \in BOOLEAN
  <2>1. CASE AddDisplayObject(tag)
    <3>1. CASE At(dest, tag.depth) = {}
      BY <1>1, <1>2, <2>1, <3>1, PlaceSound DEF AddDisplayObject
    <3>2. CASE At(dest, tag.depth) # {}
      <4>1. chr' = chr /\ owed' = owed /\ strayed' = strayed
        BY <2>1, <3>2 DEF AddDisplayObject
      <4> QED
        BY <4>1, <1>2 DEF Sound
    <3> QED
      BY <3>1, <3>2
  <2>2. CASE MoveDisplayObject(tag)
    BY <2>2, <1>1, <1>2, MoveSound
  <2>3. CASE ReplaceDisplayObject(tag)
    <3>1. CASE MoveDisplayObject(tag)
      BY <3>1, <1>1, <1>2, MoveSound
    <3>2. CASE chr' = chr /\ owed' = owed /\ strayed' = strayed
      BY <3>2, <1>2 DEF Sound
    <3>3. CASE Put(Instance(dest, tag, Ratio(tag)), At(dest, tag.depth)) /\ strayed' = strayed
      BY <3>3, <1>1, <1>2, PlaceSound
    <3> QED
      BY <2>3, <3>1, <3>2, <3>3 DEF ReplaceDisplayObject
  <2>4. CASE RemoveDisplayObject(tag)
    <3>1. Sound(chr', owed') /\ (Live(chr) => Live(chr'))
      BY <2>4, <1>2, <1>3, TakeStep DEF RemoveDisplayObject
    <3> QED
      BY <3>1, <2>4, <1>2 DEF Sound, RemoveDisplayObject
  <2> QED
    BY <2>1, <2>2, <2>3, <2>4 DEF ExecuteTag, tag
<1>5. TypeOK'
  <2>1. pos' \in 0..(Len(timeline[frame]) + 1)
    BY TimelineFacts DEF ExecuteTag, IInv, TypeOK
  <2> QED
    BY <1>4, <2>1 DEF ExecuteTag, IInv, TypeOK
<1> QED
  BY <1>2, <1>4, <1>5 DEF IInv, Healthy

LEMMA TimelineStep ==
  ASSUME IInv, Timeline
  PROVE  IInv'
<1>1. CASE ExecuteTag
  BY <1>1, TagStep
<1>2. CASE NextFrame
  <2>1. frame' \in 1..Len(timeline) /\ pos' \in 0..(Len(timeline[frame']) + 1)
    <3>1. frame + 1 \in 1..Len(timeline)
      BY <1>2, TimelineFacts DEF NextFrame, IInv, TypeOK
    <3>2. Len(timeline[frame + 1]) \in Nat
      BY <3>1, TimelineFacts DEF IInv
    <3> QED
      BY <1>2, <3>1, <3>2 DEF NextFrame
  <2>2. ~strayed /\ pos # 0
    BY <1>2, TimelineFacts DEF NextFrame, FrameDone, IInv, TypeOK
  <2>3. clip # "destroyed" /\ Sound(chr, owed) /\ (clip = "placed" => Live(chr))
    BY <2>2, TagsAlive
  <2> QED
    BY <1>2, <2>1, <2>3 DEF NextFrame, IInv, TypeOK, Healthy
<1>3. CASE TagsDone
  <2>1. 0 \in 0..(Len(timeline[frame]) + 1)
    BY TimelineFacts DEF IInv, TypeOK
  <2> QED
    BY <1>3, <2>1 DEF TagsDone, IInv, TypeOK, Healthy
<1>4. CASE RestoreDone
  <2>0. ~strayed /\ pos # 0 /\ clip # "destroyed"
    <3>1. ~strayed /\ pos # 0
      BY <1>4, TimelineFacts DEF RestoreDone, FrameDone, IInv, TypeOK
    <3> QED
      BY <3>1, TagsAlive
  <2>1. Sound(chr', owed') /\ (clip = "placed" => Live(chr'))
    BY <1>4, <2>0, TagsAlive, MergeStep DEF RestoreDone
  <2>2. chr' \in [Chars -> Instances] /\ owed' \subseteq Chars
    BY <2>1 DEF Sound
  <2>3. 0 \in 0..(Len(timeline[frame]) + 1)
    BY TimelineFacts DEF IInv, TypeOK
  <2>4. TypeOK'
    BY <1>4, <2>2, <2>3 DEF RestoreDone, IInv, TypeOK, Lists
  <2> QED
    BY <1>4, <2>0, <2>1, <2>4 DEF RestoreDone, IInv, Healthy
<1> QED
  BY <1>1, <1>2, <1>3, <1>4 DEF Timeline

\* Rewinding and going forward start at the first tag of a frame that exists.
LEMMA JumpType ==
  ASSUME TypeOK, NEW t \in 1..Len(timeline), timeline' = timeline,
         Rewind(t) \/ (Forward(t) /\ frame < Len(timeline))
  PROVE  /\ frame' \in 1..Len(timeline) /\ target' \in 1..Len(timeline)
         /\ pos' \in 0..(Len(timeline[frame']) + 1) /\ dest' \in Lists
<1>1. frame' \in 1..Len(timeline)
  BY TimelineFacts DEF Rewind, Forward, TypeOK
<1>2. Len(timeline[frame']) \in Nat
  BY <1>1, TimelineFacts
<1> QED
  BY <1>1, <1>2 DEF Rewind, Forward, TypeOK, Lists

LEMMA TickStep ==
  ASSUME IInv, Tick
  PROVE  IInv'
<1>1. CASE Advance
  <2>1. CASE clip = "placed" /\ playing /\ Len(timeline) > 1
    <3>1. CASE frame < Len(timeline)
      <4>1. frame + 1 \in 1..Len(timeline) /\ Forward(frame + 1)
        BY <1>1, <2>1, <3>1, TimelineFacts DEF Advance, IInv, TypeOK
      <4>2. /\ frame' \in 1..Len(timeline) /\ target' \in 1..Len(timeline)
            /\ pos' \in 0..(Len(timeline[frame']) + 1) /\ dest' \in Lists
        BY <1>1, <3>1, <4>1, JumpType DEF Advance, IInv
      <4> QED
        BY <1>1, <4>2 DEF Advance, IInv, TypeOK, Healthy
    <3>2. CASE ~(frame < Len(timeline))
      <4>1. 1 \in 1..Len(timeline) /\ Rewind(1)
        BY <1>1, <2>1, <3>2, TimelineFacts DEF Advance, IInv
      <4>2. /\ frame' \in 1..Len(timeline) /\ target' \in 1..Len(timeline)
            /\ pos' \in 0..(Len(timeline[frame']) + 1) /\ dest' \in Lists
        BY <1>1, <4>1, JumpType DEF Advance, IInv
      <4> QED
        BY <1>1, <4>2 DEF Advance, IInv, TypeOK, Healthy
    <3> QED
      BY <3>1, <3>2
  <2>2. CASE ~(clip = "placed" /\ playing /\ Len(timeline) > 1)
    BY <1>1, <2>2 DEF Advance, tagVars, IInv, TypeOK, Healthy
  <2> QED
    BY <2>1, <2>2
<1>2. CASE LoadsDone
  BY <1>2 DEF LoadsDone, Quiet, IInv, TypeOK, Healthy
<1>3. CASE Cleanup
  <2>1. ~strayed /\ Sound(chr, owed) /\ owed = {} /\ strayed' = strayed
    BY <1>3 DEF Cleanup, Quiet, IInv, Healthy
  <2>2. CASE clip = "placed"
    <3>1. Sound(chr', owed') /\ Live(chr') /\ clip' = clip
      BY <1>3, <2>1, <2>2, RemoveUnloadedStep DEF Cleanup
    <3>2. chr' \in [Chars -> Instances] /\ owed' \subseteq Chars
      BY <3>1 DEF Sound
    <3> QED
      BY <1>3, <2>1, <3>1, <3>2 DEF Cleanup, IInv, TypeOK, Healthy
  <2>3. CASE clip # "placed"
    <3>1. Sound(chr', {}) /\ clip' = "destroyed" /\ owed' = owed
      BY <1>3, <2>3, NoneSound DEF Cleanup, DestroyAll
    <3>2. chr' \in [Chars -> Instances]
      BY <3>1 DEF Sound
    <3>3. pos' = 0
      BY <1>3 DEF Cleanup, Quiet
    <3> QED
      BY <1>3, <2>1, <3>1, <3>2, <3>3 DEF Cleanup, IInv, TypeOK, Healthy
  <2> QED
    BY <2>2, <2>3
<1> QED
  BY <1>1, <1>2, <1>3 DEF Tick

\* Handlers that have run are owed no more.
LEMMA RunUnloadStep ==
  ASSUME IInv, NEW c \in Chars, RunUnload(c)
  PROVE  IInv'
<1>1. clip # "destroyed" => Sound(chr, owed')
  BY DEF RunUnload, Quiet, IInv, Healthy, Sound
<1> QED
  BY <1>1 DEF RunUnload, IInv, TypeOK, Healthy

LEMMA NewClipType ==
  ASSUME NEW d \in Int, NEW h \in BOOLEAN, NEW dynamic \in BOOLEAN
  PROVE  LET i == NewClip(d, h, dynamic)
         IN i \in Instances /\ i.list = "main" /\ i.depth = d /\ ~i.unloaded
  BY DEF NewClip, Instances, Lists

\* Scripts and loads: a new clip takes its place on stage, or goes astray.
LEMMA NewClipStep ==
  ASSUME IInv, ~strayed, clip # "destroyed",
         NEW d \in Int, NEW h \in BOOLEAN, NEW dynamic \in BOOLEAN,
         Put(NewClip(d, h, dynamic), At("main", d)), strayed' = (d < StaticOffset)
  PROVE  /\ chr' \in [Chars -> Instances] /\ owed' \subseteq Chars
         /\ ~strayed' => Sound(chr', owed') /\ (Live(chr) => Live(chr'))
         /\ strayed' \in BOOLEAN
<1> DEFINE i == NewClip(d, h, dynamic)
<1>1. i \in Instances /\ i.list = "main" /\ i.depth = d /\ ~i.unloaded
  BY NewClipType
<1>2. At("main", d) \in SUBSET Chars
  BY DEF At, Listed
<1>3. chr' \in [Chars -> Instances] /\ owed' \subseteq Chars
  BY <1>1, <1>2, PutType DEF IInv, TypeOK
<1>4. ASSUME ~strayed'
      PROVE  Sound(chr', owed') /\ (Live(chr) => Live(chr'))
  <2>1. ~(d < StaticOffset)
    BY <1>4
  <2>2. Shown(i)
    BY <1>1, <2>1 DEF Shown, Lists
  <2> QED
    BY <1>1, <2>2, PutStep DEF IInv, Healthy
<1>5. strayed' \in BOOLEAN
  <2>1. (d < StaticOffset) \in BOOLEAN
    BY SMT
  <2> QED
    BY <2>1
<1> QED
  BY <1>3, <1>4, <1>5

LEMMA ScriptingStep ==
  ASSUME IInv, Scripting
  PROVE  IInv'
<1> SUFFICES ASSUME ~strayed, clip # "destroyed" PROVE IInv'
  BY DEF Scripting, Attach, RemoveMovieClip, TransformClip, Swap, Goto, LoadInto,
         Script, Quiet
<1>0. Sound(chr, owed) /\ (clip = "placed" => Live(chr))
  BY DEF IInv, Healthy
<1>1. ASSUME NEW d \in ScriptDepths, NEW h \in BOOLEAN, Attach(d, h)
      PROVE  IInv'
  <2>1. /\ chr' \in [Chars -> Instances] /\ owed' \subseteq Chars
        /\ ~strayed' => Sound(chr', owed') /\ (Live(chr) => Live(chr'))
        /\ strayed' \in BOOLEAN
    BY <1>1, NewClipStep DEF Attach
  <2> QED
    BY <1>0, <1>1, <2>1 DEF Attach, Script, tagVars, IInv, TypeOK, Healthy
<1>2. ASSUME NEW c \in Chars, RemoveMovieClip(c)
      PROVE  IInv'
  <2>1. chr[c].depth >= StaticOffset
    BY <1>0, <1>2 DEF RemoveMovieClip, Sound, Instances
  <2>2. At("main", chr[c].depth) \in SUBSET {e \in Chars : Shown(chr[e])}
    BY <2>1 DEF At, Listed, Shown, Lists
  <2>3. Sound(chr', owed') /\ (Live(chr) => Live(chr'))
    BY <1>0, <1>2, <2>2, TakeStep DEF RemoveMovieClip
  <2>4. chr' \in [Chars -> Instances] /\ owed' \subseteq Chars
    BY <2>3 DEF Sound
  <2> QED
    BY <1>0, <1>2, <2>3, <2>4 DEF RemoveMovieClip, Script, tagVars, IInv, TypeOK, Healthy
<1>3. ASSUME NEW c \in Chars, NEW d \in ScriptDepths, Swap(c, d)
      PROVE  IInv'
  <2>1. Sound(chr', owed') /\ (Live(chr) => Live(chr'))
    BY <1>0, <1>3, SwapStep DEF Swap
  <2>2. chr' \in [Chars -> Instances] /\ owed' \subseteq Chars
    BY <2>1 DEF Sound
  <2> QED
    BY <1>0, <1>3, <2>1, <2>2 DEF Swap, Script, tagVars, IInv, TypeOK, Healthy
<1>4. ASSUME NEW t \in 1..(Len(timeline) + 1), Goto(t)
      PROVE  IInv'
  <2>1. timeline' = timeline /\ playing' \in BOOLEAN
    BY <1>4 DEF Goto, Script
  <2>2. /\ frame' \in 1..Len(timeline) /\ target' \in 1..Len(timeline)
        /\ pos' \in 0..(Len(timeline[frame']) + 1) /\ dest' \in Lists
    <3>1. CASE t > Len(timeline)
      <4>1. frame' = Len(timeline) /\ pos' = 0 /\ target' = target /\ dest' = dest
        BY <1>4, <3>1, TimelineFacts DEF Goto, Script, Quiet, IInv, TypeOK
      <4>2. Len(timeline) \in 1..Len(timeline)
        BY TimelineFacts DEF IInv
      <4>3. Len(timeline[Len(timeline)]) \in Nat
        BY <4>2, TimelineFacts DEF IInv
      <4> QED
        BY <4>1, <4>2, <4>3 DEF IInv, TypeOK
    <3>2. CASE ~(t > Len(timeline)) /\ t = frame
      BY <1>4, <3>2 DEF Goto, tagVars, IInv, TypeOK
    <3>3. CASE ~(t > Len(timeline)) /\ t < frame
      <4>1. Rewind(t) /\ t \in 1..Len(timeline)
        BY <1>4, <3>3, TimelineFacts DEF Goto, IInv
      <4> QED
        BY <2>1, <4>1, JumpType DEF IInv
    <3>4. CASE ~(t > Len(timeline)) /\ t # frame /\ ~(t < frame)
      <4>1. Forward(t)
        BY <1>4, <3>4 DEF Goto
      <4>2. t \in 1..Len(timeline) /\ frame < Len(timeline)
        BY <3>4, TimelineFacts DEF IInv, TypeOK
      <4> QED
        BY <2>1, <4>1, <4>2, JumpType DEF IInv
    <3> QED
      BY <3>1, <3>2, <3>3, <3>4
  <2>3. /\ scripts' \in 0..MaxScripts /\ phase' = phase /\ chr' = chr /\ owed' = owed
        /\ clip' = clip /\ strayed' = strayed
    BY <1>4 DEF Goto, Script, IInv, TypeOK
  <2> QED
    BY <2>1, <2>2, <2>3 DEF IInv, TypeOK, Healthy
<1>5. ASSUME NEW c \in Chars, NEW h \in BOOLEAN, LoadInto(c, h)
      PROVE  IInv'
  <2>1. chr[c].depth \in Int
    BY <1>0 DEF Sound, Instances
  <2>2. /\ chr' \in [Chars -> Instances] /\ owed' \subseteq Chars
        /\ ~strayed' => Sound(chr', owed') /\ (Live(chr) => Live(chr'))
        /\ strayed' \in BOOLEAN
    BY <1>5, <2>1, NewClipStep DEF LoadInto
  <2> QED
    BY <1>0, <1>5, <2>2 DEF LoadInto, Script, tagVars, IInv, TypeOK, Healthy
<1>6. ASSUME NEW c \in Chars, TransformClip(c)
      PROVE  IInv'
  <2>1. Sound(chr', owed') /\ (Live(chr) => Live(chr'))
    BY <1>0, <1>6, TransformStep DEF TransformClip
  <2>2. chr' \in [Chars -> Instances] /\ owed' \subseteq Chars
    BY <2>1 DEF Sound
  <2> QED
    BY <1>0, <1>6, <2>1, <2>2 DEF TransformClip, Script, tagVars, IInv, TypeOK, Healthy
<1> QED
  BY <1>1, <1>2, <1>3, <1>4, <1>5, <1>6 DEF Scripting

LEMMA UnloadStep ==
  ASSUME IInv, NEW h \in BOOLEAN, NEW level \in BOOLEAN, Unload(h, level)
  PROVE  IInv'
<1>1. Sound(chr, owed) /\ strayed' = strayed
  BY DEF Unload, Quiet, IInv, Healthy
<1>2. CASE clip' = "unloaded" /\ UnloadAll
  <2>1. Sound(chr', owed')
    BY <1>1, <1>2, UnloadAllStep
  <2>2. chr' \in [Chars -> Instances] /\ owed' \subseteq Chars
    BY <2>1 DEF Sound
  <2> QED
    BY <1>1, <1>2, <2>1, <2>2 DEF Unload, IInv, TypeOK, Healthy
<1>3. CASE clip' = "destroyed" /\ DestroyAll /\ owed' = Owing(Survivors)
  <2>1. Sound(chr', {}) /\ pos' = 0
    BY <1>3, NoneSound DEF DestroyAll, Unload, Quiet
  <2>2. chr' \in [Chars -> Instances]
    BY <2>1 DEF Sound
  <2>3. owed' \subseteq Chars
    BY <1>3 DEF Owing, Survivors, Stage, Listed, IInv, TypeOK
  <2> QED
    BY <1>1, <1>3, <2>1, <2>2, <2>3 DEF Unload, IInv, TypeOK, Healthy
<1> QED
  BY <1>2, <1>3 DEF Unload

LEMMA InitIInv == Init => IInv
<1> SUFFICES ASSUME Init PROVE IInv
  OBVIOUS
<1>1. timeline \in Seq(Seq(Tags)) /\ timeline # <<>>
  BY DEF Init
<1>2. 1 \in 1..Len(timeline) /\ Len(timeline[1]) \in Nat
  BY <1>1
<1>3. Sound(chr, owed) /\ Live(chr) /\ clip = "placed"
  BY NoneSound DEF Init
<1>4. chr \in [Chars -> Instances] /\ owed \subseteq Chars
  BY <1>3 DEF Sound
<1>5. frame \in 1..Len(timeline) /\ target \in 1..Len(timeline)
  BY <1>2 DEF Init
<1>6. pos \in 0..(Len(timeline[frame]) + 1) /\ scripts \in 0..MaxScripts
  BY <1>2 DEF Init
<1>7. TypeOK
  BY <1>4, <1>5, <1>6 DEF Init, TypeOK, Lists
<1> QED
  BY <1>3, <1>7 DEF IInv, Healthy

LEMMA RestartStep ==
  ASSUME Restart
  PROVE  IInv'
<1>1. timeline' \in Seq(Seq(Tags)) /\ timeline' # <<>>
  BY DEF Restart
<1>2. 1 \in 1..Len(timeline') /\ Len(timeline'[1]) \in Nat
  BY <1>1
<1>3. Sound(chr', owed') /\ Live(chr') /\ clip' = "placed"
  BY NoneSound DEF Restart, DestroyAll
<1>4. chr' \in [Chars -> Instances] /\ owed' \subseteq Chars
  BY <1>3 DEF Sound
<1>5. frame' \in 1..Len(timeline') /\ target' \in 1..Len(timeline')
  BY <1>2 DEF Restart
<1>6. pos' \in 0..(Len(timeline'[frame']) + 1) /\ scripts' \in 0..MaxScripts
  BY <1>2 DEF Restart
<1>7. TypeOK'
  BY <1>4, <1>5, <1>6 DEF Restart, TypeOK, Lists
<1> QED
  BY <1>3, <1>7 DEF IInv, Healthy

LEMMA NextIInv == IInv /\ [Next]_vars => IInv'
<1> SUFFICES ASSUME IInv, [Next]_vars PROVE IInv'
  OBVIOUS
<1>1. CASE Tick
  BY <1>1, TickStep
<1>2. CASE Timeline
  BY <1>2, TimelineStep
<1>3. ASSUME NEW c \in Chars, RunUnload(c) PROVE IInv'
  BY <1>3, RunUnloadStep
<1>4. CASE Scripting
  BY <1>4, ScriptingStep
<1>5. ASSUME NEW h \in BOOLEAN, NEW level \in BOOLEAN, Unload(h, level) PROVE IInv'
  BY <1>5, UnloadStep
<1>6. CASE Restart
  BY <1>6, RestartStep
<1>7. CASE UNCHANGED vars
  BY <1>7 DEF vars, IInv, TypeOK, Healthy
<1> QED
  BY <1>1, <1>2, <1>3, <1>4, <1>5, <1>6, <1>7 DEF Next

\* The inductive invariant holds in every reachable state.
LEMMA InductiveInvariant == Spec => []IInv
<1> QED
  BY InitIInv, NextIInv, PTL DEF Spec

-----------------------------------------------------------------------------
(* The results.                                                            *)

\* Every variable has its type: tags are taken from frames that exist, and the
\* playhead never leaves the timeline.
THEOREM TypeCorrect == Spec => []TypeOK
<1>1. IInv => TypeOK
  BY DEF IInv
<1> QED
  BY <1>1, InductiveInvariant, PTL

\* Whatever tags, scripts, loads, rewinding and removals do, and in whatever
\* order: until the execution goes astray no depth on stage is taken twice, what
\* is on display is not unloaded, and only unloaded instances are in the removed
\* zone (DisplayList::testInvariant and the assertions of display()).
THEOREM DepthsAlwaysSound == Spec => []DepthsSound
<1>1. IInv => DepthsSound
  <2> SUFFICES ASSUME IInv, ~strayed PROVE DepthsUnique /\ StageLives /\ ZoneUnloaded
    BY DEF DepthsSound
  <2>1. (\E o : Sound(chr, o)) /\ (clip = "placed" => Live(chr))
    BY DEF IInv, Healthy
  <2>2. \A l \in Lists : \A c \in Stage(l) :
           c \in Chars /\ Shown(chr[c]) /\ chr[c].list = l
    BY DEF Stage, Listed, Shown
  <2>3. DepthsUnique
    BY <2>1, <2>2 DEF DepthsUnique, Sound
  <2>4. StageLives
    BY <2>1, <2>2 DEF StageLives, Live, Sound, Lists
  <2>5. ZoneUnloaded
    <3> SUFFICES ASSUME NEW c \in Chars, chr[c].list # "none",
                        chr[c].depth < StaticOffset
                 PROVE  chr[c].unloaded /\ chr[c].handler
      BY DEF ZoneUnloaded, Unused, Listed
    <3>1. chr[c].list \in Lists /\ chr[c].depth \in Int
      BY <2>1 DEF Sound, Instances
    <3>2. ~Shown(chr[c])
      BY <3>1 DEF Shown
    <3> QED
      BY <2>1, <3>1, <3>2 DEF Sound
  <2> QED
    BY <2>3, <2>4, <2>5
<1> QED
  BY <1>1, InductiveInvariant, PTL

\* What the lists' soundness says of the queue: whoever is in it waits.
LEMMA OwedWaits ==
  ASSUME IInv, ~strayed, clip # "destroyed"
  PROVE  \A c \in owed : c \notin Unused /\ chr[c].unloaded
<1>1. Sound(chr, owed)
  BY DEF IInv, Healthy
<1> QED
  BY <1>1 DEF Sound, Unused, Listed, Lists

\* Where a new instance is put, even below the stage, what waited still waits.
LEMMA PutWaits ==
  ASSUME Sound(chr, owed), NEW i, NEW d, Put(i, At("main", d))
  PROVE  owed \subseteq owed' /\ \A c \in owed' : c \notin Unused' /\ chr'[c].unloaded
<1> DEFINE X == At("main", d)
<1>1. PICK n \in Unused : chr' = [Without(X) EXCEPT ![n] = i]
  BY DEF Put
<1>2. chr[n].list = "none"
  BY DEF Unused, Listed
<1>3. owed' = owed \cup {c \in X : chr[c].handler /\ ~chr[c].unloaded}
  BY DEF Put, Owing
<1>4. \A c \in X : c \in Chars /\ chr[c].list = "main"
  BY DEF At, Listed
<1> HIDE DEF X
<1>5. ASSUME NEW c \in owed'
      PROVE  chr'[c].list # "none" /\ chr'[c].unloaded
  <2>1. c \in Chars /\ chr[c] \in Instances /\ chr[c].list \in Lists /\ chr[c].handler
    BY <1>3, <1>4, <1>5 DEF Sound, Lists
  <2>2. chr'[c] = IF c \in X THEN Removed(chr[c]) ELSE chr[c]
    BY <1>1, <1>2, <2>1 DEF Without, Lists
  <2>3. CASE c \in X
    <3>1. Removed(chr[c]).list = "main"
      BY <1>4, <2>1, <2>3, RemovedType
    <3> QED
      BY <2>1, <2>2, <2>3, <3>1, RemovedType
  <2>4. CASE c \notin X
    BY <1>3, <2>1, <2>2, <2>4 DEF Sound, Lists
  <2> QED
    BY <2>3, <2>4
<1>6. \A c \in owed' : c \notin Unused'
  BY <1>5 DEF Unused, Listed
<1> QED
  BY <1>3, <1>5, <1>6

\* Tags and the end of a rewind take nothing from the queue.
LEMMA TimelineWaits ==
  ASSUME IInv, IInv', Timeline
  PROVE  owed \subseteq owed' /\ \A c \in owed' : c \notin Unused' /\ chr'[c].unloaded
<1>1. ~strayed /\ pos # 0 /\ clip' = clip
  BY TimelineFacts DEF Timeline, ExecuteTag, NextFrame, TagsDone, RestoreDone, FrameDone,
                       IInv, TypeOK
<1>2. clip # "destroyed" /\ Sound(chr, owed)
  BY <1>1, TagsAlive
<1>3. ~strayed' => \A c \in owed' : c \notin Unused' /\ chr'[c].unloaded
  <2>1. ~strayed' => Sound(chr', owed')
    BY <1>1, <1>2 DEF IInv, Healthy
  <2> QED
    BY <2>1 DEF Sound, Unused, Listed, Lists
<1>4. CASE ExecuteTag
  <2> DEFINE tag == timeline[frame][pos]
  <2>1. tag \in Tags /\ tag.ratio \in Nat \cup {NoRatio}
    BY <1>4, TagFacts DEF ExecuteTag, IInv, Tags
  <2> HIDE DEF tag
  <2>2. CASE MoveDisplayObject(tag)
    <3>1. /\ chr' \in [Chars -> Instances] /\ Sound(chr', owed') /\ owed' = owed
      BY <1>2, <2>1, <2>2, RatioStep DEF MoveDisplayObject, Sound
    <3> QED
      BY <3>1 DEF Sound, Unused, Listed, Lists
  <2>3. CASE ~MoveDisplayObject(tag)
    <3>1. strayed' = strayed /\ owed \subseteq owed'
      BY <1>4, <2>3 DEF ExecuteTag, AddDisplayObject, ReplaceDisplayObject,
                        RemoveDisplayObject, Put, Take, Owing, tag
    <3> QED
      BY <1>1, <1>3, <3>1
  <2> QED
    BY <2>2, <2>3
<1>5. CASE NextFrame \/ TagsDone \/ RestoreDone
  <2>1. strayed' = strayed /\ owed \subseteq owed'
    BY <1>5 DEF NextFrame, TagsDone, RestoreDone, MergeDisplayList, Owing
  <2> QED
    BY <1>1, <1>3, <2>1
<1> QED
  BY <1>4, <1>5 DEF Timeline

\* Nor do scripts and loads, those that go astray included.
LEMMA ScriptingWaits ==
  ASSUME IInv, IInv', Scripting
  PROVE  owed \subseteq owed' /\ \A c \in owed' : c \notin Unused' /\ chr'[c].unloaded
<1>1. ~strayed /\ clip # "destroyed" /\ clip' = clip
  BY DEF Scripting, Attach, RemoveMovieClip, TransformClip, Swap, Goto, LoadInto,
         Script, Quiet
<1>2. Sound(chr, owed)
  BY <1>1 DEF IInv, Healthy
<1>3. CASE strayed' = strayed /\ owed \subseteq owed'
  <2>1. Sound(chr', owed')
    BY <1>1, <1>3 DEF IInv, Healthy
  <2> QED
    BY <1>3, <2>1 DEF Sound, Unused, Listed, Lists
<1>4. ASSUME NEW d \in ScriptDepths, NEW h \in BOOLEAN, Attach(d, h)
      PROVE  owed \subseteq owed' /\ \A c \in owed' : c \notin Unused' /\ chr'[c].unloaded
  BY <1>2, <1>4, PutWaits DEF Attach
<1>5. ASSUME NEW c \in Chars, NEW h \in BOOLEAN, LoadInto(c, h)
      PROVE  owed \subseteq owed' /\ \A e \in owed' : e \notin Unused' /\ chr'[e].unloaded
  BY <1>2, <1>5, PutWaits DEF LoadInto
<1>6. ASSUME NEW c \in Chars, RemoveMovieClip(c) \/ TransformClip(c)
      PROVE  strayed' = strayed /\ owed \subseteq owed'
  BY <1>6 DEF RemoveMovieClip, TransformClip, Take, Owing, Transform
<1>7. ASSUME NEW c \in Chars, NEW d \in ScriptDepths, Swap(c, d)
      PROVE  strayed' = strayed /\ owed \subseteq owed'
  BY <1>7 DEF Swap, SwapDepths
<1>8. ASSUME NEW t \in 1..(Len(timeline) + 1), Goto(t)
      PROVE  strayed' = strayed /\ owed \subseteq owed'
  BY <1>8 DEF Goto
<1> QED
  BY <1>3, <1>4, <1>5, <1>6, <1>7, <1>8 DEF Scripting

\* Nobody whose UNLOAD handler is queued is destroyed, revived or reused before
\* it has been taken from the queue to be run, whatever tags, scripts, loads and
\* removals do, those that go astray included: only the removal of the clip
\* itself, while it is placed, destroys children that are still queued.
THEOREM HandlersAlwaysHeard == Spec => HandlersHeard
<1> DEFINE Heard ==
      ~strayed =>
        \A c \in owed \cup owed' :
          \/ c \in owed' /\ c \notin Unused' /\ chr'[c].unloaded
          \/ c \notin owed' /\ chr'[c] = chr[c]
          \/ clip' = "destroyed" /\ clip # "unloaded"
<1>1. IInv /\ IInv' /\ [Next]_vars => [Heard]_vars
  <2> SUFFICES ASSUME IInv, IInv', Next, ~strayed,
                      ~(clip' = "destroyed" /\ clip # "unloaded")
               PROVE  \A c \in owed \cup owed' :
                         \/ c \in owed' /\ c \notin Unused' /\ chr'[c].unloaded
                         \/ c \notin owed' /\ chr'[c] = chr[c]
    OBVIOUS
  <2>1. CASE Timeline
    BY <2>1, TimelineWaits
  <2>2. CASE Scripting
    BY <2>2, ScriptingWaits
  <2>3. CASE Advance \/ LoadsDone
    <3>1. chr' = chr /\ owed' = owed /\ clip # "destroyed" /\ Unused' = Unused
      BY <2>3 DEF Advance, LoadsDone, Unused, Listed
    <3> QED
      BY <3>1, OwedWaits
  <2>4. CASE Cleanup
    <3>1. owed = {} /\ owed' = {}
      BY <2>4 DEF Cleanup, RemoveUnloaded
    <3> QED
      BY <3>1
  <2>5. ASSUME NEW x \in Chars, RunUnload(x)
        PROVE  \A c \in owed \cup owed' :
                  \/ c \in owed' /\ c \notin Unused' /\ chr'[c].unloaded
                  \/ c \notin owed' /\ chr'[c] = chr[c]
    <3>1. /\ owed' = owed \ {x} /\ chr' = chr /\ clip # "destroyed" /\ Unused' = Unused
      BY <2>5 DEF RunUnload, Unused, Listed
    <3> QED
      BY <3>1, OwedWaits
  <2>6. ASSUME NEW h \in BOOLEAN, NEW level \in BOOLEAN, Unload(h, level)
        PROVE  \A c \in owed \cup owed' : c \in owed' /\ c \notin Unused' /\ chr'[c].unloaded
    <3>1. clip' # "destroyed" /\ UnloadAll /\ ~strayed'
      BY <2>6 DEF Unload, Quiet
    <3>2. owed \subseteq owed'
      BY <3>1 DEF UnloadAll, Owing
    <3>3. Sound(chr', owed')
      BY <3>1 DEF IInv, Healthy
    <3> QED
      BY <3>2, <3>3 DEF Sound, Unused, Listed, Lists
  <2>7. CASE Restart
    <3>1. owed = {} /\ owed' = {}
      BY <2>7 DEF Restart
    <3> QED
      BY <3>1
  <2> QED
    BY <2>1, <2>2, <2>3, <2>4, <2>5, <2>6, <2>7 DEF Next, Tick
<1> QED
  BY <1>1, InductiveInvariant, PTL DEF Spec, HandlersHeard

\* What mergeDisplayList makes of the list that restoreDisplayList has built: at
\* a depth of the static zone an instance is left exactly if the tags put one
\* there, and only one; it is the one of the tags, or an old clip that they could
\* have placed.  Above the static zone what the tags leave alone stays.
Merged ==
  /\ \A d \in StaticOffset..(-1) :
       LET now == {c \in Chars : chr'[c].list = "main" /\ chr'[c].depth = d}
       IN  /\ now # {} <=> At("tmp", d) # {}
           /\ \A c, e \in now : c = e
           /\ \A c \in now :
                \/ /\ c \in At("tmp", d)
                   /\ chr'[c] = [chr[c] EXCEPT !.list = "main"]
                \/ /\ c \in At("main", d) /\ chr'[c] = chr[c]
                   /\ chr[c].kind = "clip" /\ ~chr[c].dynamic
                   /\ \E e \in At("tmp", d) : chr[c].ratio = chr[e].ratio
  /\ \A c \in Stage("main") :
       chr[c].depth >= 0 /\ At("tmp", chr[c].depth) = {} => chr'[c] = chr[c]

\* What becomes of each instance when the lists are merged.
LEMMA MergedOne ==
  ASSUME Sound(chr, owed), MergeDisplayList, NEW c \in Chars
  PROVE  /\ c \in Outdated => ~Shown(chr'[c])
         /\ c \in Superfluous => chr'[c].list = "none"
         /\ c \in Listed("tmp") \ Superfluous => chr'[c] = [chr[c] EXCEPT !.list = "main"]
         /\ c \notin Outdated \cup Listed("tmp") => chr'[c] = chr[c]
<1>1. chr'[c] = CASE c \in Outdated -> Removed(chr[c])
                  [] c \in Superfluous -> Nobody
                  [] c \in Listed("tmp") \ Superfluous -> [chr[c] EXCEPT !.list = "main"]
                  [] OTHER -> chr[c]
  BY DEF MergeDisplayList
<1>2. /\ c \in Outdated => c \in Listed("main") /\ chr[c].depth >= StaticOffset
      /\ c \in Superfluous => c \in Listed("tmp")
      /\ ~(c \in Listed("main") /\ c \in Listed("tmp"))
  BY DEF Outdated, Superfluous, Stage, Listed
<1>3. chr[c] \in Instances
  BY DEF Sound
<1>4. c \in Outdated => ~Shown(chr'[c])
  <2> SUFFICES ASSUME c \in Outdated PROVE ~Shown(Removed(chr[c]))
    BY <1>1, <1>2
  <2>1. chr[c].depth \in Int /\ chr[c].depth >= StaticOffset
    BY <1>2, <1>3 DEF Instances
  <2>2. Removed(chr[c]).list # "none" => Removed(chr[c]).depth = RemovedOffset - chr[c].depth
    BY <1>3, RemovedType
  <2>3. RemovedOffset - chr[c].depth < StaticOffset
    BY <2>1 DEF RemovedOffset
  <2>4. RemovedOffset - chr[c].depth \in Int
    BY <2>1 DEF RemovedOffset
  <2>5. ~(RemovedOffset - chr[c].depth >= StaticOffset)
    BY <2>3, <2>4
  <2> QED
    BY <2>2, <2>5 DEF Shown, Lists
<1> QED
  BY <1>1, <1>2, <1>4, NobodyType

LEMMA MergeMerged == ASSUME Sound(chr, owed), MergeDisplayList PROVE Merged
<1>1. Sound(chr', owed')
  BY MergeStep
<1>2. ASSUME NEW d \in StaticOffset..(-1), NEW c \in Chars,
             chr'[c].list = "main", chr'[c].depth = d
      PROVE  \/ /\ c \in At("tmp", d)
                /\ chr'[c] = [chr[c] EXCEPT !.list = "main"]
             \/ /\ c \in At("main", d) /\ chr'[c] = chr[c]
                /\ chr[c].kind = "clip" /\ ~chr[c].dynamic
                /\ \E e \in At("tmp", d) : chr[c].ratio = chr[e].ratio
  <2>1. d \in Int /\ d >= StaticOffset /\ d < 0
    OBVIOUS
  <2>2. c \notin Outdated /\ c \notin Superfluous
    BY <1>2, <2>1, MergedOne DEF Shown, Lists
  <2>3. CASE c \in Listed("tmp")
    <3>1. chr'[c] = [chr[c] EXCEPT !.list = "main"]
      BY <2>2, <2>3, MergedOne
    <3>2. chr[c].depth = d
      BY <1>2, <3>1 DEF Sound, Instances
    <3> QED
      BY <2>3, <3>1, <3>2 DEF At
  <2>4. CASE c \notin Listed("tmp")
    <3>1. chr'[c] = chr[c]
      BY <2>2, <2>4, MergedOne
    <3>2. c \in At("main", d) /\ c \in Stage("main") /\ chr[c].depth < 0
      BY <1>2, <2>1, <3>1 DEF At, Stage, Listed
    <3>3. At("tmp", d) # {} /\ \A e \in At("tmp", d) : Keeps(c, e)
      BY <2>2, <3>2 DEF Outdated, At
    <3> QED
      BY <3>1, <3>2, <3>3 DEF Keeps
  <2> QED
    BY <2>3, <2>4
<1>3. ASSUME NEW d \in StaticOffset..(-1), NEW e \in At("tmp", d)
      PROVE  \E c \in Chars : chr'[c].list = "main" /\ chr'[c].depth = d
  <2>1. d \in Int /\ d >= StaticOffset /\ d < 0
    OBVIOUS
  <2>2. e \in Chars /\ e \in Listed("tmp") /\ chr[e].depth = d
    BY DEF At, Listed
  <2>3. \A x \in At("tmp", d) : x = e
    BY <2>1, <2>2 DEF At, Listed, Sound, Shown, Lists
  <2>4. CASE e \notin Superfluous
    <3>1. chr'[e] = [chr[e] EXCEPT !.list = "main"]
      BY <2>2, <2>4, MergedOne
    <3>2. chr'[e].list = "main" /\ chr'[e].depth = d
      BY <2>2, <3>1 DEF Sound, Instances
    <3> QED
      BY <2>2, <3>2
  <2>5. CASE e \in Superfluous
    <3>1. PICK c \in At("main", d) : Keeps(c, e)
      BY <2>2, <2>5 DEF Superfluous
    <3>2. c \in Chars /\ c \in Listed("main") /\ chr[c].depth = d /\ c \notin Listed("tmp")
      BY DEF At, Listed
    <3>3. c \notin Outdated
      BY <2>2, <2>3, <3>1, <3>2 DEF Outdated
    <3>4. chr'[c] = chr[c]
      BY <3>2, <3>3, MergedOne
    <3> QED
      BY <3>2, <3>4 DEF Listed
  <2> QED
    BY <2>4, <2>5
<1>4. ASSUME NEW c \in Stage("main"), chr[c].depth >= 0, At("tmp", chr[c].depth) = {}
      PROVE  chr'[c] = chr[c]
  <2>1. c \in Chars /\ c \notin Listed("tmp") /\ chr[c].depth \in Int
    BY DEF Stage, Listed, Sound, Instances
  <2>2. ~(chr[c].depth < 0)
    BY <1>4, <2>1
  <2>3. c \notin Outdated
    BY <1>4, <2>2 DEF Outdated
  <2> QED
    BY <2>1, <2>3, MergedOne
<1>5. ASSUME NEW d \in StaticOffset..(-1), NEW c \in Chars, NEW e \in Chars,
             chr'[c].list = "main", chr'[c].depth = d,
             chr'[e].list = "main", chr'[e].depth = d
      PROVE  c = e
  BY <1>1, <1>5 DEF Sound, Shown, Lists
<1>6. ASSUME NEW d \in StaticOffset..(-1)
      PROVE  LET now == {c \in Chars : chr'[c].list = "main" /\ chr'[c].depth = d}
             IN  /\ now # {} <=> At("tmp", d) # {}
                 /\ \A c, e \in now : c = e
                 /\ \A c \in now :
                      \/ /\ c \in At("tmp", d)
                         /\ chr'[c] = [chr[c] EXCEPT !.list = "main"]
                      \/ /\ c \in At("main", d) /\ chr'[c] = chr[c]
                         /\ chr[c].kind = "clip" /\ ~chr[c].dynamic
                         /\ \E e \in At("tmp", d) : chr[c].ratio = chr[e].ratio
  <2> DEFINE now == {c \in Chars : chr'[c].list = "main" /\ chr'[c].depth = d}
  <2>1. \A c, e \in now : c = e
    BY <1>5
  <2>2. \A c \in now : \/ /\ c \in At("tmp", d)
                          /\ chr'[c] = [chr[c] EXCEPT !.list = "main"]
                       \/ /\ c \in At("main", d) /\ chr'[c] = chr[c]
                          /\ chr[c].kind = "clip" /\ ~chr[c].dynamic
                          /\ \E e \in At("tmp", d) : chr[c].ratio = chr[e].ratio
    BY <1>2
  <2>3. At("tmp", d) # {} => now # {}
    BY <1>3
  <2>4. now # {} => At("tmp", d) # {}
    BY <2>2
  <2> QED
    BY <2>1, <2>2, <2>3, <2>4
<1> QED
  BY <1>4, <1>6 DEF Merged

\* After a rewind the display list is the one the tags have built again, with the
\* old clips that match it and what scripts put above the static zone.  What
\* the tags build, RestoreMatchesTimeline says.
THEOREM RestoreMerges == Spec => [][RestoreDone => Merged]_vars
<1>1. IInv /\ [Next]_vars => [RestoreDone => Merged]_vars
  <2> SUFFICES ASSUME IInv, RestoreDone PROVE Merged
    OBVIOUS
  <2>1. ~strayed /\ pos # 0
    BY TimelineFacts DEF RestoreDone, FrameDone, IInv, TypeOK
  <2> QED
    BY <2>1, TagsAlive, MergeMerged DEF RestoreDone
<1> QED
  BY <1>1, InductiveInvariant, PTL DEF Spec
================================================================================
