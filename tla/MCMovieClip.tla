------------------------------ MODULE MCMovieClip ------------------------------
(* Small timelines for MovieClip. *)
EXTENDS MovieClip

MCStaticOffset == -2
MCScriptDepths == {-3, -1, 0}

LOCAL Tag(op, d, kind, handler, ratio) ==
  [op |-> op, depth |-> d, kind |-> kind, handler |-> handler, ratio |-> ratio]
LOCAL Shape(op, d, r) == Tag(op, d, "shape", FALSE, r)
LOCAL Clip(op, d, handler, r) == Tag(op, d, "clip", handler, r)

\* A clip with a handler that a later frame moves and removes; a shape that
\* becomes a clip, and the clip's place used again; a tag at the highest depth,
\* which is no longer in the static zone.
MCTimelines ==
  { << << Clip("place", -2, TRUE, 0) >>,
       << Clip("move", -2, FALSE, 1), Shape("place", -1, NoRatio) >>,
       << Clip("remove", -2, FALSE, NoRatio) >> >>,
    << << Shape("place", -1, 0) >>,
       << Clip("replace", -1, TRUE, NoRatio), Clip("replace", -1, FALSE, 1) >> >>,
    << << Clip("place", 0, TRUE, 0) >>,
       << Clip("remove", 0, FALSE, NoRatio), Clip("place", -2, TRUE, 1) >>,
       << >> >> }
================================================================================
