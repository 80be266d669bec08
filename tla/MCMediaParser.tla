----------------------------- MODULE MCMediaParser -----------------------------
(* Small streams for MediaParser. *)
EXTENDS MediaParser

LOCAL Audio(t) == [kind |-> "audio", time |-> t, key |-> FALSE]
LOCAL Key(t) == [kind |-> "video", time |-> t, key |-> TRUE]
LOCAL Video(t) == [kind |-> "video", time |-> t, key |-> FALSE]
LOCAL Other(t) == [kind |-> "other", time |-> t, key |-> FALSE]

\* Audio and video, with key frames at both ends; video alone, out of order and
\* with equal timestamps; audio alone.
MCStreams == { << Key(0), Audio(0), Video(1), Audio(1), Key(2) >>,
               << Other(0), Key(0), Video(2), Video(1), Video(2), Key(3) >>,
               << Audio(0), Audio(1), Audio(2) >> }
================================================================================
