------------------------------ MODULE MCNetStream ------------------------------
(* Small streams for NetStream. *)
EXTENDS NetStream

LOCAL Audio(t) == [kind |-> "audio", time |-> t, key |-> FALSE]
LOCAL Key(t) == [kind |-> "video", time |-> t, key |-> TRUE]

\* Audio between video; audio alone.
MCStreams == { << Key(1), Audio(2), Key(2) >>, << Audio(0), Audio(2) >> }
================================================================================
