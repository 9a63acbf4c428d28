--------------------------- MODULE MCVideoControl ---------------------------
(* A small instance of VideoControl for TLC: one sender and its channel.   *)
EXTENDS VideoControl

CONSTANT s1

\* The desired mapping the process starts with: the local camera in slot 1.
DefaultFirst == [s \in Slots |-> IF s = 0 THEN Empty ELSE Local]
=============================================================================
