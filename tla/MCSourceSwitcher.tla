-------------------------- MODULE MCSourceSwitcher --------------------------
(* An instance of SourceSwitcher for TLC: three senders for two slots.     *)
EXTENDS SourceSwitcher, TLC

\* The desired mapping the process starts with: the local camera in slot 1.
DefaultFirst == [s \in Slots |-> IF s = 0 THEN Empty ELSE Local]

Symmetry == Permutations(Senders \ Configured)
=============================================================================
