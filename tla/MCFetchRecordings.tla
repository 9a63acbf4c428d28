-------------------------- MODULE MCFetchRecordings --------------------------
(* FetchRecordings with two hosts, for the run that shows where the script   *)
(* stops: `set -e` and `((OK++))` end it at the first host.                 *)
EXTENDS FetchRecordings, TLC

CONSTANTS r1, r2, r3

\* Two recordings on the first host and one on the second.
MCHostOf == r1 :> 1 @@ r2 :> 1 @@ r3 :> 2
MCRecordings == {r1, r2, r3}
==============================================================================
