-------------------------- MODULE CommandDelivery --------------------------
(***************************************************************************)
(* What reliable delivery promises the Controller's video commands, with   *)
(* no channel in it: a numbered command is obeyed at most once, and it is  *)
(* closed either because the sender has obeyed it or because it was given  *)
(* up.  Nothing is kept on disk: a process that restarts forgets its side. *)
(* It promises no order and no delivery.                                   *)
(***************************************************************************)
EXTENDS Naturals, Sequences

CONSTANT Senders

VARIABLES
  issued,   \* numbers given to commands for each sender
  open,     \* those still being retried
  failed,   \* those given up
  obeyed    \* those the sender acted on since it started, in that order

deliveryVars == <<issued, open, failed, obeyed>>

Obeyed(a) == {obeyed[a][i] : i \in DOMAIN obeyed[a]}

Init ==
  /\ issued = [a \in Senders |-> {}] /\ open = [a \in Senders |-> {}]
  /\ failed = [a \in Senders |-> {}] /\ obeyed = [a \in Senders |-> <<>>]

\* The Controller gives up some open commands and issues new ones.
Command ==
  /\ \A a \in Senders :
       /\ issued[a] \subseteq issued'[a]
       /\ open'[a] \subseteq open[a] \cup (issued'[a] \ issued[a])
       /\ issued'[a] \ issued[a] \subseteq open'[a]
       /\ failed'[a] = failed[a] \cup (open[a] \ open'[a])
  /\ UNCHANGED obeyed

\* A sender acts on a command whose number it has not acted on.
Act(a, n) ==
  /\ n \in issued[a] \ Obeyed(a)
  /\ obeyed' = [obeyed EXCEPT ![a] = Append(@, n)]
  /\ UNCHANGED <<issued, open, failed>>

\* An open command that was obeyed is closed.
Confirm(a, n) ==
  /\ n \in open[a] \cap Obeyed(a)
  /\ open' = [open EXCEPT ![a] = @ \ {n}]
  /\ UNCHANGED <<issued, failed, obeyed>>

\* A sender restarts with its duplicate filter empty.
SenderForgets(a) ==
  /\ obeyed' = [obeyed EXCEPT ![a] = <<>>]
  /\ UNCHANGED <<issued, open, failed>>

\* The Controller restarts and numbers its commands from the beginning.
ControllerForgets ==
  /\ issued' = [a \in Senders |-> {}] /\ open' = [a \in Senders |-> {}]
  /\ failed' = [a \in Senders |-> {}]
  /\ UNCHANGED obeyed

Next ==
  \/ Command \/ ControllerForgets \/ \E a \in Senders : SenderForgets(a)
  \/ \E a \in Senders : \E n \in issued[a] : Act(a, n) \/ Confirm(a, n)

Spec == Init /\ [][Next]_deliveryVars

=============================================================================
