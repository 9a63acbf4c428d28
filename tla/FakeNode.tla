------------------------------ MODULE FakeNode ------------------------------
(***************************************************************************)
(* The bench tool that stands in for flight computers, senders and power   *)
(* boards (tools/fake-fc-teensy): up to four serial ports, each a node of  *)
(* its own with its own counter and one slot for the command that waits    *)
(* for an ACK, and an operator who types commands for the port selected.   *)
(* The nodes that answer obey a command once per source, session and       *)
(* number, and acknowledge it every time.  The clock steps by half a       *)
(* second, the loop of the tool runs many times in each step.              *)
(***************************************************************************)
EXTENDS Naturals, FiniteSets

CONSTANTS
  Ports,        \* the serial ports
  Nodes,        \* addresses a port may take
  Home,         \* the address of each port at boot
  Sessions,     \* values of the SESSION byte
  AckTimeout,   \* ACK_TIMEOUT_MS, in steps of the clock
  MaxCommands,  \* bound: reliable commands typed
  MaxSeq,       \* bound: numbers each port uses
  MaxSwitches   \* bound: node and session commands typed

FakeNodeAssumption ==
  /\ Ports # {} /\ Home \in [Ports -> Nodes] /\ Sessions # {}
  /\ \A p, q \in Ports : p # q => Home[p] # Home[q]
  /\ AckTimeout \in Nat \ {0}
  /\ {MaxCommands, MaxSeq, MaxSwitches} \subseteq Nat

VARIABLES
  active,    \* g_active_port
  session,   \* g_session
  addr,      \* the address of each port
  nextSeq,   \* next_seq of each port
  pending,   \* the command each port waits for, 0 when none, its number, age
  typed,     \* reliable commands typed so far
  verdict,   \* what was printed for each: "none", "ACK" or "NO-ACK"
  flying,    \* commands on their way
  acks,      \* ACKs on their way back to each port
  received,  \* commands that reached their node
  obeyed,    \* those it did not take for a repetition
  known,     \* source, session and number of the commands received
  used,      \* source, session and number of every frame sent
  emitted,   \* how many frames were sent
  switches

Commands == 1 .. MaxCommands
idVars == <<active, session, addr, switches>>
ackVars == <<pending, typed, verdict>>
farVars == <<flying, acks, received, obeyed, known>>
sentVars == <<nextSeq, used, emitted>>
fakeVars == <<idVars, ackVars, farVars, sentVars>>

Init ==
  /\ active \in Ports /\ session \in Sessions /\ switches = 0
  /\ addr = Home /\ nextSeq = [p \in Ports |-> 0]
  /\ pending = [p \in Ports |-> [cmd |-> 0, seq |-> 0, age |-> 0]]
  /\ typed = 0 /\ verdict = [c \in Commands |-> "none"]
  /\ flying = {} /\ acks = [p \in Ports |-> {}]
  /\ received = {} /\ obeyed = {} /\ known = {}
  /\ used = {} /\ emitted = 0

-----------------------------------------------------------------------------
(* Frames.                                                                 *)

\* send_frame_to: n frames take the port's next numbers.
Emit(p, n) ==
  /\ nextSeq[p] + n <= MaxSeq
  /\ nextSeq' = [nextSeq EXCEPT ![p] = @ + n]
  /\ used' = used \cup {<<addr[p], session, nextSeq[p] + i>> : i \in 0 .. n - 1}
  /\ emitted' = emitted + n

\* maybe_heartbeat, maybe_telemetry and their commands send one unreliable
\* frame; they leave the slot alone.
Beat(p) == Emit(p, 1) /\ UNCHANGED <<idVars, ackVars, farVars>>

\* A reliable frame for the port's node is acknowledged; GET_STATUS of a power
\* board is answered with telemetry as well.
Answer(p) ==
  /\ \E n \in {1, 2} : Emit(p, n)
  /\ UNCHANGED <<idVars, ackVars, farVars>>

-----------------------------------------------------------------------------
(* The operator.                                                           *)

\* layout, source, overlay, status, freq, txpower, radiostatus, out, outmask
\* and powerstatus each send one reliable frame from the selected port, and
\* the slot holds the last of them.
Type ==
  /\ typed < MaxCommands /\ typed' = typed + 1
  /\ Emit(active, 1)
  /\ pending' = [pending EXCEPT ![active] =
                   [cmd |-> typed', seq |-> nextSeq[active], age |-> 0]]
  /\ flying' = flying \cup
       {[cmd |-> typed', port |-> active,
         key |-> <<addr[active], session, nextSeq[active]>>]}
  /\ UNCHANGED <<idVars, verdict, acks, received, obeyed, known>>

\* cmd_port.
SelectPort(p) ==
  /\ p # active /\ active' = p
  /\ UNCHANGED <<session, addr, switches, ackVars, farVars, sentVars>>

\* cmd_node: a new address, and numbers from 0 again.
SetNode(a) ==
  /\ switches < MaxSwitches /\ switches' = switches + 1
  /\ addr' = [addr EXCEPT ![active] = a]
  /\ nextSeq' = [nextSeq EXCEPT ![active] = 0]
  /\ UNCHANGED <<active, session, ackVars, farVars, used, emitted>>

\* cmd_session.
SetSession(s) ==
  /\ switches < MaxSwitches /\ switches' = switches + 1
  /\ session' = s
  /\ UNCHANGED <<active, addr, ackVars, farVars, sentVars>>

-----------------------------------------------------------------------------
(* The other nodes and the way to them.                                    *)

Arrive(f) ==
  /\ flying' = flying \ {f}
  /\ received' = received \cup {f.cmd}
  /\ obeyed' = IF f.key \in known THEN obeyed ELSE obeyed \cup {f.cmd}
  /\ known' = known \cup {f.key}
  /\ acks' = [acks EXCEPT ![f.port] = @ \cup {f.key[3]}]
  /\ UNCHANGED <<idVars, ackVars, sentVars>>
Lose(f) ==
  /\ flying' = flying \ {f}
  /\ UNCHANGED <<idVars, ackVars, acks, received, obeyed, known, sentVars>>
LoseAck(p, n) ==
  /\ acks' = [acks EXCEPT ![p] = @ \ {n}]
  /\ UNCHANGED <<idVars, ackVars, flying, received, obeyed, known, sentVars>>

-----------------------------------------------------------------------------
(* ACKs and timeouts.                                                      *)

Closes(p, v) ==
  /\ verdict' = [verdict EXCEPT ![pending[p].cmd] = v]
  /\ pending' = [pending EXCEPT ![p].cmd = 0, ![p].age = 0]

\* handle_decoded_frame: the number alone is compared, on the port's own slot.
TakeAckSlotOfActive(p, n) ==
  /\ acks' = [acks EXCEPT ![p] = @ \ {n}]
  /\ IF pending[active].cmd # 0 /\ pending[active].seq = n
       THEN Closes(active, "ACK") ELSE UNCHANGED <<verdict, pending>>
  /\ UNCHANGED <<idVars, typed, flying, received, obeyed, known, sentVars>>
TakeAck(p, n) ==
  /\ acks' = [acks EXCEPT ![p] = @ \ {n}]
  /\ IF pending[p].cmd # 0 /\ pending[p].seq = n
       THEN Closes(p, "ACK") ELSE UNCHANGED <<verdict, pending>>
  /\ UNCHANGED <<idVars, typed, flying, received, obeyed, known, sentVars>>

\* check_ack_timeout.
TimeoutOfActive(p) ==
  /\ p = active /\ pending[p].cmd # 0 /\ pending[p].age >= AckTimeout
  /\ Closes(p, "NO-ACK")
  /\ UNCHANGED <<idVars, typed, farVars, sentVars>>
Timeout(p) ==
  /\ pending[p].cmd # 0 /\ pending[p].age >= AckTimeout
  /\ Closes(p, "NO-ACK")
  /\ UNCHANGED <<idVars, typed, farVars, sentVars>>

\* Time passes; what is due has been closed before.
Waiting == {p \in Ports : pending[p].cmd # 0}
Older(p) ==
  IF p \in Waiting THEN [pending[p] EXCEPT !.age = @ + 1] ELSE pending[p]
Tick ==
  /\ Waiting # {} /\ \A p \in Waiting : pending[p].age < AckTimeout
  /\ pending' = [p \in Ports |-> Older(p)]
  /\ UNCHANGED <<idVars, typed, verdict, farVars, sentVars>>

Next ==
  \/ Type \/ Tick
  \/ \E a \in Nodes : SetNode(a)
  \/ \E s \in Sessions : SetSession(s)
  \/ \E f \in flying : Arrive(f) \/ Lose(f)
  \/ \E p \in Ports :
       \/ Beat(p) \/ Answer(p) \/ SelectPort(p) \/ Timeout(p)
       \/ \E n \in acks[p] : TakeAck(p, n) \/ LoseAck(p, n)

FakeSpec == Init /\ [][Next]_fakeVars

\* Time passes and the loop runs.
FakeFairness ==
  /\ WF_fakeVars(Tick)
  /\ \A p \in Ports : WF_fakeVars(Timeout(p))
FairFakeSpec == FakeSpec /\ FakeFairness

-----------------------------------------------------------------------------
(* Properties.                                                             *)

\* Types; a slot is aged only while it waits, and no further than the timeout.
FakeTypeOK ==
  /\ active \in Ports /\ session \in Sessions /\ addr \in [Ports -> Nodes]
  /\ nextSeq \in [Ports -> 0 .. MaxSeq]
  /\ pending \in [Ports -> [cmd : 0 .. typed, seq : 0 .. MaxSeq, age : 0 .. AckTimeout]]
  /\ \A p \in Ports : pending[p].cmd = 0 => pending[p].age = 0
  /\ verdict \in [Commands -> {"none", "ACK", "NO-ACK"}]

\* "ACK" is printed only for a command that its node has received and obeyed,
\* whatever port is selected when the ACK comes and however many are waiting.
AckMeansObeyed == \A c \in DOMAIN verdict : verdict[c] = "ACK" => c \in obeyed

\* No two frames carry the same source, session and number, so that no frame
\* is taken for the repetition of another.
NumbersFresh == Cardinality(used) = emitted

\* A command is judged once: a late ACK does not revise a "NO-ACK".
VerdictStands ==
  [][\A c \in Commands : verdict[c] # "none" => verdict'[c] = verdict[c]]_fakeVars

\* Each port comes back to waiting for nothing.
SlotsFreed == \A p \in Ports : []<>(pending[p].cmd = 0)

\* "The bridge prints ACK on receipt, or NO-ACK if no ACK arrives within
\* ACK_TIMEOUT_MS": a command without a verdict is still waited for.
EveryCommandJudged ==
  \A c \in 1 .. typed : verdict[c] = "none" => \E p \in Ports : pending[p].cmd = c

\* "The bridge prints ACK on receipt": the command it names was received.
AckOnReceipt == \A c \in Commands : verdict[c] = "ACK" => c \in received

=============================================================================
