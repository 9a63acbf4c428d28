---------------------------- MODULE GroundStation ----------------------------
(***************************************************************************)
(* The ground station's first-light smoke test (ground-station/arc_gs.py): *)
(* run_smoke with the receive path of GroundStation, its waits for         *)
(* heartbeats and ACKs and the tasks that acknowledge reliable frames, all *)
(* on one asyncio loop.  The BLE link and the two radios are modelled from *)
(* what the README says of them: the flight radio acknowledges             *)
(* SET_FREQUENCY and hops, the ground radio hops when it passes that ACK,  *)
(* and if the link goes silent both are back on the old frequency.         *)
(***************************************************************************)
EXTENDS Naturals, Sequences

CONSTANTS
  MaxQueue,   \* bound: notifications waiting
  MaxSeq,     \* bound: frames the ground station sends
  Nothing     \* no frame

VARIABLES
  pc,         \* where run_smoke is; the last four are its results
  heardAny,   \* _hb_count > 0
  heardMore,  \* _hb_count > start_count
  last,       \* _last_heartbeat
  event,      \* _heartbeat_event
  seq,        \* _seq
  cmdSeq,     \* seq of the SET_FREQUENCY frame
  acks,       \* keys of _acks
  wake,       \* the event in _ack_waiters
  owed,       \* tasks of _schedule_ack that have not run yet
  writing,    \* _send_ack tasks inside write_gatt_char
  first, post,  \* run_smoke's variables
  ble,        \* notifications on their way to on_notify
  up,         \* frames on their way to the flight radio
  flight, ground  \* the frequency each radio is on

smokeVars == <<pc, cmdSeq, wake, first, post>>
beatVars == <<heardAny, heardMore, last, event>>
radioVars == <<flight, ground>>
gsVars == <<smokeVars, beatVars, seq, acks, owed, writing, ble, up, radioVars>>

Down(kind, src, of) == [kind |-> kind, src |-> src, of |-> of, on |-> flight]
Up(kind) == [kind |-> kind, seq |-> seq]

Init ==
  /\ pc = "begin" /\ cmdSeq = 0 /\ wake = FALSE /\ first = Nothing /\ post = Nothing
  /\ heardAny = FALSE /\ heardMore = FALSE /\ last = Nothing /\ event = FALSE
  /\ seq = 0 /\ acks = {} /\ owed = 0 /\ writing = 0
  /\ ble = <<>> /\ up = <<>> /\ flight = "old" /\ ground = "old"

-----------------------------------------------------------------------------
(* The receive path.                                                       *)

\* _handle_cobs
HandleForgetsEarlyAck(f) ==
  \/ /\ f.kind = "beat"
     /\ heardAny' = TRUE /\ heardMore' = TRUE /\ last' = f /\ event' = TRUE
     /\ UNCHANGED <<acks, wake, owed>>
  \/ /\ f.kind = "ack"
     /\ acks' = IF pc = "ack" THEN acks \cup {f.of} ELSE acks
     /\ wake' = (wake \/ (pc = "ack" /\ f.of = cmdSeq))
     /\ UNCHANGED <<beatVars, owed>>
  \/ /\ f.kind = "data" /\ owed' = owed + 1
     /\ UNCHANGED <<beatVars, acks, wake>>
Handle(f) ==
  \/ /\ f.kind = "beat"
     /\ heardAny' = TRUE /\ heardMore' = TRUE /\ last' = f /\ event' = TRUE
     /\ UNCHANGED <<acks, wake, owed>>
  \/ /\ f.kind = "ack"
     /\ acks' = acks \cup {f.of}
     /\ wake' = (wake \/ (pc = "ack" /\ f.of = cmdSeq))
     /\ UNCHANGED <<beatVars, owed>>
  \/ /\ f.kind = "data" /\ owed' = owed + 1
     /\ UNCHANGED <<beatVars, acks, wake>>

Notify ==
  /\ ble # <<>> /\ ble' = Tail(ble)
  /\ Handle(Head(ble))
  /\ UNCHANGED <<pc, cmdSeq, first, post, seq, writing, up, radioVars>>

\* _send_ack takes its number and moves the counter on before it awaits.
AckBegins ==
  /\ owed > 0 /\ owed' = owed - 1 /\ writing' = writing + 1
  /\ up' = Append(up, Up("ack")) /\ seq' = seq + 1
  /\ UNCHANGED <<smokeVars, beatVars, acks, ble, radioVars>>

AckEnds ==
  /\ writing > 0 /\ writing' = writing - 1
  /\ UNCHANGED <<smokeVars, beatVars, seq, acks, owed, ble, up, radioVars>>

-----------------------------------------------------------------------------
(* run_smoke, from one await to the next.                                  *)

\* start_count and send_freq, up to its write.
Command ==
  /\ first' = last /\ heardMore' = FALSE
  /\ cmdSeq' = seq /\ seq' = seq + 1 /\ up' = Append(up, Up("freq"))
  /\ pc' = "sending"
  /\ UNCHANGED <<heardAny, last, wake, post>>

\* wait_for_heartbeat returns at once, or clears its event and sleeps.
Begin ==
  /\ pc = "begin"
  /\ \/ heardAny /\ Command /\ UNCHANGED event
     \/ /\ ~heardAny /\ pc' = "first" /\ event' = FALSE
        /\ UNCHANGED <<cmdSeq, wake, first, post, heardAny, heardMore, last, seq, up>>
  /\ UNCHANGED <<acks, owed, writing, ble, radioVars>>

FirstBeat ==
  /\ pc = "first" /\ event
  /\ Command
  /\ UNCHANGED <<event, acks, owed, writing, ble, radioVars>>

AwaitPostClears ==
  /\ pc' = "post" /\ event' = FALSE /\ UNCHANGED post
AwaitPost ==
  \/ heardMore /\ pc' = "passed" /\ post' = last /\ UNCHANGED event
  \/ ~heardMore /\ pc' = "post" /\ event' = FALSE /\ UNCHANGED post

\* send_freq returns and wait_for_ack begins.
Sent ==
  /\ pc = "sending"
  /\ \/ cmdSeq \in acks /\ AwaitPost /\ UNCHANGED wake
     \/ cmdSeq \notin acks /\ pc' = "ack" /\ wake' = FALSE /\ UNCHANGED <<event, post>>
  /\ UNCHANGED <<cmdSeq, first, heardAny, heardMore, last, seq, acks, owed, writing, ble, up, radioVars>>

Acked ==
  /\ pc = "ack" /\ wake
  /\ AwaitPost
  /\ UNCHANGED <<cmdSeq, wake, first, heardAny, heardMore, last, seq, acks, owed, writing, ble, up, radioVars>>

PostBeat ==
  /\ pc = "post" /\ event
  /\ pc' = "passed" /\ post' = last
  /\ UNCHANGED <<cmdSeq, wake, first, beatVars, seq, acks, owed, writing, ble, up, radioVars>>

\* wait_for gives up, which it may do in the turn of the loop that wakes it.
TimesOut ==
  /\ \/ pc = "first" /\ pc' = "no heartbeat"
     \/ pc = "ack" /\ pc' = "no ack"
     \/ pc = "post" /\ pc' = "no post heartbeat"
  /\ UNCHANGED <<cmdSeq, wake, first, post, beatVars, seq, acks, owed, writing, ble, up, radioVars>>

-----------------------------------------------------------------------------
(* The radios.                                                             *)

Arrives(f) == IF flight = ground THEN ble' = Append(ble, f) ELSE ble' = ble

\* Heartbeats of the flight radio itself and of nodes behind it, and reliable
\* telemetry to the ground.
Beats(src) ==
  /\ Len(ble) < MaxQueue
  /\ Arrives(Down("beat", src, 0))
  /\ UNCHANGED <<smokeVars, beatVars, seq, acks, owed, writing, up, radioVars>>

Telemetry ==
  /\ Len(ble) < MaxQueue /\ seq + owed + Len(ble) < MaxSeq
  /\ Arrives(Down("data", "node", 0))
  /\ UNCHANGED <<smokeVars, beatVars, seq, acks, owed, writing, up, radioVars>>

\* The flight radio takes a frame; the ACK of SET_FREQUENCY may get lost.
Takes(lost) ==
  /\ up # <<>> /\ flight = ground /\ up' = Tail(up)
  /\ \/ Head(up).kind = "ack" /\ UNCHANGED <<ble, radioVars>>
     \/ /\ Head(up).kind = "freq" /\ flight' = "new"
        /\ \/ ~lost /\ ground' = "new" /\ ble' = Append(ble, Down("ack", "radio", Head(up).seq))
           \/ lost /\ UNCHANGED <<ground, ble>>
  /\ UNCHANGED <<smokeVars, beatVars, seq, acks, owed, writing>>

LostUp ==
  /\ up # <<>> /\ up' = Tail(up)
  /\ UNCHANGED <<smokeVars, beatVars, seq, acks, owed, writing, ble, radioVars>>

Reverts ==
  /\ flight # ground /\ flight' = "old" /\ ground' = "old"
  /\ UNCHANGED <<smokeVars, beatVars, seq, acks, owed, writing, ble, up>>

-----------------------------------------------------------------------------

Steps ==
  \/ Notify \/ AckBegins \/ AckEnds
  \/ Begin \/ FirstBeat \/ Sent \/ Acked \/ PostBeat
  \/ Beats("radio") \/ Beats("node") \/ Telemetry \/ Takes(FALSE)

Faults == TimesOut \/ Takes(TRUE) \/ LostUp \/ Reverts

GroundSpec == Init /\ [][Steps \/ Faults]_gsVars

\* A link that loses nothing, waits long enough, and a radio that goes on
\* sending heartbeats.
PatientFairness ==
  /\ WF_gsVars(Notify) /\ WF_gsVars(Begin) /\ WF_gsVars(FirstBeat)
  /\ WF_gsVars(Sent) /\ WF_gsVars(Acked) /\ WF_gsVars(PostBeat)
  /\ WF_gsVars(Beats("radio")) /\ WF_gsVars(Takes(FALSE))
PatientSpec == Init /\ [][Steps]_gsVars /\ PatientFairness

-----------------------------------------------------------------------------
(* Properties.                                                             *)

\* Types: a result comes with the frames it is about, and no more ACKs are known
\* than frames were sent.
GroundTypeOK ==
  /\ pc = "passed" => first # Nothing /\ post # Nothing
  /\ pc \in {"ack", "post", "passed", "no ack"} => cmdSeq < seq
  /\ acks \subseteq 0..(seq - 1) /\ cmdSeq \in 0..MaxSeq
  /\ owed \in 0..MaxSeq /\ writing \in 0..MaxSeq

\* Two tasks that send between each other's awaits never use one sequence
\* number, by which ACKs are told apart.
SeqsDistinct ==
  \A i, j \in DOMAIN up : i # j => up[i].seq # up[j].seq

\* No wake-up is lost between a check and the sleep that follows: whoever sleeps
\* while what it waits for is there has been woken.
NoLostWakeup ==
  /\ pc = "first" /\ heardAny => event
  /\ pc = "ack" /\ cmdSeq \in acks => wake
  /\ pc = "post" /\ heardMore => event

\* Over a link that works the smoke test passes, also when the ACK comes before
\* send_freq has returned.
Passes == <>(pc = "passed")

\* "Waits for another heartbeat after the hop window": a passed test has heard a
\* heartbeat sent on the new frequency.
PassedAfterHop == pc = "passed" => post.on = "new"

\* "Waits for a flight-radio heartbeat from 0x20."
StartedByRadio == pc = "sending" => first.src = "radio"

=============================================================================
