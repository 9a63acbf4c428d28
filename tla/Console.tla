------------------------------- MODULE Console -------------------------------
(***************************************************************************)
(* The ground station's console and what it asks for: ping and status of   *)
(* repl with the receive path of GroundStation (ground-station/arc_gs.py), *)
(* and the Controller's answer, an ACK and for GET_STATUS a reliable       *)
(* STATUS_REPORT (make_fc_video_handler in arc/controller_main.py,         *)
(* Controller._handle_local_frame).  Radios and hub between them are one   *)
(* path that keeps the order and loses frames.                             *)
(*                                                                         *)
(* A command is known by its count; its frame carries that modulo SeqSpan, *)
(* the ACKs of the ground station use up numbers too.                      *)
(***************************************************************************)
EXTENDS Naturals, Sequences

CONSTANTS
  SeqSpan,     \* 2^16
  MaxRetries,  \* max_retries of the Controller's node
  Fits,        \* the report encodes to no more than MAX_PAYLOAD_SIZE
  MaxSends,    \* bound: frames the ground station sends
  MaxLosses,   \* bound: frames the path loses
  MaxDown      \* bound: frames on the way to the ground

ConsoleAssumption ==
  /\ SeqSpan \in Nat \ {0} /\ MaxRetries \in Nat /\ Fits \in BOOLEAN
  /\ {MaxSends, MaxLosses, MaxDown} \subseteq Nat

VARIABLES
  pc,        \* repl: "idle", or in ping "sending" or "waiting" for the ACK
  pinged,    \* the command that ping has sent
  sends,     \* frames sent; _seq is this modulo SeqSpan
  acks,      \* keys of _acks
  wake,      \* the event in _ack_waiters is set
  owed,      \* numbers of the frames that _send_ack tasks will acknowledge
  up, down,  \* frames on their way
  pending,   \* reports that the Controller's node waits for the ACK of
  pongs,     \* history: pings that were told a pong
  reached,   \* history: commands the Controller has taken
  printed,   \* history: requests whose reports were printed, in that order
  losses

consoleVars ==
  <<pc, pinged, sends, acks, wake, owed, up, down, pending, pongs, reached, printed, losses>>

Seq16(n) == n % SeqSpan
Of(id) == {f.kind : f \in {g \in reached : g.id = id}}

Init ==
  /\ pc = "idle" /\ pinged = 0 /\ sends = 0 /\ acks = {} /\ wake = FALSE
  /\ owed = <<>> /\ up = <<>> /\ down = <<>> /\ pending = {}
  /\ pongs = {} /\ reached = {} /\ printed = <<>> /\ losses = 0

-----------------------------------------------------------------------------
(* The ground station.                                                     *)

\* _send_frame: the number is taken and the frame written.
SendFrame(kind, of) ==
  /\ sends < MaxSends /\ sends' = sends + 1
  /\ up' = Append(up, [kind |-> kind, id |-> sends', seq |-> Seq16(sends), of |-> of])

RequestStatus ==
  /\ pc = "idle" /\ SendFrame("status", 0)
  /\ UNCHANGED <<pc, pinged, acks, wake, owed, down, pending, pongs, reached, printed, losses>>

Ping ==
  /\ pc = "idle" /\ SendFrame("ping", 0)
  /\ pc' = "sending" /\ pinged' = sends'
  /\ UNCHANGED <<acks, wake, owed, down, pending, pongs, reached, printed, losses>>

PingSeq == Seq16(pinged - 1)
Told == pc' = "idle" /\ pongs' = pongs \cup {pinged}

\* wait_for_ack: an ACK that is there already will do.
Sent ==
  /\ pc = "sending"
  /\ \/ PingSeq \in acks /\ Told /\ UNCHANGED wake
     \/ PingSeq \notin acks /\ pc' = "waiting" /\ wake' = FALSE /\ UNCHANGED pongs
  /\ UNCHANGED <<pinged, sends, acks, owed, up, down, pending, reached, printed, losses>>
Acked ==
  /\ pc = "waiting" /\ wake /\ Told
  /\ UNCHANGED <<pinged, sends, acks, wake, owed, up, down, pending, reached, printed, losses>>
TimesOut ==
  /\ pc = "waiting" /\ pc' = "idle"
  /\ UNCHANGED <<pinged, sends, acks, wake, owed, up, down, pending, pongs, reached, printed, losses>>

\* _handle_cobs: an ACK is filed and wakes its waiter; a report is printed, as
\* often as it comes, and will be acknowledged.
HandleWakesAny(f) ==
  \/ /\ f.kind = "ack" /\ acks' = acks \cup {f.of} /\ wake' = TRUE
     /\ UNCHANGED <<owed, printed>>
  \/ /\ f.kind = "report" /\ printed' = Append(printed, f.of) /\ owed' = Append(owed, f.of)
     /\ UNCHANGED <<acks, wake>>
Handle(f) ==
  \/ /\ f.kind = "ack" /\ acks' = acks \cup {f.of}
     /\ wake' = (wake \/ (pc = "waiting" /\ f.of = PingSeq))
     /\ UNCHANGED <<owed, printed>>
  \/ /\ f.kind = "report" /\ printed' = Append(printed, f.of) /\ owed' = Append(owed, f.of)
     /\ UNCHANGED <<acks, wake>>
Notify ==
  /\ down # <<>> /\ down' = Tail(down) /\ Handle(Head(down))
  /\ UNCHANGED <<pc, pinged, sends, up, pending, pongs, reached, losses>>

SendAck ==
  /\ owed # <<>> /\ owed' = Tail(owed) /\ SendFrame("ack", Head(owed))
  /\ UNCHANGED <<pc, pinged, acks, wake, down, pending, pongs, reached, printed, losses>>

-----------------------------------------------------------------------------
(* The Controller.                                                         *)

Ack(f) == [kind |-> "ack", of |-> f.seq]
Report(id) == [kind |-> "report", of |-> id]

\* receive: the node acknowledges the request, and on_fc_video makes the report
\* and sends it, or lets the error of its encode out.
Answer(f) ==
  IF f.kind = "status" /\ Fits
    THEN /\ pending' = pending \cup {[id |-> f.id, tries |-> 0]}
         /\ down' = down \o <<Ack(f), Report(f.id)>>
    ELSE pending' = pending /\ down' = Append(down, Ack(f))

Take ==
  /\ up # <<>> /\ Len(down) < MaxDown
  /\ up' = Tail(up)
  /\ reached' = reached \cup {[kind |-> Head(up).kind, id |-> Head(up).id]}
  /\ IF Head(up).kind = "ack"
       THEN pending' = {r \in pending : r.id # Head(up).of} /\ UNCHANGED down
       ELSE Answer(Head(up))
  /\ UNCHANGED <<pc, pinged, sends, acks, wake, owed, pongs, printed, losses>>

\* ReliableEndpoint.tick, when a report has not been acknowledged in time.
RetryNever(r) == FALSE /\ UNCHANGED consoleVars
Retry(r) ==
  /\ r \in pending /\ Len(down) < MaxDown
  /\ IF r.tries < MaxRetries
       THEN /\ pending' = (pending \ {r}) \cup {[r EXCEPT !.tries = @ + 1]}
            /\ down' = Append(down, Report(r.id))
       ELSE pending' = pending \ {r} /\ UNCHANGED down
  /\ UNCHANGED <<pc, pinged, sends, acks, wake, owed, up, pongs, reached, printed, losses>>

-----------------------------------------------------------------------------

Lose ==
  /\ losses < MaxLosses /\ losses' = losses + 1
  /\ \/ up # <<>> /\ up' = Tail(up) /\ UNCHANGED down
     \/ down # <<>> /\ down' = Tail(down) /\ UNCHANGED up
  /\ UNCHANGED <<pc, pinged, sends, acks, wake, owed, pending, pongs, reached, printed>>

Retries == \E r \in pending : Retry(r)

Next ==
  \/ RequestStatus \/ Ping \/ Sent \/ Acked \/ TimesOut \/ Notify \/ SendAck
  \/ Take \/ Retries \/ Lose

ConsoleSpec == Init /\ [][Next]_consoleVars

\* Both event loops run and the path passes frames on.
ConsoleFairness ==
  WF_consoleVars(Notify) /\ WF_consoleVars(Take) /\ WF_consoleVars(Retries)

-----------------------------------------------------------------------------
(* Properties.                                                             *)

\* A pong says that this ping has been taken, whatever is lost or late, as long
\* as the numbers have not come round: an ACK is kept for good and is known by
\* its number only.
PongMeansReached == sends <= SeqSpan => \A id \in pongs : "ping" \in Of(id)

\* The same without that condition.  It does not hold: the ACK of an earlier
\* command with this number is a pong at once.
PongAlwaysMeansReached == \A id \in pongs : "ping" \in Of(id)

\* "GET_STATUS produces a STATUS_REPORT reply": a request that was taken is
\* answered, as long as the path loses fewer frames than the node sends copies.
\* It does not hold for a report that does not fit: the request is acknowledged,
\* and the error ends the link it came over.
Answered ==
  MaxLosses <= MaxRetries =>
    \A id \in 1 .. MaxSends : ("status" \in Of(id)) ~> (\E i \in DOMAIN printed : printed[i] = id)

\* The last report printed is of the last request answered.  It does not hold: a
\* report that was lost is sent again after the next one, and looks the same.
NewestLast ==
  \A i, j \in DOMAIN printed : i < j => printed[i] <= printed[j]

=============================================================================
