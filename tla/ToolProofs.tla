----------------------------- MODULE ToolProofs -----------------------------
(***************************************************************************)
(* The tools beside the system: the pacing and the samples of HitlBridge,  *)
(* the ground station's smoke test (GroundStation) and console (Console),  *)
(* the verdicts of the fake nodes (FakeNode), and what the script that     *)
(* fetches recordings (FetchRecordings) must not lose, whatever their      *)
(* bounds, rates and sets are.                                             *)
(***************************************************************************)
EXTENDS FetchRecordings, Tools, FiniteSetTheorems, TLAPS

-----------------------------------------------------------------------------
(* The HITL bridge.                                                        *)

\* What the pacing rests on: between two samples the next one's time is base plus
\* a period for each sample made, during one it is a period less, and no sample
\* is made before its time.
Pace ==
  /\ {clock, next, base, samples} \subseteq Nat
  /\ hitl \in {"connecting", "greeting", "loop", "sending", "sleeping", "ended"}
  /\ hitl \in {"connecting", "greeting"} => samples = 0
  /\ hitl \in {"loop", "sleeping"} => next = base + samples * Period
  /\ hitl = "sending" => next = base + (samples - 1) * Period
  /\ hitl \in {"loop", "sending"} => next <= clock
  /\ hitl = "sleeping" => next <= clock + Period
  /\ got \in [Dsts -> Nat]
  /\ hitl = "sleeping" => \A d \in Dsts : got[d] = samples

LEMMA NextMultiple ==
  ASSUME Hitl!HitlAssumption, NEW n \in Nat
  PROVE  /\ n * Period \in Nat /\ (n + 1) * Period = n * Period + Period
         /\ Period \in Nat
  BY DEF Hitl!HitlAssumption

\* The pace is kept whatever the writes, the clock and the connection do.
THEOREM PaceKept ==
  ASSUME Hitl!HitlAssumption
  PROVE  Hitl!HitlSpec => []Pace
<1>1. Hitl!Init => Pace
  BY DEF Hitl!Init, Pace
<1>2. Pace /\ [Hitl!Next]_(Hitl!hitlVars) => Pace'
  <2> SUFFICES ASSUME Pace, [Hitl!Next]_(Hitl!hitlVars) PROVE Pace'
    OBVIOUS
  <2>0. Period \in Nat /\ samples * Period \in Nat
        /\ (samples + 1) * Period = samples * Period + Period
    BY NextMultiple DEF Pace
  <2>1. CASE Hitl!Connect
    BY <2>0, <2>1 DEF Hitl!Connect, Pace, Hitl!profileVars
  <2>2. CASE Hitl!Greet
    BY <2>0, <2>2 DEF Hitl!Greet, Pace, Hitl!profileVars
  <2>3. CASE Hitl!Sample
    BY <2>0, <2>3 DEF Hitl!Sample, Hitl!NextSample, Pace
  <2>4. CASE Hitl!Finish
    BY <2>4 DEF Hitl!Finish, Pace, Hitl!profileVars
  <2>5. ASSUME NEW d \in Dsts, Hitl!Send(d) PROVE Pace'
    <3>1. CASE \A e \in Dsts : got'[e] = samples
      BY <2>0, <2>5, <3>1 DEF Hitl!Send, Pace, Hitl!profileVars
    <3>2. CASE ~ \A e \in Dsts : got'[e] = samples
      BY <2>0, <2>5, <3>2 DEF Hitl!Send, Pace, Hitl!profileVars
    <3>3. QED BY <3>1, <3>2
  <2>6. CASE Hitl!Fails
    BY <2>6 DEF Hitl!Fails, Pace, Hitl!profileVars
  <2>7. CASE Hitl!Wake
    BY <2>7 DEF Hitl!Wake, Pace, Hitl!profileVars
  <2>8. CASE Hitl!Break
    BY <2>8 DEF Hitl!Break, Pace, Hitl!profileVars
  <2>9. CASE Hitl!Tick
    BY <2>0, <2>9 DEF Hitl!Tick, Pace, Hitl!profileVars
  <2>10. CASE UNCHANGED Hitl!hitlVars
    BY <2>10 DEF Hitl!hitlVars, Pace, Hitl!profileVars
  <2>11. QED
    BY <2>1, <2>2, <2>3, <2>4, <2>5, <2>6, <2>7, <2>8, <2>9, <2>10 DEF Hitl!Next
<1>3. QED BY <1>1, <1>2, PTL DEF Hitl!HitlSpec

\* The profile is never a whole period ahead of the clock, and whenever there is
\* time to sleep it has caught up, at every rate.
THEOREM ScheduleKept ==
  ASSUME Hitl!HitlAssumption
  PROVE  Hitl!HitlSpec => []Hitl!OnSchedule
<1>1. Pace => Hitl!OnSchedule
  <2> SUFFICES ASSUME Pace PROVE Hitl!OnSchedule
    OBVIOUS
  <2>0. Period \in Nat /\ samples * Period \in Nat
        /\ (samples - 1) * Period = samples * Period - Period
    BY DEF Pace, Hitl!HitlAssumption
  <2>1. QED BY <2>0 DEF Hitl!OnSchedule, Pace
<1>2. QED BY <1>1, PaceKept, PTL

\* What a sample on the ground rests on: while samples are counted as grounded
\* the rocket is at height 0, and so it stood when the second of them was made.
Standing ==
  /\ grounded \in Nat
  /\ grounded > 0 => alt = 0
  /\ Hitl!GroundMeasuresGravity

\* After two samples on the ground every one measures gravity, for every profile
\* and every rate, before the flight and after it.
THEOREM GravityMeasured ==
  Hitl!HitlSpec => []Standing
<1>1. Hitl!Init => Standing
  BY DEF Hitl!Init, Standing, Hitl!GroundMeasuresGravity
<1>2. Standing /\ [Hitl!Next]_(Hitl!hitlVars) => Standing'
  <2> SUFFICES ASSUME Standing, [Hitl!Next]_(Hitl!hitlVars) PROVE Standing'
    OBVIOUS
  <2>1. CASE Hitl!NextSample
    <3>1. alt' = 0 \/ grounded' = 0
      BY <2>1 DEF Hitl!NextSample
    <3>2. grounded' \in Nat /\ (grounded' > 1 => grounded > 0)
      BY <2>1 DEF Hitl!NextSample, Standing
    <3>3. ASSUME grounded' > 1, ~Hitl!Burning(samples' * Period)
          PROVE  reading' = -1 /\ vel' = 0
      <4>1. ~Hitl!Coasting(samples' * Period)
        BY <3>2, <3>3 DEF Hitl!Coasting, Standing
      <4>2. vel' = 0 + 0 /\ reading' = -0 - 1
        BY <2>1, <3>3, <4>1, Zenon DEF Hitl!NextSample
      <4>3. QED BY <4>2
    <3>4. Hitl!GroundMeasuresGravity'
      BY <3>3 DEF Hitl!GroundMeasuresGravity, Hitl!Burning
    <3>5. QED BY <3>1, <3>2, <3>4 DEF Standing
  <2>2. CASE UNCHANGED Hitl!profileVars
    BY <2>2 DEF Hitl!profileVars, Standing, Hitl!GroundMeasuresGravity, Hitl!Burning
  <2>3. Hitl!NextSample \/ UNCHANGED Hitl!profileVars
    BY DEF Hitl!Next, Hitl!hitlVars, Hitl!Connect, Hitl!Greet, Hitl!Sample, Hitl!Finish,
           Hitl!Send, Hitl!Fails, Hitl!Wake, Hitl!Break, Hitl!Tick
  <2>4. QED BY <2>1, <2>2, <2>3
<1>3. QED BY <1>1, <1>2, PTL DEF Hitl!HitlSpec

\* Samples are in time and sound whatever the configuration.
THEOREM SamplesCorrect ==
  ASSUME Hitl!HitlAssumption
  PROVE  Hitl!HitlSpec => []SamplesRight
<1>1. Hitl!OnSchedule /\ Standing => SamplesRight
  BY DEF Standing, SamplesRight, Hitl!SamplesRight
<1>2. QED BY <1>1, ScheduleKept, GravityMeasured, PTL

-----------------------------------------------------------------------------
(* The ground station's smoke test.                                        *)

\* Numbers are used once because each is below the counter when it is taken.
Outgoing == [kind : {"freq", "ack"}, seq : Nat]
Numbered(q, n) ==
  /\ q \in Seq(Outgoing)
  /\ \A i \in DOMAIN q : q[i].seq < n
  /\ \A i, j \in DOMAIN q : i # j => q[i].seq # q[j].seq

LEMMA NumberedParts ==
  ASSUME NEW q, NEW n \in Nat, Numbered(q, n)
  PROVE  /\ \A kind \in {"freq", "ack"} : Numbered(Append(q, [kind |-> kind, seq |-> n]), n + 1)
         /\ q # <<>> => Numbered(Tail(q), n)
<1>0. q \in Seq(Outgoing)
  BY DEF Numbered
<1>1. q \in Seq(Outgoing) /\ Len(q) \in Nat /\ DOMAIN q = 1 .. Len(q)
      /\ \A i \in 1 .. Len(q) : q[i] \in Outgoing
  BY <1>0
<1>2. ASSUME NEW kind \in {"freq", "ack"}
      PROVE  Numbered(Append(q, [kind |-> kind, seq |-> n]), n + 1)
  <2>1. PICK f \in Outgoing : f = [kind |-> kind, seq |-> n]
    BY DEF Outgoing
  <2>2. /\ Append(q, f) \in Seq(Outgoing) /\ DOMAIN Append(q, f) = 1 .. Len(q) + 1
        /\ Append(q, f)[Len(q) + 1] = f
        /\ \A i \in 1 .. Len(q) : Append(q, f)[i] = q[i]
    BY <1>1
  <2>3. \A i \in 1 .. Len(q) + 1 : i \in 1 .. Len(q) \/ i = Len(q) + 1
    BY <1>1
  <2>4. \A i \in DOMAIN q : q[i].seq \in Nat /\ q[i].seq < n
    BY <1>1 DEF Numbered, Outgoing
  <2>5. n < n + 1 /\ \A k \in Nat : k < n => k < n + 1 /\ k # n
    OBVIOUS
  <2>6. PICK r : r = Append(q, f)
    OBVIOUS
  <2>7. \A i \in DOMAIN r : r[i].seq < n + 1
    BY <1>1, <2>1, <2>2, <2>3, <2>4, <2>5, <2>6
  <2>8. \A i, j \in DOMAIN r : i # j => r[i].seq # r[j].seq
    BY <1>1, <2>1, <2>2, <2>3, <2>4, <2>5, <2>6 DEF Numbered
  <2>9. QED BY <2>1, <2>2, <2>6, <2>7, <2>8 DEF Numbered
<1>3. ASSUME q # <<>> PROVE Numbered(Tail(q), n)
  <2>1. /\ Tail(q) \in Seq(Outgoing) /\ DOMAIN Tail(q) = 1 .. Len(q) - 1
        /\ \A i \in 1 .. Len(q) - 1 : Tail(q)[i] = q[i + 1]
    BY <1>1, <1>3
  <2>2. \A i \in 1 .. Len(q) - 1 : i + 1 \in 1 .. Len(q)
    BY <1>1
  <2>3. \A i, j \in 1 .. Len(q) - 1 : i # j => i + 1 # j + 1
    BY <1>1
  <2>4. PICK r : r = Tail(q)
    OBVIOUS
  <2>5. \A i \in DOMAIN r : r[i].seq < n
    BY <1>1, <2>1, <2>2, <2>4 DEF Numbered
  <2>6. \A i, j \in DOMAIN r : i # j => r[i].seq # r[j].seq
    BY <1>1, <2>1, <2>2, <2>3, <2>4 DEF Numbered
  <2>7. QED BY <2>1, <2>4, <2>5, <2>6 DEF Numbered
<1>4. QED BY <1>2, <1>3

GroundInv ==
  /\ heardAny \in BOOLEAN /\ heardMore \in BOOLEAN /\ event \in BOOLEAN /\ wake \in BOOLEAN
  /\ seq \in Nat /\ Numbered(up, seq) /\ Smoke!NoLostWakeup

\* However receive callbacks, ACK tasks and timeouts fall between the awaits of
\* the test, no wake-up is lost and no number is used twice.
THEOREM GroundCorrect ==
  Smoke!GroundSpec => [](Smoke!NoLostWakeup /\ Smoke!SeqsDistinct)
<1>1. Smoke!Init => GroundInv
  <2> SUFFICES ASSUME Smoke!Init PROVE GroundInv
    OBVIOUS
  <2>1. <<>> \in Seq(Outgoing) /\ DOMAIN <<>> = {}
    OBVIOUS
  <2>2. PICK none : none = <<>> /\ DOMAIN none = {}
    BY <2>1
  <2>3. Numbered(none, 0)
    BY <2>1, <2>2 DEF Numbered
  <2>4. QED BY <2>2, <2>3 DEF Smoke!Init, GroundInv, Smoke!NoLostWakeup
<1>2. GroundInv /\ [Smoke!Steps \/ Smoke!Faults]_(Smoke!gsVars) => GroundInv'
  <2> SUFFICES ASSUME GroundInv, [Smoke!Steps \/ Smoke!Faults]_(Smoke!gsVars)
               PROVE  GroundInv'
    OBVIOUS
  <2> USE DEF Smoke!smokeVars, Smoke!beatVars, Smoke!radioVars
  <2>1. seq \in Nat /\ seq + 1 \in Nat
    BY DEF GroundInv
  <2>2. /\ Numbered(Append(up, [kind |-> "freq", seq |-> seq]), seq + 1)
        /\ Numbered(Append(up, [kind |-> "ack", seq |-> seq]), seq + 1)
        /\ up # <<>> => Numbered(Tail(up), seq)
    BY <2>1, NumberedParts DEF GroundInv
  <2>3. CASE Smoke!Notify
    <3>1. PICK f : f = Head(ble)
      OBVIOUS
    <3>2. UNCHANGED <<smoke, cmdSeq, seq, up>> /\ Smoke!Handle(f)
      BY <2>3, <3>1 DEF Smoke!Notify
    <3>3. CASE f.kind = "beat"
      BY <3>2, <3>3 DEF Smoke!Handle, GroundInv, Smoke!NoLostWakeup
    <3>4. CASE f.kind = "ack"
      <4>1. /\ acks' = acks \cup {f.of} /\ wake' = (wake \/ (smoke = "ack" /\ f.of = cmdSeq))
            /\ UNCHANGED <<heardAny, heardMore, event>>
        BY <3>2, <3>4 DEF Smoke!Handle
      <4>2. wake' \in BOOLEAN
        BY <4>1
      <4>3. smoke = "ack" /\ cmdSeq \in acks' => wake'
        BY <4>1 DEF GroundInv, Smoke!NoLostWakeup
      <4>4. QED BY <3>2, <4>1, <4>2, <4>3 DEF GroundInv, Smoke!NoLostWakeup
    <3>5. CASE f.kind = "data"
      BY <3>2, <3>5 DEF Smoke!Handle, GroundInv, Smoke!NoLostWakeup
    <3>6. QED BY <3>2, <3>3, <3>4, <3>5 DEF Smoke!Handle
  <2>4. CASE Smoke!AckBegins
    BY <2>1, <2>2, <2>4 DEF Smoke!AckBegins, Smoke!Up, GroundInv, Smoke!NoLostWakeup
  <2>5. CASE Smoke!AckEnds
    BY <2>5 DEF Smoke!AckEnds, GroundInv, Smoke!NoLostWakeup
  <2>6. CASE Smoke!Begin
    <3>1. CASE Smoke!Command /\ UNCHANGED <<event, acks>>
      BY <2>1, <2>2, <3>1 DEF Smoke!Command, Smoke!Up, GroundInv, Smoke!NoLostWakeup
    <3>2. CASE /\ ~heardAny /\ smoke' = "first" /\ event' = FALSE
               /\ UNCHANGED <<cmdSeq, wake, heardAny, heardMore, seq, up, acks>>
      BY <3>2 DEF GroundInv, Smoke!NoLostWakeup
    <3>3. QED BY <2>6, <3>1, <3>2 DEF Smoke!Begin
  <2>7. CASE Smoke!FirstBeat
    BY <2>1, <2>2, <2>7
       DEF Smoke!FirstBeat, Smoke!Command, Smoke!Up, GroundInv, Smoke!NoLostWakeup
  <2>8. CASE Smoke!Sent
    BY <2>8 DEF Smoke!Sent, Smoke!AwaitPost, GroundInv, Smoke!NoLostWakeup
  <2>9. CASE Smoke!Acked
    BY <2>9 DEF Smoke!Acked, Smoke!AwaitPost, GroundInv, Smoke!NoLostWakeup
  <2>10. CASE Smoke!PostBeat
    BY <2>10 DEF Smoke!PostBeat, GroundInv, Smoke!NoLostWakeup
  <2>11. CASE Smoke!Beats("radio") \/ Smoke!Beats("node")
    BY <2>11 DEF Smoke!Beats, GroundInv, Smoke!NoLostWakeup
  <2>12. CASE Smoke!Telemetry
    BY <2>12 DEF Smoke!Telemetry, GroundInv, Smoke!NoLostWakeup
  <2>13. CASE Smoke!Takes(FALSE) \/ Smoke!Takes(TRUE)
    <3>1. UNCHANGED <<smoke, cmdSeq, wake, heardAny, heardMore, event, seq, acks>>
      BY <2>13 DEF Smoke!Takes
    <3>2. up # <<>> /\ up' = Tail(up)
      BY <2>13 DEF Smoke!Takes
    <3>3. QED BY <2>2, <3>1, <3>2 DEF GroundInv, Smoke!NoLostWakeup
  <2>14. CASE Smoke!TimesOut
    BY <2>14 DEF Smoke!TimesOut, GroundInv, Smoke!NoLostWakeup
  <2>15. CASE Smoke!LostUp
    BY <2>2, <2>15 DEF Smoke!LostUp, GroundInv, Smoke!NoLostWakeup
  <2>16. CASE Smoke!Reverts
    BY <2>16 DEF Smoke!Reverts, GroundInv, Smoke!NoLostWakeup
  <2>17. CASE UNCHANGED Smoke!gsVars
    BY <2>17 DEF Smoke!gsVars, GroundInv, Smoke!NoLostWakeup
  <2>18. QED
    BY <2>3, <2>4, <2>5, <2>6, <2>7, <2>8, <2>9, <2>10, <2>11, <2>12, <2>13, <2>14, <2>15,
       <2>16, <2>17
    DEF Smoke!Steps, Smoke!Faults
<1>3. GroundInv => Smoke!NoLostWakeup /\ Smoke!SeqsDistinct
  BY DEF GroundInv, Numbered, Smoke!SeqsDistinct
<1>4. QED BY <1>1, <1>2, <1>3, PTL DEF Smoke!GroundSpec

-----------------------------------------------------------------------------
(* The ground station's console.                                           *)

\* The frames on their way up are those that were sent, the last ping among them
\* a ping; an ACK on its way down is of a frame the Controller has taken.
Kinds == {"status", "ping", "ack"}
IsOf(kind, id) == id \in 1 .. sends /\ (repl # "idle" /\ id = pinged => kind = "ping")
Asked ==
  {f \in [kind : Kinds, id : Nat, seq : Nat, of : Nat] :
     IsOf(f.kind, f.id) /\ f.seq = Con!Seq16(f.id - 1)}
Taken(n) == \E g \in reached : Con!Seq16(g.id - 1) = n
Answers == {f \in [kind : {"ack", "report"}, of : Nat] : f.kind = "ack" => Taken(f.of)}

ConTyped ==
  /\ repl \in {"idle", "sending", "waiting"} /\ sends \in Nat
  /\ pinged \in 0 .. sends /\ (repl # "idle" => pinged # 0)
  /\ conWake \in BOOLEAN /\ conOwed \in Seq(Nat)
  /\ conUp \in Seq(Asked) /\ down \in Seq(Answers)
  /\ \A r \in unacked : r.id \in Nat

\* What the console believes: an ACK it has filed is of a frame that was taken, it
\* is woken for a reason, and a pong was deserved while numbers are fresh.
ConInv ==
  /\ ConTyped
  /\ \A g \in reached : g \in [kind : Kinds, id : Nat] /\ IsOf(g.kind, g.id)
  /\ \A n \in conAcks : Taken(n)
  /\ repl = "waiting" /\ conWake => Con!PingSeq \in conAcks
  /\ Con!PongMeansReached

LEMMA SeqGrows ==
  ASSUME NEW S, NEW T, S \subseteq T, NEW q \in Seq(S)
  PROVE  q \in Seq(T)
  OBVIOUS

LEMMA SeqParts ==
  ASSUME NEW S, NEW q \in Seq(S)
  PROVE  /\ q # <<>> => Head(q) \in S /\ Tail(q) \in Seq(S)
         /\ \A x \in S : Append(q, x) \in Seq(S)
  OBVIOUS

LEMMA NumbersKnown ==
  ASSUME Con!ConsoleAssumption, NEW n \in Nat
  PROVE  Con!Seq16(n) \in Nat /\ (n < SeqSpan => Con!Seq16(n) = n)
  BY DEF Con!ConsoleAssumption, Con!Seq16

\* An ACK of the ping's number that was filed while numbers are fresh means that
\* the ping was taken.
LEMMA PongDeserved ==
  ASSUME Con!ConsoleAssumption, ConInv, repl # "idle", Con!PingSeq \in conAcks,
         sends <= SeqSpan
  PROVE  "ping" \in Con!Of(pinged)
<1>1. PICK g \in reached : Con!Seq16(g.id - 1) = Con!Seq16(pinged - 1)
  BY DEF ConInv, Taken, Con!PingSeq
<1>2. g.id \in 1 .. sends /\ pinged \in 1 .. sends /\ sends \in Nat /\ SeqSpan \in Nat
      /\ (g.id = pinged => g.kind = "ping")
  BY DEF ConInv, ConTyped, IsOf, Con!ConsoleAssumption
<1>3. \A k \in 1 .. sends : k - 1 \in Nat /\ k - 1 < SeqSpan
  BY <1>2
<1>4. Con!Seq16(g.id - 1) = g.id - 1 /\ Con!Seq16(pinged - 1) = pinged - 1
  BY <1>2, <1>3, NumbersKnown
<1>5. g.id = pinged
  BY <1>1, <1>2, <1>4
<1>6. QED BY <1>2, <1>5 DEF Con!Of

\* Sending a frame moves the counter on and keeps what is on its way right.
LEMMA SendsRightly ==
  ASSUME Con!ConsoleAssumption, ConInv, NEW kind \in Kinds, NEW of \in Nat,
         Con!SendFrame(kind, of),
         UNCHANGED <<repl, pinged>> \/ (kind = "ping" /\ pinged' = sends')
  PROVE  /\ sends' \in Nat /\ sends' = sends + 1 /\ conUp' \in Seq(Asked')
         /\ \A g \in reached : IsOf(g.kind, g.id)'
<1>1. sends \in Nat /\ sends' = sends + 1 /\ pinged \in 0 .. sends
  BY DEF Con!SendFrame, ConInv, ConTyped
<1>2. \A k, id : IsOf(k, id) => IsOf(k, id)'
  BY <1>1 DEF IsOf
<1>3. Asked \subseteq Asked'
  BY <1>2 DEF Asked
<1>4. conUp \in Seq(Asked')
  BY <1>3, SeqGrows DEF ConInv, ConTyped
<1>5. PICK id, f :
        id = sends' /\ f = [kind |-> kind, id |-> id, seq |-> Con!Seq16(sends), of |-> of]
  OBVIOUS
<1>6. f \in Asked'
  <2>1. id \in Nat /\ id - 1 = sends /\ IsOf(kind, id)'
    BY <1>1, <1>5 DEF IsOf
  <2>2. Con!Seq16(sends) \in Nat
    BY <1>1, NumbersKnown
  <2>3. f \in [kind : Kinds, id : Nat, seq : Nat, of : Nat]
    BY <1>5, <2>1, <2>2
  <2>4. f.kind = kind /\ f.id = id /\ f.seq = Con!Seq16(id - 1)
    BY <1>5, <2>1
  <2>5. QED BY <2>1, <2>3, <2>4 DEF Asked
<1>7. conUp' = Append(conUp, f)
  BY <1>5 DEF Con!SendFrame
<1>8. QED BY <1>1, <1>2, <1>4, <1>6, <1>7, SeqParts DEF ConInv

\* What is taken stays taken, so that what is on its way down stays right.
LEMMA AnswersGrow ==
  ASSUME reached \subseteq reached', down \in Seq(Answers)
  PROVE  down \in Seq(Answers') /\ \A n : Taken(n) => Taken(n)'
<1>1. \A n : Taken(n) => Taken(n)'
  BY DEF Taken
<1>2. Answers \subseteq Answers'
  BY <1>1 DEF Answers
<1>3. QED BY <1>1, <1>2, SeqGrows

LEMMA ConInvInit == Con!Init => ConInv
<1> SUFFICES ASSUME Con!Init PROVE ConInv
  OBVIOUS
<1>1. <<>> \in Seq(Nat) /\ <<>> \in Seq(Asked) /\ <<>> \in Seq(Answers)
  OBVIOUS
<1>2. conOwed \in Seq(Nat) /\ conUp \in Seq(Asked) /\ down \in Seq(Answers)
  BY <1>1, Zenon DEF Con!Init
<1>3. /\ repl = "idle" /\ sends \in Nat /\ pinged \in 0 .. sends /\ conWake \in BOOLEAN
      /\ unacked = {}
  <2>1. repl = "idle" /\ conWake \in BOOLEAN /\ unacked = {}
    BY Zenon DEF Con!Init
  <2>2. sends = 0 /\ pinged = 0
    BY DEF Con!Init
  <2>3. sends \in Nat /\ pinged \in 0 .. sends
    BY <2>2
  <2>4. QED BY <2>1, <2>3
<1>4. ConTyped
  BY <1>2, <1>3 DEF ConTyped
<1>5. QED BY <1>4 DEF Con!Init, ConInv, Con!PongMeansReached

\* Steps at the ground that send a frame.
LEMMA ConSends ==
  ASSUME Con!ConsoleAssumption, ConInv, Con!RequestStatus \/ Con!Ping \/ Con!SendAck
  PROVE  ConInv'
<1>1. PICK kind \in Kinds, of \in Nat :
        /\ Con!SendFrame(kind, of)
        /\ UNCHANGED <<repl, pinged>> \/ (kind = "ping" /\ pinged' = sends')
  <2>1. CASE Con!RequestStatus
    BY <2>1 DEF Con!RequestStatus, Kinds
  <2>2. CASE Con!Ping
    BY <2>2 DEF Con!Ping, Kinds
  <2>3. CASE Con!SendAck
    BY <2>3, SeqParts DEF Con!SendAck, Kinds, ConInv, ConTyped
  <2>4. QED BY <2>1, <2>2, <2>3
<1>2. /\ sends' \in Nat /\ sends' = sends + 1 /\ conUp' \in Seq(Asked')
      /\ \A g \in reached : IsOf(g.kind, g.id)'
  BY <1>1, SendsRightly
<1>3. UNCHANGED <<reached, down, conAcks, conWake, pongs, unacked>>
  BY DEF Con!RequestStatus, Con!Ping, Con!SendAck
<1>4. \/ UNCHANGED <<repl, pinged>>
      \/ repl' = "sending" /\ pinged' = sends'
  BY DEF Con!RequestStatus, Con!Ping, Con!SendAck
<1>5. conOwed' \in Seq(Nat)
  BY SeqParts DEF Con!RequestStatus, Con!Ping, Con!SendAck, ConInv, ConTyped
<1>6. down' \in Seq(Answers') /\ \A n : Taken(n) => Taken(n)'
  BY <1>3, AnswersGrow DEF ConInv, ConTyped
<1>7. ConTyped'
  BY <1>2, <1>3, <1>4, <1>5, <1>6 DEF ConInv, ConTyped
<1>8. (repl = "waiting" /\ conWake => Con!PingSeq \in conAcks)'
  BY <1>3, <1>4 DEF ConInv, Con!PingSeq
<1>9. Con!PongMeansReached'
  <2>1. sends' <= SeqSpan => sends <= SeqSpan
    BY <1>2 DEF ConInv, ConTyped, Con!ConsoleAssumption
  <2>2. QED BY <1>3, <2>1 DEF ConInv, Con!PongMeansReached, Con!Of
<1>10. QED BY <1>2, <1>3, <1>6, <1>7, <1>8, <1>9 DEF ConInv

\* Steps of the ping's wait, which ends with a pong or without one.
LEMMA ConWaits ==
  ASSUME Con!ConsoleAssumption, ConInv, Con!Sent \/ Con!Acked \/ Con!TimesOut
  PROVE  ConInv'
<1>1. UNCHANGED <<pinged, sends, conAcks, conOwed, conUp, down, reached, unacked>>
  BY DEF Con!Sent, Con!Acked, Con!TimesOut
<1>2. /\ repl # "idle" /\ repl' \in {"idle", "waiting"} /\ conWake' \in BOOLEAN
      /\ repl' = "waiting" => ~conWake'
  BY DEF Con!Sent, Con!Acked, Con!TimesOut, Con!Told, ConInv, ConTyped
<1>3. \A k, id : IsOf(k, id) => IsOf(k, id)'
  BY <1>1, <1>2 DEF IsOf
<1>4. conUp' \in Seq(Asked')
  <2>1. Asked \subseteq Asked'
    BY <1>3 DEF Asked
  <2>2. QED BY <1>1, <2>1, SeqGrows DEF ConInv, ConTyped
<1>5. down' \in Seq(Answers') /\ \A n : Taken(n) => Taken(n)'
  BY <1>1, AnswersGrow DEF ConInv, ConTyped
<1>6. ConTyped'
  BY <1>1, <1>2, <1>4, <1>5 DEF ConInv, ConTyped
<1>7. Con!PongMeansReached'
  <2>1. pongs' = pongs \/ (pongs' = pongs \cup {pinged} /\ Con!PingSeq \in conAcks)
    BY DEF Con!Sent, Con!Acked, Con!TimesOut, Con!Told, ConInv
  <2>2. QED BY <1>1, <1>2, <2>1, PongDeserved DEF ConInv, Con!PongMeansReached, Con!Of
<1>8. QED BY <1>1, <1>2, <1>3, <1>5, <1>6, <1>7 DEF ConInv

LEMMA ConNotified ==
  ASSUME Con!ConsoleAssumption, ConInv, Con!Notify
  PROVE  ConInv'
<1>1. UNCHANGED <<repl, pinged, sends, conUp, reached, pongs, unacked>>
  BY DEF Con!Notify
<1>2. PICK f : f = Head(down)
  OBVIOUS
<1>3. f \in Answers /\ down' \in Seq(Answers) /\ down # <<>>
  BY <1>2, SeqParts DEF Con!Notify, ConInv, ConTyped
<1>4. Con!Handle(f)
  BY <1>2 DEF Con!Notify
<1>5. Asked' = Asked /\ Answers' = Answers /\ \A n : Taken(n)' <=> Taken(n)
  BY <1>1 DEF Asked, IsOf, Answers, Taken
<1>6. CASE f.kind = "ack"
  <2>1. /\ conAcks' = conAcks \cup {f.of} /\ conOwed' = conOwed
        /\ conWake' = (conWake \/ (repl = "waiting" /\ f.of = Con!PingSeq))
    BY <1>4, <1>6 DEF Con!Handle
  <2>2. conWake' \in BOOLEAN
    BY <2>1
  <2>3. repl = "waiting" /\ conWake' => Con!PingSeq \in conAcks'
    BY <2>1 DEF ConInv
  <2>4. \A n \in conAcks' : Taken(n)
    BY <1>3, <1>6, <2>1 DEF ConInv, Answers
  <2>5. ConTyped'
    BY <1>1, <1>3, <1>5, <2>1, <2>2 DEF ConInv, ConTyped
  <2>6. QED BY <1>1, <1>5, <2>3, <2>4, <2>5
            DEF ConInv, IsOf, Con!PingSeq, Con!PongMeansReached, Con!Of
<1>7. CASE f.kind = "report"
  <2>1. UNCHANGED <<conAcks, conWake>> /\ conOwed' = Append(conOwed, f.of)
    BY <1>4, <1>7 DEF Con!Handle
  <2>2. f.of \in Nat
    BY <1>3 DEF Answers
  <2>3. conOwed' \in Seq(Nat)
    BY <2>1, <2>2, SeqParts DEF ConInv, ConTyped
  <2>4. ConTyped'
    BY <1>1, <1>3, <1>5, <2>1, <2>3 DEF ConInv, ConTyped
  <2>5. QED BY <1>1, <1>5, <2>1, <2>4
            DEF ConInv, IsOf, Con!PingSeq, Con!PongMeansReached, Con!Of
<1>8. QED BY <1>4, <1>6, <1>7 DEF Con!Handle

\* The Controller acknowledges nothing that it has not taken.
LEMMA ConTaken ==
  ASSUME Con!ConsoleAssumption, ConInv, Con!Take
  PROVE  ConInv'
<1>1. UNCHANGED <<repl, pinged, sends, conAcks, conWake, conOwed, pongs>>
  BY DEF Con!Take
<1>2. PICK f : f = Head(conUp)
  OBVIOUS
<1>3. f \in Asked /\ conUp' \in Seq(Asked)
  BY <1>2, SeqParts DEF Con!Take, ConInv, ConTyped
<1>4. PICK g : g = [kind |-> f.kind, id |-> f.id]
  OBVIOUS
<1>5. /\ reached' = reached \cup {g}
      /\ \/ down' = down
         \/ down' = Append(down, Con!Ack(f))
         \/ down' = down \o <<Con!Ack(f), Con!Report(f.id)>>
  BY <1>2, <1>4 DEF Con!Take, Con!Answer
<1>6. Asked' = Asked
  BY <1>1 DEF Asked, IsOf
<1>7. down \in Seq(Answers') /\ \A n : Taken(n) => Taken(n)'
  BY <1>5, AnswersGrow DEF ConInv, ConTyped
<1>8. down' \in Seq(Answers')
  <2>1. Con!Ack(f) \in Answers' /\ Con!Report(f.id) \in Answers'
    <3>1. f.seq \in Nat /\ f.id \in Nat /\ f.seq = Con!Seq16(f.id - 1)
      BY <1>3 DEF Asked
    <3>2. Taken(f.seq)'
      BY <1>4, <1>5, <3>1 DEF Taken
    <3>3. QED BY <3>1, <3>2 DEF Answers, Con!Ack, Con!Report
  <2>2. PICK a, r : a = Con!Ack(f) /\ r = Con!Report(f.id)
    OBVIOUS
  <2>3. PICK T : T = Answers'
    OBVIOUS
  <2>4. down \in Seq(T) /\ a \in T /\ r \in T
    BY <1>7, <2>1, <2>2, <2>3
  <2>5. Append(down, a) \in Seq(T) /\ down \o <<a, r>> \in Seq(T)
    BY <2>4
  <2>6. QED BY <1>5, <1>7, <2>2, <2>3, <2>5
<1>9. g \in [kind : Kinds, id : Nat] /\ IsOf(g.kind, g.id)
  BY <1>3, <1>4 DEF Asked
<1>10. ConTyped'
  <2>1. \A r \in unacked' : r.id \in Nat
    <3>1. f.id \in Nat
      BY <1>3 DEF Asked
    <3>2. unacked' \subseteq unacked \cup {[id |-> f.id, tries |-> 0]}
      BY <1>2 DEF Con!Take, Con!Answer
    <3>3. QED BY <3>1, <3>2 DEF ConInv, ConTyped
  <2>2. QED BY <1>1, <1>3, <1>6, <1>8, <2>1 DEF ConInv, ConTyped
<1>11. Con!PongMeansReached'
  BY <1>1, <1>5 DEF ConInv, Con!PongMeansReached, Con!Of
<1>12. QED BY <1>1, <1>5, <1>7, <1>9, <1>10, <1>11 DEF ConInv, IsOf, Con!PingSeq

\* Reports are sent again and frames are lost.
LEMMA ConRepeats ==
  ASSUME Con!ConsoleAssumption, ConInv, Con!Retries \/ Con!Lose
  PROVE  ConInv'
<1>1. UNCHANGED <<repl, pinged, sends, conAcks, conWake, conOwed, reached, pongs>>
  BY DEF Con!Retries, Con!Retry, Con!Lose
<1>2. Asked' = Asked /\ Answers' = Answers /\ \A n : Taken(n)' <=> Taken(n)
  BY <1>1 DEF Asked, IsOf, Answers, Taken
<1>3. conUp' \in Seq(Asked)
  BY SeqParts DEF Con!Retries, Con!Retry, Con!Lose, ConInv, ConTyped
<1>4. down' \in Seq(Answers)
  <2>1. CASE Con!Lose
    BY <2>1, SeqParts DEF Con!Lose, ConInv, ConTyped
  <2>2. ASSUME NEW r \in unacked, Con!Retry(r) PROVE down' \in Seq(Answers)
    <3>1. PICK a : a = Con!Report(r.id)
      OBVIOUS
    <3>2. a \in Answers
      BY <3>1 DEF ConInv, ConTyped, Answers, Con!Report
    <3>3. down' = down \/ down' = Append(down, a)
      BY <2>2, <3>1 DEF Con!Retry
    <3>4. QED BY <3>2, <3>3, SeqParts DEF ConInv, ConTyped
  <2>3. QED BY <2>1, <2>2 DEF Con!Retries
<1>5. \A r \in unacked' : r.id \in Nat
  <2>1. ASSUME NEW r \in unacked, Con!Retry(r) PROVE \A x \in unacked' : x.id \in Nat
    <3>1. PICK x : x = [r EXCEPT !.tries = @ + 1]
      OBVIOUS
    <3>2. r.id \in Nat
      BY DEF ConInv, ConTyped
    <3>3. x.id = r.id
      BY <3>1
    <3>4. unacked' \subseteq unacked \cup {x}
      BY <2>1, <3>1 DEF Con!Retry
    <3>5. QED BY <3>2, <3>3, <3>4 DEF ConInv, ConTyped
  <2>2. QED BY <2>1 DEF Con!Retries, Con!Lose, ConInv, ConTyped
<1>6. QED BY <1>1, <1>2, <1>3, <1>4, <1>5
          DEF ConInv, ConTyped, IsOf, Con!PingSeq, Con!PongMeansReached, Con!Of

\* A pong means that this ping was taken, whatever is lost, late or sent again, as
\* long as the numbers have not come round.
THEOREM PongCorrect ==
  ASSUME Con!ConsoleAssumption
  PROVE  Con!ConsoleSpec => []Con!PongMeansReached
<1>1. ConInv /\ [Con!Next]_(Con!consoleVars) => ConInv'
  <2>1. ConInv /\ UNCHANGED Con!consoleVars => ConInv'
    BY DEF Con!consoleVars, ConInv, ConTyped, IsOf, Asked, Answers, Taken, Con!PingSeq,
           Con!PongMeansReached, Con!Of
  <2>2. QED BY <2>1, ConSends, ConWaits, ConNotified, ConTaken, ConRepeats DEF Con!Next
<1>2. ConInv => Con!PongMeansReached
  BY DEF ConInv
<1>3. QED BY <1>1, <1>2, ConInvInit, PTL DEF Con!ConsoleSpec


\* However the tasks of the ground station interleave, no wake-up is lost, no number
\* is used twice, and a pong is of a ping that was taken.
THEOREM TasksCorrect ==
  ASSUME Con!ConsoleAssumption
  PROVE  Smoke!GroundSpec /\ Con!ConsoleSpec => []GroundTasksAgree
<1>1. /\ Smoke!NoLostWakeup /\ Smoke!SeqsDistinct
      /\ Con!PongMeansReached
      => GroundTasksAgree
  BY DEF GroundTasksAgree
<1>2. QED BY <1>1, GroundCorrect, PongCorrect, PTL


-----------------------------------------------------------------------------
(* The fake nodes.                                                         *)

\* Each slot waits for a command of its own that has no verdict yet.
Slot == [cmd : Nat, seq : Nat, age : Nat]
Judging ==
  /\ active \in Ports /\ nextSeq \in [Ports -> Nat] /\ typed \in 0 .. MaxCommands
  /\ pending \in [Ports -> Slot] /\ \A p \in Ports : pending[p].cmd <= typed
  /\ verdict \in [Fake!Commands -> {"none", "ACK", "NO-ACK"}]
  /\ \A c \in Fake!Commands : c > typed => verdict[c] = "none"
  /\ \A p \in Fake!Waiting : verdict[pending[p].cmd] = "none"
  /\ \A p, q \in Fake!Waiting : p # q => pending[p].cmd # pending[q].cmd

\* A slot is closed.
LEMMA SlotCloses ==
  ASSUME Fake!FakeNodeAssumption, Judging, NEW p \in Ports, NEW v \in {"ACK", "NO-ACK"},
         pending[p].cmd # 0,
         Fake!Closes(p, v)
  PROVE  /\ pending' \in [Ports -> Slot] /\ pending'[p].cmd = 0
         /\ pending'[p].seq = pending[p].seq
         /\ \A q \in Ports : q # p => pending'[q] = pending[q]
         /\ pending[p].cmd \in Fake!Commands /\ verdict[pending[p].cmd] = "none"
         /\ verdict' = [verdict EXCEPT ![pending[p].cmd] = v]
<1>1. pending \in [Ports -> Slot] /\ pending[p] \in Slot
  BY DEF Judging
<1>2. PICK s : s = [pending[p] EXCEPT !.cmd = 0, !.age = 0]
  OBVIOUS
<1>3. s \in Slot /\ s.cmd = 0 /\ s.seq = pending[p].seq
  BY <1>1, <1>2 DEF Slot
<1>4. pending' = [pending EXCEPT ![p] = s]
  BY <1>1, <1>2 DEF Fake!Closes, Slot
<1>5. pending[p].cmd \in Nat /\ pending[p].cmd <= typed /\ typed \in 0 .. MaxCommands
  BY <1>1 DEF Slot, Judging
<1>6. pending[p].cmd \in Fake!Commands
  <2>1. MaxCommands \in Nat
    BY DEF Fake!FakeNodeAssumption
  <2>2. \A x, y, m \in Nat : x # 0 /\ x <= y /\ y \in 0 .. m => x \in 1 .. m
    OBVIOUS
  <2>3. QED BY <1>5, <2>1, <2>2 DEF Fake!Commands
<1>7. p \in Fake!Waiting
  BY DEF Fake!Waiting
<1>8. verdict[pending[p].cmd] = "none" /\ verdict' = [verdict EXCEPT ![pending[p].cmd] = v]
  BY <1>7 DEF Judging, Fake!Closes
<1>9. pending' \in [Ports -> Slot] /\ pending'[p] = s
      /\ \A q \in Ports : q # p => pending'[q] = pending[q]
  BY <1>1, <1>3, <1>4
<1>10. QED BY <1>3, <1>6, <1>8, <1>9

\* Closing a slot gives one command its verdict, and its first.
LEMMA ClosesOnce ==
  ASSUME Fake!FakeNodeAssumption, Judging, NEW p \in Ports, NEW v \in {"ACK", "NO-ACK"},
         pending[p].cmd # 0,
         Fake!Closes(p, v), UNCHANGED <<active, nextSeq, typed>>
  PROVE  /\ Judging'
         /\ \A c \in Fake!Commands : verdict[c] # "none" => verdict'[c] = verdict[c]
<1>1. /\ pending' \in [Ports -> Slot] /\ pending'[p].cmd = 0
      /\ \A q \in Ports : q # p => pending'[q] = pending[q]
      /\ pending[p].cmd \in Fake!Commands /\ verdict[pending[p].cmd] = "none"
      /\ verdict' = [verdict EXCEPT ![pending[p].cmd] = v]
  BY SlotCloses
<1>2. PICK d : d = pending[p].cmd
  OBVIOUS
<1>3. d \in Nat /\ d <= typed /\ typed \in Nat
  BY <1>2 DEF Judging, Slot
<1>4. Fake!Waiting' = Fake!Waiting \ {p} /\ p \in Fake!Waiting
  BY <1>1 DEF Fake!Waiting
<1>5. verdict' \in [Fake!Commands -> {"none", "ACK", "NO-ACK"}]
  BY <1>1 DEF Judging
<1>6. \A c \in Fake!Commands : c # d => verdict'[c] = verdict[c]
  BY <1>1, <1>2 DEF Judging
<1>7. \A c \in Fake!Commands : c > typed => c # d
  BY <1>3
<1>8. \A q \in Fake!Waiting' : pending'[q] = pending[q] /\ pending[q].cmd # d
  BY <1>1, <1>2, <1>4 DEF Judging, Fake!Waiting
<1>9. \A q \in Ports : pending[q].cmd \in Nat /\ pending[q].cmd <= typed
  BY DEF Judging, Slot
<1>10. \A q \in Fake!Waiting' : pending[q].cmd \in Fake!Commands
  <2>1. \A q \in Fake!Waiting : pending[q].cmd # 0 /\ pending[q].cmd \in Nat
                               /\ pending[q].cmd <= typed
    BY <1>9 DEF Fake!Waiting
  <2>2. typed \in 0 .. MaxCommands /\ MaxCommands \in Nat
    BY DEF Judging, Fake!FakeNodeAssumption
  <2>3. \A x, y, m \in Nat : x # 0 /\ x <= y /\ y \in 0 .. m => x \in 1 .. m
    OBVIOUS
  <2>4. QED BY <1>3, <1>4, <2>1, <2>2, <2>3 DEF Fake!Commands
<1>11. \A q \in Fake!Waiting' : verdict'[pending'[q].cmd] = "none"
  BY <1>4, <1>6, <1>8, <1>10 DEF Judging
<1>12. \A c \in Fake!Commands : c > typed => verdict'[c] = "none"
  BY <1>6, <1>7 DEF Judging
<1>13. \A q \in Ports : pending'[q].cmd <= typed
  <2>1. 0 <= typed
    BY <1>3
  <2>2. QED BY <1>1, <1>9, <2>1
<1>14. \A q, r \in Fake!Waiting' : q # r => pending'[q].cmd # pending'[r].cmd
  BY <1>4, <1>8 DEF Judging
<1>15. Judging'
  BY <1>1, <1>5, <1>11, <1>12, <1>13, <1>14 DEF Judging, Fake!Commands
<1>16. QED BY <1>1, <1>2, <1>6, <1>15

\* A command is typed: it takes the slot of its port, whatever was there.
LEMMA CommandTyped ==
  ASSUME Fake!FakeNodeAssumption, Judging, Fake!Type
  PROVE  /\ Judging' /\ typed' = typed + 1 /\ typed' \in Fake!Commands
         /\ nextSeq' = [nextSeq EXCEPT ![active] = nextSeq[active] + 1]
         /\ pending'[active].cmd = typed' /\ pending'[active].seq = nextSeq[active]
         /\ \A q \in Ports : q # active => pending'[q] = pending[q]
<1>1. /\ typed \in Nat /\ typed' = typed + 1 /\ typed' \in 1 .. MaxCommands
      /\ typed < typed'
  BY DEF Fake!Type, Judging, Fake!FakeNodeAssumption
<1>2. nextSeq \in [Ports -> Nat] /\ active \in Ports /\ nextSeq[active] \in Nat
  BY DEF Judging
<1>3. nextSeq' = [nextSeq EXCEPT ![active] = nextSeq[active] + 1]
  BY DEF Fake!Type, Fake!Emit
<1>4. nextSeq' \in [Ports -> Nat]
  BY <1>2, <1>3
<1>5. PICK s : s = [cmd |-> typed', seq |-> nextSeq[active], age |-> 0]
  OBVIOUS
<1>6. s \in Slot /\ s.cmd = typed' /\ s.seq = nextSeq[active]
  BY <1>1, <1>2, <1>5 DEF Slot
<1>7. pending' = [pending EXCEPT ![active] = s] /\ pending \in [Ports -> Slot]
  BY <1>5 DEF Fake!Type, Judging
<1>8. pending' \in [Ports -> Slot] /\ pending'[active] = s
      /\ \A q \in Ports : q # active => pending'[q] = pending[q]
  BY <1>2, <1>6, <1>7
<1>9. \A q \in Ports : pending[q].cmd \in Nat /\ pending[q].cmd <= typed
  BY <1>7 DEF Judging, Slot
<1>10. \A q \in Ports : q # active => pending'[q].cmd < typed'
  BY <1>1, <1>8, <1>9
<1>11. \A q \in Fake!Waiting' : q # active => q \in Fake!Waiting
  BY <1>8 DEF Fake!Waiting
<1>12. \A q \in Ports : pending'[q].cmd <= typed'
  <2>1. \A q \in Ports : q # active => pending'[q].cmd \in Nat
    BY <1>8, <1>9
  <2>2. QED BY <1>1, <1>6, <1>8, <1>10, <2>1
<1>13. verdict' = verdict
  BY DEF Fake!Type
<1>14. \A c \in Fake!Commands : c > typed' => verdict[c] = "none"
  <2>1. \A c \in Fake!Commands : c > typed' => c > typed
    BY <1>1 DEF Fake!Commands
  <2>2. QED BY <2>1 DEF Judging
<1>15. verdict[typed'] = "none"
  BY <1>1 DEF Judging, Fake!Commands
<1>16. \A q \in Fake!Waiting' : verdict'[pending'[q].cmd] = "none"
  BY <1>6, <1>8, <1>11, <1>13, <1>15 DEF Judging, Fake!Waiting
<1>17. \A q, r \in Fake!Waiting' : q # r => pending'[q].cmd # pending'[r].cmd
  <2> SUFFICES ASSUME NEW q \in Fake!Waiting', NEW r \in Fake!Waiting', q # r
               PROVE  pending'[q].cmd # pending'[r].cmd
    OBVIOUS
  <2>1. q \in Ports /\ r \in Ports
    BY DEF Fake!Waiting
  <2>2. \A x \in Nat : x < typed' => x # typed'
    BY <1>1
  <2>3. CASE q = active
    BY <1>6, <1>8, <1>9, <1>10, <2>1, <2>2, <2>3
  <2>4. CASE r = active
    BY <1>6, <1>8, <1>9, <1>10, <2>1, <2>2, <2>4
  <2>5. CASE q # active /\ r # active
    BY <1>8, <1>11, <2>1, <2>5 DEF Judging
  <2>6. QED BY <2>3, <2>4, <2>5
<1>18. active' = active
  BY DEF Fake!Type, Fake!idVars
<1>19. typed' \in 0 .. MaxCommands
  BY <1>1
<1>20. Judging'
  BY <1>2, <1>4, <1>8, <1>12, <1>13, <1>14, <1>16, <1>17, <1>18, <1>19
  DEF Judging, Fake!Commands
<1>21. QED BY <1>1, <1>3, <1>6, <1>8, <1>20 DEF Fake!Commands


\* Steps that leave the slots as they are, but for their ages.
LEMMA SlotsAged ==
  ASSUME Judging, UNCHANGED <<typed, verdict>>, active' \in Ports,
         nextSeq' \in [Ports -> Nat],
         pending' = pending \/ Fake!Tick
  PROVE  /\ Judging' /\ Fake!Waiting' = Fake!Waiting
         /\ \A p \in Ports : pending'[p].cmd = pending[p].cmd
                             /\ pending'[p].seq = pending[p].seq
<1>1. /\ pending' \in [Ports -> Slot]
      /\ \A p \in Ports : pending'[p].cmd = pending[p].cmd /\ pending'[p].seq = pending[p].seq
  <2>1. CASE pending' = pending
    BY <2>1 DEF Judging
  <2>2. CASE Fake!Tick
    <3>1. \A s \in Slot : /\ [s EXCEPT !.age = @ + 1] \in Slot
                          /\ [s EXCEPT !.age = @ + 1].cmd = s.cmd
                          /\ [s EXCEPT !.age = @ + 1].seq = s.seq
      BY DEF Slot
    <3>2. \A p \in Ports : pending[p] \in Slot
      BY DEF Judging
    <3>3. \A p \in Ports : /\ Fake!Older(p) \in Slot
                           /\ Fake!Older(p).cmd = pending[p].cmd
                           /\ Fake!Older(p).seq = pending[p].seq
      BY <3>1, <3>2 DEF Fake!Older
    <3>4. pending' = [p \in Ports |-> Fake!Older(p)]
      BY <2>2 DEF Fake!Tick
    <3>5. QED BY <3>3, <3>4
  <2>3. QED BY <2>1, <2>2
<1>2. Fake!Waiting' = Fake!Waiting
  BY <1>1 DEF Fake!Waiting
<1>3. \A p \in Fake!Waiting : p \in Ports
  BY DEF Fake!Waiting
<1>4. /\ \A p \in Ports : pending'[p].cmd <= typed
      /\ \A p \in Fake!Waiting : verdict[pending'[p].cmd] = "none"
      /\ \A p, q \in Fake!Waiting : p # q => pending'[p].cmd # pending'[q].cmd
  BY <1>1, <1>3 DEF Judging
<1>5. Judging'
  BY <1>1, <1>2, <1>4 DEF Judging, Fake!Commands
<1>6. QED BY <1>1, <1>2, <1>5

\* Numbers only grow, or begin again with a node.
LEMMA NumbersMove ==
  ASSUME Judging, NEW p \in Ports, NEW n \in {1, 2}, Fake!Emit(p, n)
  PROVE  /\ nextSeq' = [nextSeq EXCEPT ![p] = nextSeq[p] + n]
         /\ nextSeq' \in [Ports -> Nat] /\ nextSeq[p] \in Nat
         /\ nextSeq'[p] = nextSeq[p] + n
         /\ \A q \in Ports : nextSeq[q] \in Nat /\ nextSeq'[q] \in Nat
                             /\ nextSeq[q] <= nextSeq'[q]
<1>1. nextSeq \in [Ports -> Nat]
  BY DEF Judging
<1>2. nextSeq' = [nextSeq EXCEPT ![p] = nextSeq[p] + n]
  BY DEF Fake!Emit
<1>3. nextSeq[p] + n \in Nat /\ nextSeq[p] <= nextSeq[p] + n
  BY <1>1
<1>4. QED BY <1>1, <1>2, <1>3

\* The steps a judgement comes from, and all others.
LEMMA FakeSteps ==
  ASSUME Fake!FakeNodeAssumption, Judging, [Fake!Next]_(Fake!fakeVars)
  PROVE  /\ Judging'
         /\ \A c \in Fake!Commands : verdict[c] # "none" => verdict'[c] = verdict[c]
<1>1. active \in Ports /\ nextSeq \in [Ports -> Nat]
  BY DEF Judging
<1>2. CASE Fake!Type
  BY <1>2, CommandTyped DEF Fake!Type
<1>3. CASE Fake!Tick
  BY <1>1, <1>3, SlotsAged DEF Fake!Tick, Fake!idVars, Fake!sentVars
<1>4. ASSUME NEW a \in Nodes, Fake!SetNode(a) PROVE Judging' /\ verdict' = verdict
  <2>1. nextSeq' \in [Ports -> Nat]
    BY <1>1, <1>4 DEF Fake!SetNode
  <2>2. QED BY <1>1, <1>4, <2>1, SlotsAged DEF Fake!SetNode, Fake!ackVars
<1>5. ASSUME NEW s \in Sessions, Fake!SetSession(s) PROVE Judging' /\ verdict' = verdict
  BY <1>1, <1>5, SlotsAged DEF Fake!SetSession, Fake!ackVars, Fake!sentVars
<1>6. ASSUME NEW f \in flying, Fake!Arrive(f) \/ Fake!Lose(f)
      PROVE  Judging' /\ verdict' = verdict
  BY <1>1, <1>6, SlotsAged
  DEF Fake!Arrive, Fake!Lose, Fake!idVars, Fake!ackVars, Fake!sentVars
<1>7. ASSUME NEW p \in Ports, Fake!Beat(p) \/ Fake!Answer(p)
      PROVE  Judging' /\ verdict' = verdict
  <2>1. PICK n \in {1, 2} : Fake!Emit(p, n)
    BY <1>7 DEF Fake!Beat, Fake!Answer
  <2>2. QED BY <1>1, <1>7, <2>1, NumbersMove, SlotsAged
            DEF Fake!Beat, Fake!Answer, Fake!idVars, Fake!ackVars
<1>8. ASSUME NEW p \in Ports, Fake!SelectPort(p) PROVE Judging' /\ verdict' = verdict
  BY <1>1, <1>8, SlotsAged DEF Fake!SelectPort, Fake!ackVars, Fake!sentVars
<1>9. ASSUME NEW p \in Ports, Fake!Timeout(p)
      PROVE  /\ Judging'
             /\ \A c \in Fake!Commands : verdict[c] # "none" => verdict'[c] = verdict[c]
  BY <1>9, ClosesOnce DEF Fake!Timeout, Fake!idVars, Fake!sentVars
<1>10. ASSUME NEW p \in Ports, NEW n \in fakeAcks[p], Fake!TakeAck(p, n)
       PROVE  /\ Judging'
              /\ \A c \in Fake!Commands : verdict[c] # "none" => verdict'[c] = verdict[c]
  <2>1. UNCHANGED <<active, nextSeq, typed>>
    BY <1>10 DEF Fake!TakeAck, Fake!idVars, Fake!sentVars
  <2>2. CASE pending[p].cmd # 0 /\ Fake!Closes(p, "ACK")
    BY <2>1, <2>2, ClosesOnce
  <2>3. CASE UNCHANGED <<verdict, pending>>
    BY <1>1, <2>1, <2>3, SlotsAged
  <2>4. QED BY <1>10, <2>2, <2>3 DEF Fake!TakeAck
<1>11. ASSUME NEW p \in Ports, NEW n \in fakeAcks[p], Fake!LoseAck(p, n)
       PROVE  Judging' /\ verdict' = verdict
  BY <1>1, <1>11, SlotsAged DEF Fake!LoseAck, Fake!idVars, Fake!ackVars, Fake!sentVars
<1>12. CASE UNCHANGED Fake!fakeVars
  BY <1>1, <1>12, SlotsAged DEF Fake!fakeVars, Fake!idVars, Fake!ackVars, Fake!sentVars
<1>13. QED BY <1>2, <1>3, <1>4, <1>5, <1>6, <1>7, <1>8, <1>9, <1>10, <1>11, <1>12
           DEF Fake!Next, Fake!Tick

LEMMA JudgingInit == ASSUME Fake!FakeNodeAssumption, Fake!Init PROVE Judging
<1>1. PICK s : s = [cmd |-> 0, seq |-> 0, age |-> 0]
  OBVIOUS
<1>2. s \in Slot /\ s.cmd = 0
  BY <1>1 DEF Slot
<1>3. pending = [p \in Ports |-> s]
  BY <1>1 DEF Fake!Init
<1>4. pending \in [Ports -> Slot] /\ \A p \in Ports : pending[p].cmd = 0
  BY <1>2, <1>3
<1>5. typed = 0 /\ 0 \in 0 .. MaxCommands
  BY DEF Fake!Init, Fake!FakeNodeAssumption
<1>6. Fake!Waiting = {}
  BY <1>4 DEF Fake!Waiting
<1>7. QED BY <1>4, <1>5, <1>6 DEF Fake!Init, Judging

\* A command is judged once, however often its port is used, its node is renamed,
\* and its ACK is late.
THEOREM VerdictCorrect ==
  ASSUME Fake!FakeNodeAssumption
  PROVE  Fake!FakeSpec => Fake!VerdictStands
<1>1. Judging /\ [Fake!Next]_(Fake!fakeVars) => Judging'
  BY FakeSteps
<1>2. Judging /\ [Fake!Next]_(Fake!fakeVars)
        => \A c \in Fake!Commands : verdict[c] # "none" => verdict'[c] = verdict[c]
  BY FakeSteps
<1>3. QED BY <1>1, <1>2, JudgingInit, PTL DEF Fake!FakeSpec, Fake!VerdictStands


\* While no node and no session is switched, a frame is known by its port and number.
Key(p, n) == <<addr[p], session, n>>
Spent(k) == \E p \in Ports : \E n \in Nat : n < nextSeq[p] /\ k = Key(p, n)

\* What a command's number says of it: a frame that carries it is the command's own,
\* and if its node knows the number, the command was obeyed.
OwnNumber(p) ==
  /\ pending[p].seq < nextSeq[p]
  /\ \A f \in flying : f.key = Key(p, pending[p].seq) => f.cmd = pending[p].cmd
  /\ Key(p, pending[p].seq) \in known => pending[p].cmd \in obeyed

Unswitched ==
  /\ addr = Home /\ switches = 0
  /\ \A f \in flying :
       f.port \in Ports /\ \E n \in Nat : n < nextSeq[f.port] /\ f.key = Key(f.port, n)
  /\ \A k \in known : Spent(k)
  /\ \A k \in used : Spent(k)
  /\ fakeAcks \in [Ports -> SUBSET Nat]
  /\ \A p \in Ports : \A n \in fakeAcks[p] : Key(p, n) \in known
  /\ \A p \in Fake!Waiting : OwnNumber(p)
  /\ Fake!AckMeansObeyed
  /\ IsFiniteSet(used) /\ emitted \in Nat /\ Cardinality(used) = emitted

LEMMA KeysDiffer ==
  ASSUME Fake!FakeNodeAssumption, addr = Home, NEW p \in Ports, NEW q \in Ports,
         NEW m, NEW n, Key(p, m) = Key(q, n)
  PROVE  p = q /\ m = n
  BY DEF Fake!FakeNodeAssumption, Key

\* Every frame that is sent carries a key of its own, and those spent stay spent.
LEMMA FramesFresh ==
  ASSUME Fake!FakeNodeAssumption, Judging, Unswitched, NEW p \in Ports, NEW n \in {1, 2},
         Fake!Emit(p, n), UNCHANGED <<addr, session>>
  PROVE  /\ \A k : Spent(k) => Spent(k)'
         /\ ~Spent(Key(p, nextSeq[p])) /\ nextSeq[p] \in Nat /\ nextSeq[p] < nextSeq'[p]
         /\ \A k \in used' : Spent(k)'
         /\ IsFiniteSet(used') /\ emitted' \in Nat /\ Cardinality(used') = emitted'
<1>1. /\ nextSeq[p] \in Nat /\ nextSeq'[p] = nextSeq[p] + n
      /\ \A q \in Ports : nextSeq[q] \in Nat /\ nextSeq'[q] \in Nat
                          /\ nextSeq[q] <= nextSeq'[q]
  BY NumbersMove
<1>2. \A q, m : Key(q, m)' = Key(q, m)
  BY DEF Key
<1>3. \A k : Spent(k) => Spent(k)'
  <2>1. \A a, b, c \in Nat : a < b /\ b <= c => a < c
    OBVIOUS
  <2>2. QED BY <1>1, <1>2, <2>1 DEF Spent
<1>4. \A i \in Nat : ~Spent(Key(p, nextSeq[p] + i))
  <2> SUFFICES ASSUME NEW i \in Nat, NEW q \in Ports, NEW m \in Nat, m < nextSeq[q],
                      Key(p, nextSeq[p] + i) = Key(q, m)
               PROVE  FALSE
    BY DEF Spent
  <2>1. p = q /\ nextSeq[p] + i = m
    BY KeysDiffer DEF Unswitched
  <2>2. \A a, b \in Nat : ~(a + b < a)
    OBVIOUS
  <2>3. QED BY <1>1, <2>1, <2>2
<1>5. nextSeq[p] + 0 = nextSeq[p] /\ nextSeq[p] < nextSeq'[p]
      /\ nextSeq[p] + 1 \in Nat /\ nextSeq[p] # nextSeq[p] + 1
  BY <1>1
<1>6. PICK k0, k1 : k0 = Key(p, nextSeq[p]) /\ k1 = Key(p, nextSeq[p] + 1)
  OBVIOUS
<1>7. k0 \notin used /\ k1 \notin used \cup {k0}
  <2>1. ~Spent(k0) /\ ~Spent(k1)
    BY <1>4, <1>5, <1>6
  <2>2. k0 # k1
    BY <1>5, <1>6 DEF Key
  <2>3. QED BY <2>1, <2>2 DEF Unswitched
<1>8. Spent(k0)'
  BY <1>1, <1>2, <1>5, <1>6 DEF Spent
<1>9. IsFiniteSet(used) /\ emitted \in Nat /\ Cardinality(used) = emitted
  BY DEF Unswitched
<1>10. /\ IsFiniteSet(used \cup {k0}) /\ Cardinality(used \cup {k0}) = emitted + 1
  BY <1>7, <1>9, FS_AddElement
<1>11. ~Spent(k0)
  BY <1>4, <1>5, <1>6
<1>12. CASE n = 1
  <2>1. used' = used \cup {k0} /\ emitted' = emitted + 1
    <3>1. 0 .. n - 1 = {0}
      BY <1>12
    <3>2. used' = used \cup {<<addr[p], session, nextSeq[p] + i>> : i \in {0}}
      BY <3>1 DEF Fake!Emit
    <3>3. {<<addr[p], session, nextSeq[p] + i>> : i \in {0}} = {k0}
      BY <1>5, <1>6 DEF Key
    <3>4. QED BY <1>12, <3>2, <3>3 DEF Fake!Emit
  <2>2. IsFiniteSet(used') /\ Cardinality(used') = emitted' /\ emitted' \in Nat
    BY <1>9, <1>10, <2>1
  <2>3. \A k \in used' : Spent(k)'
    BY <1>3, <1>8, <2>1 DEF Unswitched
  <2>4. QED BY <1>1, <1>3, <1>5, <1>6, <1>11, <2>2, <2>3
<1>13. CASE n = 2
  <2>1. used' = used \cup {k0} \cup {k1} /\ emitted' = emitted + 2
    <3>1. 0 .. n - 1 = {0, 1}
      BY <1>13
    <3>2. used' = used \cup {<<addr[p], session, nextSeq[p] + i>> : i \in {0, 1}}
      BY <3>1 DEF Fake!Emit
    <3>3. {<<addr[p], session, nextSeq[p] + i>> : i \in {0, 1}} = {k0, k1}
      BY <1>5, <1>6 DEF Key
    <3>4. QED BY <1>13, <3>2, <3>3 DEF Fake!Emit
  <2>2. IsFiniteSet(used') /\ Cardinality(used') = emitted + 1 + 1
    BY <1>7, <1>10, <2>1, FS_AddElement
  <2>3. Cardinality(used') = emitted' /\ emitted' \in Nat
    BY <1>9, <2>1, <2>2
  <2>4. Spent(k1)'
    <3>1. nextSeq[p] + 1 < nextSeq'[p]
      BY <1>1, <1>13
    <3>2. QED BY <1>2, <1>5, <1>6, <3>1 DEF Spent
  <2>5. \A k \in used' : Spent(k)'
    BY <1>3, <1>8, <2>1, <2>4 DEF Unswitched
  <2>6. QED BY <1>1, <1>3, <1>5, <1>6, <1>11, <2>2, <2>3, <2>5
<1>14. QED BY <1>12, <1>13


LEMMA UnswitchedInit == ASSUME Fake!FakeNodeAssumption, Fake!Init PROVE Unswitched
<1>1. /\ addr = Home /\ switches = 0 /\ flying = {} /\ known = {} /\ used = {}
      /\ fakeAcks = [p \in Ports |-> {}] /\ emitted = 0
      /\ verdict = [c \in Fake!Commands |-> "none"]
      /\ pending = [p \in Ports |-> [cmd |-> 0, seq |-> 0, age |-> 0]]
  BY DEF Fake!Init
<1>2. Fake!Waiting = {}
  BY <1>1 DEF Fake!Waiting
<1>3. IsFiniteSet(used) /\ emitted \in Nat /\ Cardinality(used) = emitted
  BY <1>1, FS_EmptySet
<1>4. QED BY <1>1, <1>2, <1>3 DEF Unswitched, Fake!AckMeansObeyed

\* A command arrives, is lost, or its ACK is.
LEMMA FlightKeepsAcks ==
  ASSUME Fake!FakeNodeAssumption, Judging, Unswitched,
         \/ \E f \in flying : Fake!Arrive(f) \/ Fake!Lose(f)
         \/ \E p \in Ports : \E n \in fakeAcks[p] : Fake!LoseAck(p, n)
  PROVE  Unswitched'
<1>1. UNCHANGED <<addr, session, switches, nextSeq, pending, verdict, used, emitted>>
  BY DEF Fake!Arrive, Fake!Lose, Fake!LoseAck, Fake!idVars, Fake!ackVars, Fake!sentVars
<1>2. /\ Fake!Waiting' = Fake!Waiting /\ \A p, n : Key(p, n)' = Key(p, n)
      /\ \A k : Spent(k)' <=> Spent(k)
  BY <1>1 DEF Fake!Waiting, Key, Spent
<1>3. CASE \E f \in flying : Fake!Arrive(f)
  <2>1. PICK f \in flying : Fake!Arrive(f)
    BY <1>3
  <2>2. PICK n \in Nat : f.port \in Ports /\ n < nextSeq[f.port] /\ f.key = Key(f.port, n)
    BY DEF Unswitched
  <2>3. f.key[3] = n /\ Spent(f.key)
    BY <2>2 DEF Key, Spent
  <2>4. /\ flying' = flying \ {f} /\ known' = known \cup {f.key}
        /\ obeyed \subseteq obeyed' /\ (f.key \notin known => f.cmd \in obeyed')
        /\ fakeAcks' = [fakeAcks EXCEPT ![f.port] = fakeAcks[f.port] \cup {n}]
    BY <2>1, <2>3 DEF Fake!Arrive
  <2>5. /\ fakeAcks' \in [Ports -> SUBSET Nat]
        /\ \A p \in Ports : \A m \in fakeAcks'[p] : Key(p, m) \in known'
    BY <2>2, <2>4 DEF Unswitched
  <2>6. ASSUME NEW p \in Fake!Waiting PROVE OwnNumber(p)'
    <3>1. OwnNumber(p)
      BY DEF Unswitched
    <3>2. ASSUME Key(p, pending[p].seq) = f.key PROVE pending[p].cmd \in obeyed'
      <4>1. pending[p].cmd = f.cmd
        BY <3>1, <3>2 DEF OwnNumber
      <4>2. QED BY <2>4, <3>1, <3>2, <4>1 DEF OwnNumber
    <3>3. QED BY <1>1, <1>2, <2>4, <3>1, <3>2 DEF OwnNumber
  <2>7. QED BY <1>1, <1>2, <2>3, <2>4, <2>5, <2>6 DEF Unswitched, Fake!AckMeansObeyed
<1>4. CASE \E f \in flying : Fake!Lose(f)
  BY <1>1, <1>2, <1>4 DEF Fake!Lose, Unswitched, OwnNumber, Fake!AckMeansObeyed
<1>5. CASE \E p \in Ports : \E n \in fakeAcks[p] : Fake!LoseAck(p, n)
  <2>1. PICK p \in Ports : \E n \in fakeAcks[p] : Fake!LoseAck(p, n)
    BY <1>5
  <2>2. PICK n \in fakeAcks[p] : Fake!LoseAck(p, n)
    BY <2>1
  <2>3. fakeAcks' = [fakeAcks EXCEPT ![p] = fakeAcks[p] \ {n}]
        /\ UNCHANGED <<flying, known, obeyed>>
    BY <2>2 DEF Fake!LoseAck
  <2>4. /\ fakeAcks' \in [Ports -> SUBSET Nat]
        /\ \A q \in Ports : \A m \in fakeAcks'[q] : Key(q, m) \in known
    BY <2>3 DEF Unswitched
  <2>5. QED BY <1>1, <1>2, <2>3, <2>4 DEF Unswitched, OwnNumber, Fake!AckMeansObeyed
<1>6. QED BY <1>3, <1>4, <1>5

\* Frames are sent that no ACK is waited for, or a command is typed.
LEMMA SendingKeepsAcks ==
  ASSUME Fake!FakeNodeAssumption, Judging, Unswitched,
         Fake!Type \/ \E p \in Ports : Fake!Beat(p) \/ Fake!Answer(p)
  PROVE  Unswitched'
<1>1. active \in Ports
  BY DEF Judging
<1>2. PICK p \in Ports, n \in {1, 2} : Fake!Emit(p, n) /\ (Fake!Type => p = active)
  BY <1>1 DEF Fake!Type, Fake!Beat, Fake!Answer
<1>3. UNCHANGED <<addr, session, switches, verdict, fakeAcks, known, obeyed>>
  BY DEF Fake!Type, Fake!Beat, Fake!Answer, Fake!idVars, Fake!ackVars, Fake!farVars
<1>4. /\ \A k : Spent(k) => Spent(k)'
      /\ ~Spent(Key(p, nextSeq[p])) /\ nextSeq[p] \in Nat /\ nextSeq[p] < nextSeq'[p]
      /\ \A k \in used' : Spent(k)'
      /\ IsFiniteSet(used') /\ emitted' \in Nat /\ Cardinality(used') = emitted'
  BY <1>2, <1>3, FramesFresh
<1>5. \A q, m : Key(q, m)' = Key(q, m)
  BY <1>3 DEF Key
<1>6. \A q \in Ports : \A m \in Nat : m < nextSeq[q] => m < nextSeq'[q]
  <2>1. \A q \in Ports : nextSeq[q] \in Nat /\ nextSeq'[q] \in Nat
                         /\ nextSeq[q] <= nextSeq'[q]
    BY <1>2, NumbersMove
  <2>2. QED BY <2>1
<1>7. \A q \in Ports : pending[q].seq \in Nat
  BY DEF Judging, Slot
<1>8. \A f \in flying : f.port \in Ports /\ \E m \in Nat : m < nextSeq'[f.port]
                                                        /\ f.key = Key(f.port, m)
  BY <1>6 DEF Unswitched
<1>9. \A f \in flying : Spent(f.key)
  BY DEF Unswitched, Spent
<1>10. CASE Fake!Type
  <2>1. /\ nextSeq' = [nextSeq EXCEPT ![active] = nextSeq[active] + 1]
        /\ pending'[active].cmd = typed' /\ pending'[active].seq = nextSeq[active]
        /\ \A q \in Ports : q # active => pending'[q] = pending[q]
    BY <1>10, CommandTyped
  <2>2. PICK g : g = [cmd |-> typed', port |-> active, key |-> Key(active, nextSeq[active])]
    OBVIOUS
  <2>3. /\ flying' = flying \cup {g} /\ g.cmd = typed' /\ g.port = active
        /\ g.key = Key(active, nextSeq[active])
    BY <1>10, <2>2 DEF Fake!Type, Key
  <2>4. p = active
    BY <1>2, <1>10
  <2>5. \A f \in flying' : f.port \in Ports /\ \E m \in Nat : m < nextSeq'[f.port]
                                                           /\ f.key = Key(f.port, m)
    BY <1>1, <1>4, <1>8, <2>3, <2>4
  <2>6. ASSUME NEW q \in Fake!Waiting' PROVE OwnNumber(q)'
    <3>0. q \in Ports
      BY DEF Fake!Waiting
    <3>1. CASE q = active
      <4>1. Key(q, pending'[q].seq) = g.key
        BY <2>1, <2>3, <3>1
      <4>2. \A f \in flying : f.key # g.key
        BY <1>4, <1>9, <2>3, <2>4
      <4>3. g.key \notin known
        BY <1>4, <2>3, <2>4 DEF Unswitched
      <4>4. QED BY <1>3, <1>4, <1>5, <2>1, <2>3, <2>4, <3>1, <4>1, <4>2, <4>3 DEF OwnNumber
    <3>2. CASE q # active
      <4>1. pending'[q] = pending[q] /\ q \in Fake!Waiting
        BY <2>1, <3>0, <3>2 DEF Fake!Waiting
      <4>2. OwnNumber(q)
        BY <4>1 DEF Unswitched
      <4>3. g.key # Key(q, pending[q].seq)
        BY <1>1, <2>3, <3>0, <3>2, KeysDiffer DEF Unswitched
      <4>4. pending[q].seq < nextSeq'[q]
        BY <1>6, <1>7, <3>0, <4>2 DEF OwnNumber
      <4>5. QED BY <1>3, <1>5, <2>3, <4>1, <4>2, <4>3, <4>4 DEF OwnNumber
    <3>3. QED BY <3>1, <3>2
  <2>7. QED BY <1>3, <1>4, <1>5, <2>5, <2>6 DEF Unswitched, Fake!AckMeansObeyed
<1>11. CASE ~Fake!Type
  <2>1. UNCHANGED <<pending, flying>>
    BY <1>11 DEF Fake!Beat, Fake!Answer, Fake!ackVars, Fake!farVars
  <2>2. Fake!Waiting' = Fake!Waiting /\ \A q \in Fake!Waiting : q \in Ports
    BY <2>1 DEF Fake!Waiting
  <2>3. ASSUME NEW q \in Fake!Waiting PROVE OwnNumber(q)'
    <3>1. OwnNumber(q)
      BY DEF Unswitched
    <3>2. pending[q].seq < nextSeq'[q]
      BY <1>6, <1>7, <2>2, <3>1 DEF OwnNumber
    <3>3. QED BY <1>3, <1>5, <2>1, <3>1, <3>2 DEF OwnNumber
  <2>4. QED BY <1>3, <1>4, <1>5, <1>8, <2>1, <2>2, <2>3 DEF Unswitched, Fake!AckMeansObeyed
<1>12. QED BY <1>10, <1>11


\* An ACK or a timeout closes a slot: an ACK's number is known where it comes from,
\* so that the command that has the number was obeyed.
LEMMA ClosingKeepsAcks ==
  ASSUME Fake!FakeNodeAssumption, Judging, Unswitched,
         \/ \E p \in Ports : Fake!Timeout(p)
         \/ \E p \in Ports : \E n \in fakeAcks[p] : Fake!TakeAck(p, n)
  PROVE  Unswitched'
<1>1. UNCHANGED <<addr, session, switches, nextSeq, flying, known, obeyed, used, emitted>>
  BY DEF Fake!Timeout, Fake!TakeAck, Fake!idVars, Fake!farVars, Fake!sentVars
<1>2. /\ \A p, n : Key(p, n)' = Key(p, n)
      /\ \A k : Spent(k)' <=> Spent(k)
  BY <1>1 DEF Key, Spent
<1>3. ASSUME NEW p \in Ports, NEW v \in {"ACK", "NO-ACK"}, pending[p].cmd # 0,
             Fake!Closes(p, v), v = "ACK" => pending[p].cmd \in obeyed
      PROVE  Fake!AckMeansObeyed' /\ \A q \in Fake!Waiting' : OwnNumber(q)'
  <2>1. /\ pending'[p].cmd = 0
        /\ \A q \in Ports : q # p => pending'[q] = pending[q]
        /\ pending[p].cmd \in Fake!Commands
        /\ verdict' = [verdict EXCEPT ![pending[p].cmd] = v]
    BY <1>3, SlotCloses
  <2>2. \A q \in Fake!Waiting' : q \in Fake!Waiting /\ pending'[q] = pending[q]
    BY <2>1 DEF Fake!Waiting
  <2>3. \A c \in Fake!Commands : verdict'[c] = IF c = pending[p].cmd THEN v ELSE verdict[c]
    BY <2>1 DEF Judging
  <2>4. Fake!AckMeansObeyed'
    <3>1. DOMAIN verdict = Fake!Commands /\ DOMAIN verdict' = Fake!Commands
      BY <2>1 DEF Judging
    <3>2. QED BY <1>1, <1>3, <2>3, <3>1 DEF Unswitched, Fake!AckMeansObeyed
  <2>5. QED BY <1>1, <1>2, <2>2, <2>4 DEF Unswitched, OwnNumber
<1>4. CASE \E p \in Ports : Fake!Timeout(p)
  <2>1. PICK p \in Ports : Fake!Timeout(p)
    BY <1>4
  <2>2. Fake!AckMeansObeyed' /\ \A q \in Fake!Waiting' : OwnNumber(q)'
    BY <1>3, <2>1 DEF Fake!Timeout
  <2>3. fakeAcks' = fakeAcks
    BY <2>1 DEF Fake!Timeout, Fake!farVars
  <2>4. QED BY <1>1, <1>2, <2>2, <2>3 DEF Unswitched
<1>5. CASE \E p \in Ports : \E n \in fakeAcks[p] : Fake!TakeAck(p, n)
  <2>1. PICK p \in Ports : \E n \in fakeAcks[p] : Fake!TakeAck(p, n)
    BY <1>5
  <2>2. PICK n \in fakeAcks[p] : Fake!TakeAck(p, n)
    BY <2>1
  <2>3. fakeAcks' = [fakeAcks EXCEPT ![p] = fakeAcks[p] \ {n}]
    BY <2>2 DEF Fake!TakeAck
  <2>4. /\ fakeAcks' \in [Ports -> SUBSET Nat]
        /\ \A q \in Ports : \A m \in fakeAcks'[q] : Key(q, m) \in known
    BY <2>3 DEF Unswitched
  <2>5. Fake!AckMeansObeyed' /\ \A q \in Fake!Waiting' : OwnNumber(q)'
    <3>1. CASE pending[p].cmd # 0 /\ pending[p].seq = n /\ Fake!Closes(p, "ACK")
      <4>1. Key(p, n) \in known /\ OwnNumber(p)
        BY <3>1 DEF Unswitched, Fake!Waiting
      <4>2. pending[p].cmd \in obeyed
        BY <3>1, <4>1 DEF OwnNumber
      <4>3. QED BY <1>3, <3>1, <4>2
    <3>2. CASE UNCHANGED <<verdict, pending>>
      <4>1. Fake!Waiting' = Fake!Waiting
        BY <3>2 DEF Fake!Waiting
      <4>2. QED BY <1>1, <1>2, <3>2, <4>1 DEF Unswitched, OwnNumber, Fake!AckMeansObeyed
    <3>3. QED BY <2>2, <3>1, <3>2 DEF Fake!TakeAck
  <2>6. QED BY <1>1, <1>2, <2>4, <2>5 DEF Unswitched
<1>6. QED BY <1>4, <1>5

LEMMA UnswitchedKept ==
  ASSUME Fake!FakeNodeAssumption, Judging, Unswitched,
         [Fake!Next]_(Fake!fakeVars)
  PROVE  switches' = 0 => Unswitched'
<1>1. ASSUME UNCHANGED <<addr, session, switches, nextSeq, verdict, fakeAcks,
                         flying, known, obeyed, used, emitted>>,
             pending' = pending \/ Fake!Tick, active' \in Ports, UNCHANGED typed
      PROVE  Unswitched'
  <2>1. nextSeq' \in [Ports -> Nat]
    BY <1>1 DEF Judging
  <2>2. /\ Fake!Waiting' = Fake!Waiting
        /\ \A p \in Ports : pending'[p].cmd = pending[p].cmd
                            /\ pending'[p].seq = pending[p].seq
    BY <1>1, <2>1, SlotsAged
  <2>3. /\ \A p, n : Key(p, n)' = Key(p, n)
        /\ \A k : Spent(k)' <=> Spent(k)
    BY <1>1 DEF Key, Spent
  <2>4. \A p \in Fake!Waiting : OwnNumber(p)'
    BY <1>1, <2>2, <2>3 DEF Unswitched, OwnNumber, Fake!Waiting
  <2>5. QED BY <1>1, <2>2, <2>3, <2>4 DEF Unswitched, Fake!AckMeansObeyed
<1>2. active \in Ports
  BY DEF Judging
<1>3. CASE Fake!Tick
  BY <1>1, <1>2, <1>3 DEF Fake!Tick, Fake!idVars, Fake!farVars, Fake!sentVars
<1>4. CASE \E p \in Ports : Fake!SelectPort(p)
  BY <1>1, <1>4 DEF Fake!SelectPort, Fake!ackVars, Fake!farVars, Fake!sentVars
<1>5. CASE UNCHANGED Fake!fakeVars
  BY <1>1, <1>2, <1>5
  DEF Fake!fakeVars, Fake!idVars, Fake!ackVars, Fake!farVars, Fake!sentVars
<1>6. CASE \E a \in Nodes : Fake!SetNode(a)
  BY <1>6 DEF Fake!SetNode, Unswitched
<1>7. CASE \E s \in Sessions : Fake!SetSession(s)
  BY <1>7 DEF Fake!SetSession, Unswitched
<1>8. QED BY <1>3, <1>4, <1>5, <1>6, <1>7, FlightKeepsAcks, SendingKeepsAcks,
             ClosingKeepsAcks
          DEF Fake!Next

\* Switches are counted, so that none is made and forgotten.
LEMMA SwitchesCounted ==
  ASSUME switches \in Nat, [Fake!Next]_(Fake!fakeVars)
  PROVE  switches' \in Nat /\ (switches' = 0 => switches = 0)
<1>1. ASSUME NEW a \in Nodes, Fake!SetNode(a) PROVE switches' = switches + 1
  BY <1>1 DEF Fake!SetNode
<1>2. ASSUME NEW s \in Sessions, Fake!SetSession(s) PROVE switches' = switches + 1
  BY <1>2 DEF Fake!SetSession
<1>3. switches' = switches \/ switches' = switches + 1
  BY <1>1, <1>2
  DEF Fake!Next, Fake!fakeVars, Fake!idVars, Fake!Type, Fake!Tick, Fake!Arrive, Fake!Lose,
      Fake!Beat, Fake!Answer, Fake!SelectPort, Fake!Timeout, Fake!TakeAck, Fake!LoseAck
<1>4. QED BY <1>3

\* Until something is switched, "ACK" is printed for a command that was obeyed, on the
\* port it was typed for, and no two frames carry the same number.
THEOREM AckCorrect ==
  ASSUME Fake!FakeNodeAssumption
  PROVE  Fake!FakeSpec => []FakeVerdictsRight
<1> DEFINE Inv == Judging /\ switches \in Nat /\ (switches = 0 => Unswitched)
<1>1. Fake!Init => Inv
  BY JudgingInit, UnswitchedInit DEF Fake!Init
<1>2. Inv /\ [Fake!Next]_(Fake!fakeVars) => Inv'
  BY FakeSteps, SwitchesCounted, UnswitchedKept
<1>3. Inv => FakeVerdictsRight
  <2>1. \A S : Fake!Cardinality(S) = Cardinality(S)
    BY DEF Fake!Cardinality, Cardinality
  <2>2. QED BY <2>1 DEF Unswitched, Fake!NumbersFresh, FakeVerdictsRight
<1>4. QED BY <1>1, <1>2, <1>3, PTL DEF Fake!FakeSpec

-----------------------------------------------------------------------------
(* The script that fetches recordings.                                     *)

Lengths == size \in [Recordings -> Nat] /\ copy \in [Recordings -> Nat]

\* A finished recording is begun and closed, so that it cannot grow.
Closed == \A r \in finished : r \in Recordings /\ size[r] > 0 /\ r \notin writing

\* What waits to be removed has been copied whole if it was finished.
CopiedWhole == \A r \in finished \cap copied : copy[r] = size[r]

\* What is still to be copied is on the Pi and not copied yet, so that no copy
\* changes that stands for a removed file; what waits is forgotten at the end
\* of the turn.
TodoOnPi ==
  /\ todo \cap (removed \cup copied) = {}
  /\ pc \notin {"rsync", "rm"} => copied = {}

FetchInv == Lengths /\ Closed /\ CopiedWhole /\ TodoOnPi /\ FinishedSurvive

\* A step of a Sender: no finished recording changes.
LEMMA SendersKeep ==
  ASSUME FetchInv, NEW r \in Recordings, Record(r) \/ Finish(r)
  PROVE  FetchInv'
<1> USE DEF FetchInv, Lengths, Closed, CopiedWhole, TodoOnPi, FinishedSurvive, script
<1>1. CASE Record(r)
  <2>1. r \notin finished
    BY <1>1 DEF Record
  <2> QED
    BY <1>1, <2>1 DEF Record
<1>2. CASE Finish(r)
  BY <1>2 DEF Finish
<1> QED
  BY <1>1, <1>2

\* A turn of the loop ends or begins: what is not copied is listed anew.
LEMMA TurnsKeep ==
  ASSUME FetchInv, \/ \E m \in {"look", "copy", "move"} : Start(m)
               \/ Unreachable \/ Look \/ List \/ RsyncEnds \/ RsyncFails \/ ScpEnds
  PROVE  FetchInv'
<1> USE DEF FetchInv, Lengths, Closed, CopiedWhole, TodoOnPi, FinishedSurvive, sender
<1>1. CASE \E m \in {"look", "copy", "move"} : Start(m)
  BY <1>1 DEF Start
<1>2. CASE Unreachable
  BY <1>2 DEF Unreachable, CountFail, NextHost
<1>3. CASE Look
  BY <1>3 DEF Look, CountOk, NextHost
<1>4. CASE List
  BY <1>4 DEF List, OnPi
<1>5. CASE RsyncEnds
  BY <1>5 DEF RsyncEnds, CountOk, NextHost
<1>6. CASE RsyncFails
  BY <1>6 DEF RsyncFails, CountFail, NextHost
<1>7. CASE ScpEnds
  BY <1>7 DEF ScpEnds, CountOk, NextHost
<1> QED
  BY <1>1, <1>2, <1>3, <1>4, <1>5, <1>6, <1>7

\* A file is copied, or not, or removed.
LEMMA FilesKeep ==
  ASSUME FetchInv,
         \/ \E r \in Recordings : Rsync(r) \/ RsyncRemove(r) \/ Scp(r) \/ ScpFails(r)
         \/ Remove
  PROVE  FetchInv'
<1> USE DEF FetchInv, Lengths, Closed, CopiedWhole, TodoOnPi, FinishedSurvive, sender
<1>1. ASSUME NEW r \in Recordings, Rsync(r) PROVE FetchInv'
  <2>1. Lengths' /\ Closed' /\ TodoOnPi'
    BY <1>1 DEF Rsync
  <2>2. \A q \in Recordings \ {r} : copy'[q] = copy[q]
    BY <1>1 DEF Rsync
  <2>3. r \in copied' \ copied => copy'[r] = size[r]
    BY <1>1 DEF Rsync
  <2>4. r \in copied => copy'[r] = copy[r] \/ copy'[r] = size[r]
    BY <1>1 DEF Rsync
  <2>5. copied' \subseteq copied \cup {r} /\ r \notin removed
    BY <1>1 DEF Rsync
  <2> QED
    BY <1>1, <2>1, <2>2, <2>3, <2>4, <2>5 DEF Rsync
<1>2. ASSUME NEW r \in Recordings, RsyncRemove(r) PROVE FetchInv'
  BY <1>2 DEF RsyncRemove
<1>3. ASSUME NEW r \in Recordings, Scp(r) PROVE FetchInv'
  <2>1. Lengths' /\ Closed' /\ TodoOnPi'
    BY <1>3 DEF Scp
  <2>2. copied' \subseteq {r} /\ copy'[r] = size[r] /\ r \notin removed
    BY <1>3 DEF Scp
  <2>3. \A q \in Recordings \ {r} : copy'[q] = copy[q]
    BY <1>3 DEF Scp
  <2> QED
    BY <1>3, <2>1, <2>2, <2>3 DEF Scp
<1>4. ASSUME NEW r \in Recordings, ScpFails(r) PROVE FetchInv'
  BY <1>4 DEF ScpFails
<1>5. CASE Remove
  BY <1>5 DEF Remove
<1> QED
  BY <1>1, <1>2, <1>3, <1>4, <1>5

\* Whatever the order of calls, failures and recordings, a recording that was
\* over when a run of the script began is removed only behind a whole copy.
THEOREM SurviveCorrect == Spec => []FinishedSurvive
<1>1. Init => FetchInv
  BY HostsAssumption DEF Init, FetchInv, Lengths, Closed, CopiedWhole, TodoOnPi, FinishedSurvive
<1>2. FetchInv /\ [Next]_vars => FetchInv'
  <2> SUFFICES ASSUME FetchInv, [Next]_vars PROVE FetchInv'
    OBVIOUS
  <2>1. CASE UNCHANGED vars
    BY <2>1 DEF vars, sender, script, FetchInv, Lengths, Closed, CopiedWhole, TodoOnPi, FinishedSurvive
  <2>2. CASE Next
    BY <2>2, SendersKeep, TurnsKeep, FilesKeep DEF Next
  <2> QED
    BY <2>1, <2>2
<1>3. FetchInv => FinishedSurvive
  BY DEF FetchInv
<1> QED
  BY <1>1, <1>2, <1>3, PTL DEF Spec

=============================================================================
