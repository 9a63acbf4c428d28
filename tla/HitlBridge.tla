----------------------------- MODULE HitlBridge -----------------------------
(***************************************************************************)
(* The laptop's HITL bridge (arc/hitl_bridge.py): the profile that makes   *)
(* the samples, the loop that paces them against the clock, and its one    *)
(* connection to the Controller, on which any write may wait and which is  *)
(* not made again when it breaks.                                          *)
(*                                                                         *)
(* Lengths of time are in steps of the clock, heights in an arbitrary unit *)
(* per sample; accelerations are multiples of g.                           *)
(***************************************************************************)
EXTENDS Integers

CONSTANTS
  Dsts,      \* --dst
  Period,    \* 1 / rate_hz, also the profile's dt
  Ignition, Burnout,  \* ignition_s, burnout_s
  Thrust,    \* 30.0, in g
  Duration,  \* --duration
  MaxClock   \* bound: time

HitlAssumption ==
  /\ {Period, Thrust} \subseteq Nat \ {0}
  /\ {Ignition, Burnout, Duration, MaxClock} \subseteq Nat /\ Ignition <= Burnout

VARIABLES
  pc,       \* run: "connecting", "greeting" the Controller, at the head of its
            \* "loop", "sending" a sample, "sleeping", "ended"
  clock,    \* time.monotonic()
  started,  \* started_at
  next,     \* next_sample_at
  samples,  \* samples made; source.t is this times Period
  alt, vel,
  reading,  \* the z acceleration of the current sample, in g
  grounded, \* history: how many samples in a row were made at height 0
  base,     \* history: when the first sample was due
  got,      \* the last sample written for each destination
  broken    \* the connection is

profileVars == <<samples, alt, vel, reading, grounded>>
hitlVars == <<pc, clock, started, next, profileVars, base, got, broken>>

Init ==
  /\ pc = "connecting" /\ clock = 0 /\ started = 0 /\ next = 0 /\ base = 0
  /\ samples = 0 /\ alt = 0 /\ vel = 0 /\ reading = -1 /\ grounded = 0
  /\ got = [d \in Dsts |-> 0] /\ broken = FALSE

-----------------------------------------------------------------------------
(* next_sample.                                                            *)

\* The phases: before ignition and after landing the rocket stands.
Burning(t) == Ignition <= t /\ t < Burnout
CoastingOnGround(t) == t >= Burnout /\ alt >= 0
Coasting(t) == t >= Burnout /\ alt > 0

NextSample ==
  /\ samples' = samples + 1
  /\ LET t == samples' * Period
         accel == IF Burning(t) THEN Thrust ELSE IF Coasting(t) THEN -1 ELSE 0
         stands == ~Burning(t) /\ ~Coasting(t)
         height == (IF stands THEN 0 ELSE alt) + vel'
     IN  /\ vel' = (IF stands THEN 0 ELSE vel) + accel
         /\ alt' = IF height > 0 THEN height ELSE 0
         /\ reading' = -accel - 1
         /\ grounded' = IF alt' = 0 THEN grounded + 1 ELSE 0

-----------------------------------------------------------------------------
(* run.                                                                    *)

Connect ==
  /\ pc = "connecting"
  /\ \/ pc' = "greeting" /\ started' = clock
     \/ pc' = "ended" /\ UNCHANGED started
  /\ UNCHANGED <<clock, next, profileVars, base, got, broken>>

\* The heartbeat that announces the bridge is through.
Greet ==
  /\ pc = "greeting" /\ ~broken
  /\ pc' = "loop" /\ next' = clock /\ base' = clock
  /\ UNCHANGED <<clock, started, profileVars, got, broken>>

Sample ==
  /\ pc = "loop" /\ clock - started < Duration
  /\ NextSample /\ pc' = "sending"
  /\ UNCHANGED <<clock, started, next, base, got, broken>>
Finish ==
  /\ pc = "loop" /\ clock - started >= Duration
  /\ pc' = "ended"
  /\ UNCHANGED <<clock, started, next, profileVars, base, got, broken>>

\* The write of the sample to one destination is through; after the last the
\* next sample's time is set, from the last one's and not from now.  The check
\* before the first write, that the line fits a frame, does not fail: the
\* profile's lines have some 130 characters at any rate.
SendDrifts(d) ==
  /\ pc = "sending" /\ ~broken /\ got[d] < samples
  /\ got' = [got EXCEPT ![d] = samples]
  /\ IF \A e \in Dsts : got'[e] = samples
       THEN pc' = "sleeping" /\ next' = clock + Period
       ELSE UNCHANGED <<pc, next>>
  /\ UNCHANGED <<clock, started, profileVars, base, broken>>
Send(d) ==
  /\ pc = "sending" /\ ~broken /\ got[d] < samples
  /\ got' = [got EXCEPT ![d] = samples]
  /\ IF \A e \in Dsts : got'[e] = samples
       THEN pc' = "sleeping" /\ next' = next + Period
       ELSE UNCHANGED <<pc, next>>
  /\ UNCHANGED <<clock, started, profileVars, base, broken>>

\* A write on a broken connection raises, and that ends run.
Fails ==
  /\ pc \in {"greeting", "sending"} /\ broken /\ pc' = "ended"
  /\ UNCHANGED <<clock, started, next, profileVars, base, got, broken>>

Wake ==
  /\ pc = "sleeping" /\ clock >= next /\ pc' = "loop"
  /\ UNCHANGED <<clock, started, next, profileVars, base, got, broken>>

-----------------------------------------------------------------------------

\* The end of what comes from the Controller ends the receiving task, unnoticed.
Break ==
  /\ pc \notin {"connecting", "ended"} /\ ~broken /\ broken' = TRUE
  /\ UNCHANGED <<pc, clock, started, next, profileVars, base, got>>
Tick ==
  /\ clock < MaxClock /\ clock' = clock + 1
  /\ UNCHANGED <<pc, started, next, profileVars, base, got, broken>>

Next ==
  \/ Connect \/ Greet \/ Sample \/ Finish \/ (\E d \in Dsts : Send(d))
  \/ Fails \/ Wake \/ Break \/ Tick

HitlSpec == Init /\ [][Next]_hitlVars

-----------------------------------------------------------------------------
(* Properties.                                                             *)

\* However long writes have waited, the profile's time is never a whole period
\* ahead of the clock, and whenever there is time to sleep it has caught up and
\* every destination has every sample.
OnSchedule ==
  /\ pc \notin {"connecting", "greeting", "ended"} =>
       samples * Period <= clock - base + Period
  /\ pc = "sleeping" /\ clock < next =>
       samples * Period > clock - base /\ \A d \in Dsts : got[d] = samples

\* A rocket that has been on the ground for two samples and does not burn
\* measures gravity, before the flight and after it, at every rate.
GroundMeasuresGravity ==
  grounded > 1 /\ ~Burning(samples * Period) => reading = -1 /\ vel = 0

\* The injected samples are in time and sound.
SamplesRight == OnSchedule /\ GroundMeasuresGravity

=============================================================================
