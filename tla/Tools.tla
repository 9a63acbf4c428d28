------------------------------- MODULE Tools -------------------------------
(* The tools beside the system that keep running: the ground station's smoke *)
(* test (GroundStation) and its console (Console), the fake nodes (FakeNode) *)
(* and the HITL bridge (HitlBridge).  They share no state.                   *)
EXTENDS Naturals, Sequences

CONSTANTS MaxQueue, MaxSeq, Nothing
VARIABLES
  smoke, heardAny, heardMore, last, event, seq, cmdSeq, acks, wake, owed, acking,
  first, post, ble, up, flight, ground

Smoke == INSTANCE GroundStation WITH pc <- smoke, writing <- acking

CONSTANTS SeqSpan, MaxRetries, Fits, MaxSends, MaxLosses, MaxDown
VARIABLES
  repl, pinged, sends, conAcks, conWake, conOwed, conUp, down, unacked, pongs, reached,
  printed, losses

Con == INSTANCE Console WITH
  pc <- repl, acks <- conAcks, wake <- conWake, owed <- conOwed, up <- conUp,
  pending <- unacked

CONSTANTS Ports, Nodes, Home, Sessions, AckTimeout, MaxCommands, MaxNumber, MaxSwitches
VARIABLES
  active, session, addr, nextSeq, pending, typed, verdict, flying, fakeAcks,
  received, obeyed, known, used, emitted, switches

Fake == INSTANCE FakeNode WITH MaxSeq <- MaxNumber, acks <- fakeAcks

CONSTANTS Dsts, Period, Ignition, Burnout, Thrust, Duration, MaxClock
VARIABLES hitl, clock, started, next, samples, alt, vel, reading, grounded, base, got,
          broken

Hitl == INSTANCE HitlBridge WITH pc <- hitl

-----------------------------------------------------------------------------
(* What the tools promise.                                                 *)

\* However the tasks of the ground station interleave, no wake-up is lost between
\* a check of the smoke test and its sleep, no number is used twice, and a pong
\* is of a ping that was taken.
GroundTasksAgree ==
  /\ Smoke!NoLostWakeup /\ Smoke!SeqsDistinct
  /\ Con!PongMeansReached

\* Until a node or the session is switched, "ACK" means obeyed and no number is
\* used twice.
FakeVerdictsRight == switches = 0 => Fake!AckMeansObeyed /\ Fake!NumbersFresh

\* The samples that are injected are in time and those of a rocket.
SamplesRight == Hitl!SamplesRight

=============================================================================
