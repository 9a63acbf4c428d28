----------------------------- MODULE Telemetry -----------------------------
(***************************************************************************)
(* The latency figures of one probed element of the Controller's pipeline: *)
(* the probe that a streaming thread runs for each buffer, and the         *)
(* telemetry that the event loop drains and logs now and then              *)
(* (arc/pipeline_controller.py, _ControllerTelemetry).  The two threads    *)
(* share one dict without a lock; a step is what the interpreter does      *)
(* without giving the other a turn, one access to that dict.               *)
(*                                                                         *)
(* A sample is its number and its latency; 0 stands for no sample.         *)
(***************************************************************************)
EXTENDS Naturals, Sequences

CONSTANTS
  MaxLatency,  \* latencies are 1 to MaxLatency
  MaxSamples,  \* bound: buffers probed
  MaxReports   \* bound: reports logged

TelemetryAssumption == {MaxLatency, MaxSamples, MaxReports} \subseteq Nat

VARIABLES
  probe,    \* the streaming thread's next access and its variables
  loop,     \* the event loop's
  lastNs, maxNs, samples,  \* stats["last_ns"], ["max_ns"], ["samples"]
  taken,    \* samples so far
  highest,  \* history: the highest whose probe has got past max_ns since max_ns
            \* was last reset
  reports   \* history: what was logged

statsVars == <<lastNs, maxNs, samples>>
telemetryVars == <<probe, loop, statsVars, taken, highest, reports>>

NoSample == [n |-> 0, lat |-> 0]
Higher(a, b) == IF a.lat > b.lat THEN a ELSE b
Resting == [at |-> "idle", last |-> NoSample, max |-> NoSample, seen |-> NoSample, samples |-> 0]

Init ==
  /\ probe = [at |-> "idle", of |-> NoSample, samples |-> 0]
  /\ loop = Resting
  /\ lastNs = NoSample /\ maxNs = NoSample /\ samples = 0
  /\ taken = 0 /\ highest = NoSample /\ reports = <<>>

-----------------------------------------------------------------------------
(* _on_buffer.                                                             *)

Buffer ==
  /\ probe.at = "idle" /\ taken < MaxSamples /\ taken' = taken + 1
  /\ \E lat \in 1 .. MaxLatency :
       /\ lastNs' = [n |-> taken', lat |-> lat]
       /\ probe' = [probe EXCEPT !.at = "compare", !.of = lastNs']
  /\ UNCHANGED <<loop, maxNs, samples, highest, reports>>

Compare ==
  /\ probe.at = "compare"
  /\ IF probe.of.lat > maxNs.lat
       THEN probe' = [probe EXCEPT !.at = "raise"] /\ UNCHANGED highest
       ELSE probe' = [probe EXCEPT !.at = "read"] /\ highest' = Higher(probe.of, highest)
  /\ UNCHANGED <<loop, statsVars, taken, reports>>
Raise ==
  /\ probe.at = "raise"
  /\ maxNs' = probe.of /\ highest' = Higher(probe.of, highest)
  /\ probe' = [probe EXCEPT !.at = "read"]
  /\ UNCHANGED <<loop, lastNs, samples, taken, reports>>
Read ==
  /\ probe.at = "read"
  /\ probe' = [probe EXCEPT !.at = "count", !.samples = samples]
  /\ UNCHANGED <<loop, statsVars, taken, highest, reports>>
Count ==
  /\ probe.at = "count" /\ samples' = probe.samples + 1
  /\ probe' = [probe EXCEPT !.at = "idle"]
  /\ UNCHANGED <<loop, lastNs, maxNs, taken, highest, reports>>

-----------------------------------------------------------------------------
(* maybe_log when it is due, _drain_latency and _gst_summary.              *)

Snapshot ==
  /\ loop.at = "idle" /\ Len(reports) < MaxReports
  /\ loop' = IF samples > 0 THEN [Resting EXCEPT !.at = "last", !.samples = samples] ELSE loop
  /\ reports' = IF samples > 0 THEN reports ELSE Append(reports, Resting)
  /\ UNCHANGED <<probe, statsVars, taken, highest>>
CopyLast ==
  /\ loop.at = "last"
  /\ loop' = [loop EXCEPT !.at = "max", !.last = lastNs]
  /\ UNCHANGED <<probe, statsVars, taken, highest, reports>>
CopyMax ==
  /\ loop.at = "max"
  /\ loop' = [loop EXCEPT !.at = "resetMax", !.max = maxNs, !.seen = highest]
  /\ UNCHANGED <<probe, statsVars, taken, highest, reports>>
ResetMaxKeeps ==
  /\ loop.at = "resetMax" /\ highest' = NoSample
  /\ loop' = [loop EXCEPT !.at = "resetSamples"]
  /\ UNCHANGED <<probe, statsVars, taken, reports>>
ResetMax ==
  /\ loop.at = "resetMax" /\ maxNs' = NoSample /\ highest' = NoSample
  /\ loop' = [loop EXCEPT !.at = "resetSamples"]
  /\ UNCHANGED <<probe, lastNs, samples, taken, reports>>
ResetSamples ==
  /\ loop.at = "resetSamples" /\ samples' = 0
  /\ loop' = Resting /\ reports' = Append(reports, loop)
  /\ UNCHANGED <<probe, lastNs, maxNs, taken, highest>>

Next ==
  \/ Buffer \/ Compare \/ Raise \/ Read \/ Count
  \/ Snapshot \/ CopyLast \/ CopyMax \/ ResetMax \/ ResetSamples

TelemetrySpec == Init /\ [][Next]_telemetryVars

-----------------------------------------------------------------------------
(* Properties.                                                             *)

\* However the two threads interleave, the maximum logged is at least every
\* latency the probe was done with since the last reset, and no sample is the
\* maximum of two reports.
MaximumIsOfWindow ==
  /\ \A i \in DOMAIN reports : reports[i].max.lat >= reports[i].seen.lat
  /\ \A i, j \in DOMAIN reports :
       i # j /\ reports[i].max # NoSample => reports[i].max # reports[j].max

\* "last_ns" never goes back from one report to the next.
LastIsNewest ==
  \A i, j \in DOMAIN reports :
    i < j /\ reports[j].samples > 0 => reports[i].last.n <= reports[j].last.n

\* "Window-relative: max_ns resets each snapshot": no latency is higher than the
\* maximum of every report that may cover it.  It does not hold: one recorded
\* between the copy and the reset is in no report.
SpikesReported ==
  loop.at = "idle" /\ probe.at = "idle" /\ maxNs = NoSample /\ reports # <<>> =>
    lastNs.lat <= reports[Len(reports)].max.lat

\* The samples of all reports are no more than were taken.  It does not hold: a
\* probe that has read the count before a reset writes the old one back.
SamplesCountedOnce ==
  \A i, j \in DOMAIN reports : i < j => reports[i].samples + reports[j].samples <= taken

=============================================================================
