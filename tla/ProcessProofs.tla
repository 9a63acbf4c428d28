---------------------------- MODULE ProcessProofs ----------------------------
(***************************************************************************)
(* What holds of the two video pipelines, the Controller's and a Sender's, *)
(* for any sources, layouts, texts and bitrates, in either switch mode and *)
(* whatever may fail; of the latency figures of the Controller's; of its   *)
(* links, for any units and any configuration; and of its status reports,  *)
(* for any that it makes and any that arrives.                             *)
(***************************************************************************)
EXTENDS Processes, Sequences, SequenceTheorems, SequenceInduction, TLAPS

-----------------------------------------------------------------------------
(* The Controller's pipeline.  The live graph is only right because every  *)
(* path that leaves one behind has also recorded what it shows: the type   *)
(* invariant and LiveMatchesRecorded are inductive together.               *)

\* Starting, from whatever was there, ends in a graph of the types that shows
\* what is recorded if it plays.
LEMMA StartKeeps ==
  ASSUME ControllerPipelineTypeOK, slots' \in [Slots -> Sources], Start
  PROVE  /\ wired' \in [Slots -> Sources \cup {None}]
         /\ layout' \in Layouts \cup {None} /\ mixed' \in Layouts \cup {None}
         /\ text' = text /\ overlaid' \in Texts \cup {None}
         /\ pipe' \in {"none", "built", "playing"}
         /\ pipe' = "none" => wired' = Dark /\ mixed' = None /\ overlaid' = None
         /\ pipe' = "playing" => wired' = slots' /\ mixed' = layout' /\ overlaid' = text'
         /\ layout # None => layout' = layout
<1> USE DEF ControllerPipelineTypeOK
<1>1. text' = text
  BY DEF Start
<1>2. layout # None => DesiredLayout = layout
  BY DEF DesiredLayout
<1>3. Dark \in [Slots -> Sources \cup {None}]
  BY DEF Dark
<1>4. slots' \in [Slots -> Sources \cup {None}]
  OBVIOUS
<1>5. CASE StartPlays
  BY <1>1, <1>2, <1>4, <1>5 DEF StartPlays
<1>6. CASE "parse" \in Failures /\ NoGraph /\ UNCHANGED layout
  BY <1>1, <1>3, <1>6 DEF NoGraph
<1>7. CASE /\ "play" \in Failures /\ DesiredLayout \in Layouts
           /\ NoGraph /\ layout' = DesiredLayout
  BY <1>1, <1>2, <1>3, <1>7 DEF NoGraph
<1>8. CASE /\ DesiredLayout \notin Layouts /\ pipe' = "built" /\ Built
           /\ mixed' = None /\ UNCHANGED layout
  BY <1>1, <1>3, <1>4, <1>8 DEF Built
<1>9. QED BY <1>5, <1>6, <1>7, <1>8 DEF Start, StartFails

\* The types, and what a playing graph shows.
Recorded == ControllerPipelineTypeOK /\ LiveMatchesRecorded

\* The constructor builds nothing, so nothing is live and nothing is claimed.
LEMMA RecordedInit == Init => Recorded
  BY ControllerPipelineAssumption
     DEF Init, Recorded, ControllerPipelineTypeOK, LiveMatchesRecorded, Dark

\* Every operation, whichever of its steps fails, leaves the graph of the types
\* and, if it plays, showing what is recorded.
LEMMA RecordedNext == Recorded /\ [Next]_vars => Recorded'
<1> SUFFICES ASSUME Recorded, [Next]_vars PROVE Recorded'
  OBVIOUS
<1> USE DEF Recorded, ControllerPipelineTypeOK, LiveMatchesRecorded
<1>1. CASE Boot
  <2>1. slots' = slots /\ Start /\ run' \in {"booting", "up", "down"}
    BY <1>1 DEF Boot
  <2>2. QED BY <2>1, StartKeeps
<1>2. CASE Shutdown
  <2>1. Dark \in [Slots -> Sources \cup {None}]
    BY DEF Dark
  <2>2. QED BY <1>2, <2>1 DEF Shutdown, NoGraph, recorded
<1>3. ASSUME NEW new \in [Slots -> Sources], SetSources(new) PROVE Recorded'
  <2>1. slots' = new /\ run' = run
    BY <1>3 DEF SetSources
  <2>2. CASE Selector /\ pipe # "none"
    <3>1. /\ wired' = [s \in Slots |-> IF new[s] # slots[s] THEN new[s] ELSE wired[s]]
          /\ UNCHANGED <<layout, text, pipe, mixed, overlaid>>
      BY <1>3, <2>2 DEF SetSources
    <3>2. wired' \in [Slots -> Sources \cup {None}]
      BY <3>1
    <3>3. pipe = "playing" => wired' = new
      BY <3>1
    <3>4. QED BY <2>1, <2>2, <3>1, <3>2, <3>3
  <2>3. CASE pipe = "none" /\ UNCHANGED <<layout, text, live>>
    BY <2>1, <2>3 DEF live
  <2>4. CASE Start
    BY <2>1, <2>4, StartKeeps
  <2>5. QED BY <1>3, <2>2, <2>3, <2>4 DEF SetSources
<1>4. ASSUME NEW name \in Layouts, SetLayout(name) PROVE Recorded'
  BY <1>4 DEF SetLayout, Mixed
<1>5. ASSUME NEW t \in Texts, SetOverlay(t) PROVE Recorded'
  BY <1>5 DEF SetOverlay
<1>6. CASE UNCHANGED vars
  BY <1>6 DEF vars, recorded, live
<1>7. QED BY <1>1, <1>2, <1>3, <1>4, <1>5, <1>6 DEF Next

\* Types, in every mode and with every failure; nothing is live without a
\* pipeline.
THEOREM ControllerPipelineTypeCorrect == Spec => []ControllerPipelineTypeOK
<1>1. Recorded => ControllerPipelineTypeOK
  BY DEF Recorded
<1>2. QED BY <1>1, RecordedInit, RecordedNext, PTL DEF Spec

\* A step that changes the sources leaves a layout that was set alone, whether
\* the rebuild it takes succeeds or fails.
LEMMA LayoutKept ==
  ASSUME Recorded, [Next]_vars, layout # None, slots' # slots
  PROVE  layout' = layout
<1>1. ASSUME NEW new \in [Slots -> Sources], SetSources(new) PROVE layout' = layout
  <2>1. slots' = new
    BY <1>1 DEF SetSources
  <2>2. CASE Start
    BY <2>1, <2>2, StartKeeps DEF Recorded
  <2>3. QED BY <1>1, <2>2 DEF SetSources
<1>2. QED BY <1>1 DEF Next, Boot, Shutdown, SetLayout, SetOverlay, vars, recorded

\* A playing graph shows the recorded sources, layout and overlay, and the
\* layout an operator chose survives every change of sources.
THEOREM PictureCorrect == Spec => PictureKept
<1>1. Recorded => LiveMatchesRecorded
  BY DEF Recorded
<1>2. Recorded /\ [Next]_vars => [layout # None /\ slots' # slots => layout' = layout]_vars
  BY LayoutKept
<1>3. QED
  BY <1>1, <1>2, RecordedInit, RecordedNext, PTL DEF Spec, PictureKept, LayoutSurvives

\* A step of the pipeline is one that the source switching relies on: a request
\* for other sources, one for the sources it has, or a start or stop.
LEMMA PipelineRelied == [Next]_vars => Relied!PipelineNext
<1> SUFFICES ASSUME [Next]_vars PROVE Relied!PipelineNext
  OBVIOUS
<1>1. CASE Boot \/ Shutdown
  BY <1>1 DEF Boot, Shutdown, recorded, Relied!PipelineNext, Relied!StartOrStop
<1>2. ASSUME NEW new \in [Slots -> Sources], SetSources(new)
      PROVE  Relied!SetPipelineSources(new) /\ slots' = new
  <2>1. Slots = Relied!Slots
    BY DEF Slots, Relied!Slots
  <2>2. QED BY <1>2, <2>1 DEF SetSources, live, Relied!SetPipelineSources
<1>3. CASE UNCHANGED <<slots, pipe>>
  BY <1>3 DEF Relied!PipelineNext, Relied!SetPipelineSources, Relied!pipelineVars
<1>4. QED
  BY <1>1, <1>2, <1>3
     DEF Next, SetLayout, SetOverlay, vars, recorded, live, Relied!PipelineNext

\* The pipeline implements what the source switching relies on: a request for
\* other sources comes to what SetPipelineSources allows, and nothing else
\* changes them.
THEOREM ReliedCorrect == Spec => Relied!PipelineSpec
<1>1. Init => ~(pipe # "none")
  BY DEF Init
<1>2. QED BY <1>1, PipelineRelied, PTL DEF Spec, Relied!PipelineSpec

\* So it does in either mode, and with a startup layout that does not exist.
THEOREM ImplementsCorrect == ControllerSpec => ImplementsCompositorSources
<1>1. Init => pipe = "none"
  BY DEF Init
<1>2. [Misconfigured!Next]_vars => Relied!PipelineNext
  BY DEF Misconfigured!Next, Misconfigured!Boot, Misconfigured!Shutdown,
     Misconfigured!SetLayout, Misconfigured!SetOverlay, Misconfigured!SetSources,
     Misconfigured!recorded, Misconfigured!live, Misconfigured!Slots, vars, recorded,
     live, Relied!PipelineNext, Relied!StartOrStop, Relied!SetPipelineSources,
     Relied!pipelineVars, Relied!Slots
<1>3. [Selected!Next]_vars => Selected!Relied!PipelineNext
  BY DEF Selected!Next, Selected!Boot, Selected!Shutdown, Selected!SetLayout,
     Selected!SetOverlay, Selected!SetSources, Selected!recorded, Selected!live,
     Selected!Slots, vars, recorded, live, Selected!Relied!PipelineNext,
     Selected!Relied!StartOrStop, Selected!Relied!SetPipelineSources,
     Selected!Relied!pipelineVars, Selected!Relied!Slots
<1>4. [ControllerStep]_<<part, vars>>
        => [IF part = "selector" THEN Selected!Relied!PipelineNext
            ELSE Relied!PipelineNext]_<<part, vars>>
  BY <1>2, <1>3, PipelineRelied DEF ControllerStep
<1>5. QED BY <1>1, <1>4, PTL DEF ControllerSpec, ImplementsCompositorSources

-----------------------------------------------------------------------------
(* A Sender's pipeline.                                                    *)

\* Why a recording is never cut: the flags are the valves', no pipeline means
\* no flag, and the process's own flags never run ahead of the valves.
SenderFlags ==
  /\ tx \in BOOLEAN /\ rec \in BOOLEAN
  /\ transmitting \in BOOLEAN /\ recording \in BOOLEAN
  /\ tx = txOpen /\ rec = recOpen
  /\ Sender!Idle => ~tx /\ ~rec
  /\ Sender!NoTxOnly /\ Sender!StoppedIsSilent

\* A START_STREAM, whichever of its steps fails.
LEMMA StartStreamKeeps ==
  ASSUME SenderFlags, Sender!StartStream
  PROVE  /\ tx' \in BOOLEAN /\ rec' \in BOOLEAN /\ tx' = txOpen' /\ rec' = recOpen'
         /\ Sender!Idle' => ~tx' /\ ~rec'
         /\ tx' => rec'
         /\ rec /\ rec' => file' = file /\ ~Sender!Idle'
<1> USE DEF SenderFlags, Sender!NoTxOnly
<1>1. CASE /\ ~Sender!Idle /\ Sender!OpenBoth
           /\ UNCHANGED <<sending, file, bitrate, encoding>>
  BY <1>1 DEF Sender!OpenBoth, Sender!Idle
<1>2. CASE Sender!Idle /\ sending' = "playing" /\ Sender!OpenBoth
  BY <1>2 DEF Sender!OpenBoth, Sender!Idle
<1>3. CASE Sender!Idle /\ UNCHANGED <<tx, rec, sending, Sender!valves>>
  BY <1>3 DEF Sender!valves, Sender!Idle
<1>4. CASE /\ Sender!Idle /\ tx' = FALSE /\ rec' = FALSE
           /\ UNCHANGED <<sending, Sender!valves>>
  BY <1>4 DEF Sender!valves, Sender!Idle
<1>5. QED
  BY <1>1, <1>2, <1>3, <1>4 DEF Sender!StartStream, Sender!pipelineVars

\* No command, failure, restart or second breaks the agreement of flags and
\* valves, and none moves a recording that goes on to another file.
LEMMA SenderStep ==
  ASSUME SenderFlags, [Sender!Next]_(Sender!vars)
  PROVE  SenderFlags' /\ (rec /\ rec' => file' = file /\ ~Sender!Idle')
<1> USE DEF SenderFlags, Sender!Idle, Sender!NoTxOnly, Sender!StoppedIsSilent
<1>1. CASE Sender!Start
  <2>1. transmitting' = TRUE /\ recording' = TRUE /\ Sender!StartStream
    BY <1>1 DEF Sender!Start
  <2>2. QED BY <2>1, StartStreamKeeps
<1>2. CASE Sender!Stop
  BY <1>2 DEF Sender!Stop, Sender!StopStream
<1>3. CASE Sender!HardStopped
  BY <1>3 DEF Sender!HardStopped, Sender!HardStop, Sender!valves
<1>4. ASSUME NEW bps \in Bitrates, Sender!Rated(bps)
      PROVE  SenderFlags' /\ (rec /\ rec' => file' = file /\ ~Sender!Idle')
  BY <1>4 DEF Sender!Rated, Sender!SetBitrate, Sender!valves
<1>5. CASE Sender!Restart
  BY <1>5 DEF Sender!Restart
<1>6. CASE Sender!ElementFails
  BY <1>6 DEF Sender!ElementFails, Sender!senderVars, Sender!valves
<1>7. CASE UNCHANGED <<Sender!senderVars, Sender!pipelineVars>>
  BY <1>7 DEF Sender!senderVars, Sender!pipelineVars, Sender!valves
<1>8. CASE Sender!BootCommand /\ ~OnBoot
  <2>1. UNCHANGED <<transmitting, recording, Sender!pipelineVars>>
    BY <1>8 DEF Sender!BootCommand
  <2>2. QED BY <2>1 DEF Sender!pipelineVars, Sender!valves
<1>9. QED
  BY <1>1, <1>2, <1>3, <1>4, <1>5, <1>6, <1>7, <1>8
     DEF Sender!Next, Sender!BootCommand, Sender!Command, Sender!Second, Sender!vars

\* While a recording goes on it goes on in one file; nothing is transmitted
\* that is not recorded; and a sender that was told to stop is silent.
THEOREM RecordingCorrect ==
  Sender!Spec => /\ SenderRecordingUnbroken
                 /\ []Sender!NoTxOnly /\ []Sender!StoppedIsSilent
<1>1. Sender!Init => SenderFlags
  BY DEF Sender!Init, Sender!Boot, SenderFlags, Sender!Idle, Sender!NoTxOnly,
         Sender!StoppedIsSilent
<1>2. SenderFlags /\ [Sender!Next]_(Sender!vars) => SenderFlags'
  BY SenderStep
<1>3. SenderFlags /\ [Sender!Next]_(Sender!vars)
        => [rec /\ rec' => file' = file /\ ~Sender!Idle']_(Sender!vars)
  BY SenderStep
<1>4. SenderFlags => Sender!NoTxOnly /\ Sender!StoppedIsSilent
  BY DEF SenderFlags
<1>5. QED
  BY <1>1, <1>2, <1>3, <1>4, PTL DEF Sender!Spec, SenderRecordingUnbroken, Sender!RecordingUnbroken

-----------------------------------------------------------------------------
(* The latency figures of the Controller's pipeline, which the streaming   *)
(* thread raises and the event loop resets with no lock between them.      *)

\* No sample, or one with its number and latency.
Samples == {Latency!NoSample} \cup [n : Nat \ {0}, lat : Nat]
Logged == [at : {"idle", "last", "max", "resetMax", "resetSamples"},
           last : Samples, max : Samples, seen : Samples, samples : Nat]

TelemetryTypeOK ==
  /\ probe \in [at : {"idle", "compare", "raise", "read", "count"},
                of : Samples, samples : Nat]
  /\ loop \in Logged /\ reports \in Seq(Logged)
  /\ lastNs \in Samples /\ maxNs \in Samples /\ highest \in Samples
  /\ samples \in Nat /\ taken \in Nat

\* The probe has a sample in hand that max_ns may still become.
InHand == probe.at \in {"compare", "raise"}
Copied == loop.at \in {"resetMax", "resetSamples"}

\* A sample that the probe is done with is older than the one it has in hand.
Past(s) == s.n <= taken /\ (InHand => s.n < probe.of.n)

\* One maximum comes before another, which may be none.
Precedes(s, t) == t.n = 0 \/ s.n < t.n

\* Maxima never fall short: max_ns is at least what the probe was done with, a
\* sample about to raise it is higher than it still, and so it was when copied.
MaximaHigh ==
  /\ highest.lat <= maxNs.lat
  /\ InHand => probe.of.n = taken /\ probe.of.n > 0 /\ probe.of.lat > 0
  /\ probe.at = "raise" => probe.of.lat > maxNs.lat
  /\ Copied => loop.max.lat >= loop.seen.lat
  /\ \A i \in DOMAIN reports : reports[i].max.lat >= reports[i].seen.lat

\* Maxima are those of ever newer samples: of the reports, of what is copied for
\* the next and of max_ns.
MaximaNew ==
  /\ Past(maxNs) /\ (Copied => Past(loop.max))
  /\ \A i \in DOMAIN reports :
       /\ Past(reports[i].max) /\ Precedes(reports[i].max, maxNs)
       /\ Copied => Precedes(reports[i].max, loop.max)
  /\ loop.at = "resetSamples" => Precedes(loop.max, maxNs)
  /\ \A i, j \in DOMAIN reports :
       i < j => Precedes(reports[i].max, reports[j].max)

Windows == TelemetryTypeOK /\ MaximaHigh /\ MaximaNew

\* Samples have numbers and latencies, wherever they are kept.
LEMMA SampleFacts ==
  ASSUME TelemetryTypeOK
  PROVE  /\ \A s \in Samples : s.n \in Nat /\ s.lat \in Nat
         /\ {probe.of, maxNs, lastNs, highest, loop.max, loop.seen} \subseteq Samples
         /\ \A i \in DOMAIN reports : reports[i].max \in Samples /\ reports[i].seen \in Samples
<1>1. \A s \in Samples : s.n \in Nat /\ s.lat \in Nat
  BY DEF Samples, Latency!NoSample
<1>2. \A i \in DOMAIN reports : reports[i] \in Logged
  BY DEF TelemetryTypeOK
<1>3. QED BY <1>1, <1>2 DEF TelemetryTypeOK, Logged

\* What is appended to the reports is the last of them.
LEMMA OneMoreReport ==
  ASSUME NEW s \in Seq(Logged), NEW r \in Logged
  PROVE  /\ Append(s, r) \in Seq(Logged)
         /\ DOMAIN Append(s, r) = DOMAIN s \cup {Len(s) + 1}
         /\ \A i \in DOMAIN s : i \in 1..Len(s) /\ Append(s, r)[i] = s[i]
         /\ Append(s, r)[Len(s) + 1] = r /\ Len(s) + 1 \notin DOMAIN s
<1>1. Len(s) \in Nat /\ DOMAIN s = 1..Len(s)
  OBVIOUS
<1>2. Len(Append(s, r)) = Len(s) + 1 /\ DOMAIN Append(s, r) = 1..(Len(s) + 1)
  OBVIOUS
<1>3. QED BY <1>1, <1>2

\* A report logged keeps the windows right, whether it is one that was copied
\* or an empty one.
LEMMA LoggedRight ==
  ASSUME Windows, NEW r \in Logged, reports' = Append(reports, r),
         UNCHANGED <<probe, lastNs, maxNs, taken, highest>>, samples' \in Nat,
         loop' \in Logged, loop'.at = "idle",
         r.max.lat >= r.seen.lat, Past(r.max), Precedes(r.max, maxNs),
         \A i \in DOMAIN reports : Precedes(reports[i].max, r.max)
  PROVE  Windows'
<1> DEFINE last == Len(reports) + 1
<1> USE DEF Windows, TelemetryTypeOK
<1>1. /\ reports' \in Seq(Logged) /\ DOMAIN reports' = DOMAIN reports \cup {last}
      /\ \A i \in DOMAIN reports : i \in 1..Len(reports) /\ reports'[i] = reports[i]
      /\ reports'[last] = r /\ last \notin DOMAIN reports
  BY OneMoreReport
<1>2. last \in Nat /\ \A i \in DOMAIN reports : i \in Nat /\ i < last
  <2>1. Len(reports) \in Nat
    OBVIOUS
  <2>2. QED BY <1>1, <2>1
<1>3. TelemetryTypeOK'
  BY <1>1
<1>4. InHand' = InHand /\ ~Copied' /\ loop'.at # "resetSamples"
  BY DEF InHand, Copied
<1>5. MaximaHigh'
  BY <1>1, <1>4 DEF MaximaHigh
<1>6. \A i \in DOMAIN reports' : Past(reports'[i].max) /\ Precedes(reports'[i].max, maxNs)
  BY <1>1 DEF MaximaNew
<1>7. \A i, j \in DOMAIN reports' : i < j => Precedes(reports'[i].max, reports'[j].max)
  BY <1>1, <1>2 DEF MaximaNew
<1>8. MaximaNew'
  BY <1>4 DEF MaximaNew, Past
<1>9. QED BY <1>3, <1>5, <1>8

\* No access of either thread, in whatever order they come, spoils a window.
LEMMA WindowsNext == Windows /\ [Latency!Next]_(Latency!telemetryVars) => Windows'
<1> SUFFICES ASSUME Windows, [Latency!Next]_(Latency!telemetryVars) PROVE Windows'
  OBVIOUS
<1> USE DEF Windows
<1>1. CASE Latency!Buffer
  <2>1. PICK lat \in 1..MaxLatency :
          /\ probe.at = "idle" /\ taken' = taken + 1
          /\ lastNs' = [n |-> taken', lat |-> lat]
          /\ probe' = [probe EXCEPT !.at = "compare", !.of = lastNs']
          /\ UNCHANGED <<loop, maxNs, samples, highest, reports>>
    BY <1>1 DEF Latency!Buffer
  <2>2. lat \in Nat /\ lat > 0
    BY <2>1
  <2>3. taken' \in Nat /\ taken' > taken /\ taken' # 0 /\ taken \in Nat
    BY <2>1 DEF TelemetryTypeOK
  <2>4. lastNs' \in Samples /\ lastNs'.n = taken' /\ lastNs'.lat > 0
    BY <2>1, <2>3 DEF Samples
  <2>5. /\ probe'.at = "compare" /\ probe'.of = lastNs' /\ probe'.samples = probe.samples
        /\ probe' \in [at : {"idle", "compare", "raise", "read", "count"},
                       of : Samples, samples : Nat]
    BY <2>1, <2>4 DEF TelemetryTypeOK
  <2>6. TelemetryTypeOK'
    BY <2>1, <2>4, <2>5 DEF TelemetryTypeOK
  <2>7. MaximaHigh'
    BY <2>1, <2>3 DEF MaximaHigh, Copied
  <2>8. \A s \in Samples : Past(s) => Past(s)'
    BY <2>3, <2>4, <2>5 DEF Past, Samples, Latency!NoSample
  <2>9. /\ maxNs \in Samples /\ loop.max \in Samples
        /\ \A i \in DOMAIN reports : reports[i].max \in Samples
    BY SampleFacts
  <2>10. Past(maxNs)' /\ (Copied => Past(loop.max)')
         /\ \A i \in DOMAIN reports : Past(reports[i].max)'
    BY <2>1, <2>8, <2>9 DEF MaximaNew
  <2>11. MaximaNew'
    BY <2>1, <2>10 DEF MaximaNew, Copied
  <2>12. QED BY <2>6, <2>7, <2>11
<1>2. CASE Latency!Compare
  <2>1. /\ probe.at = "compare" /\ probe'.of = probe.of
        /\ \/ probe'.at = "raise" /\ probe.of.lat > maxNs.lat /\ highest' = highest
           \/ /\ probe'.at = "read" /\ probe.of.lat <= maxNs.lat
              /\ highest' \in {probe.of, highest}
    BY <1>2, SampleFacts DEF Latency!Compare, Latency!Higher, TelemetryTypeOK
  <2>2. TelemetryTypeOK'
    BY <1>2, <2>1 DEF Latency!Compare, TelemetryTypeOK, Latency!statsVars
  <2>3. MaximaHigh'
    BY <1>2, <2>1 DEF Latency!Compare, Latency!statsVars, MaximaHigh, InHand, Copied
  <2>4. MaximaNew'
    BY <1>2, <2>1
       DEF Latency!Compare, Latency!statsVars, MaximaNew, InHand, Copied, Past
  <2>5. QED BY <2>2, <2>3, <2>4
<1>3. CASE Latency!Raise
  <2>1. /\ probe.at = "raise" /\ probe'.at = "read" /\ maxNs' = probe.of
        /\ highest' \in {probe.of, highest}
    BY <1>3 DEF Latency!Raise, Latency!Higher
  <2>2. TelemetryTypeOK'
    BY <1>3, <2>1 DEF Latency!Raise, TelemetryTypeOK
  <2>3. MaximaHigh'
    BY <1>3, <2>1, SampleFacts DEF Latency!Raise, MaximaHigh, InHand, Copied
  <2>4. MaximaNew'
    BY <1>3
       DEF Latency!Raise, TelemetryTypeOK, MaximaHigh, MaximaNew, InHand, Copied,
           Past, Precedes
  <2>5. QED BY <2>2, <2>3, <2>4
<1>4. CASE Latency!Read
  <2>1. probe'.at = "count" /\ probe.at = "read" /\ probe'.of = probe.of
    BY <1>4 DEF Latency!Read, Latency!statsVars
  <2>2. TelemetryTypeOK'
    BY <1>4 DEF Latency!Read, TelemetryTypeOK, Latency!statsVars
  <2>3. MaximaHigh'
    BY <1>4 DEF Latency!Read, Latency!statsVars, MaximaHigh, InHand, Copied
  <2>4. MaximaNew'
    BY <1>4 DEF Latency!Read, Latency!statsVars, MaximaNew, InHand, Copied, Past
  <2>5. QED BY <2>2, <2>3, <2>4
<1>5. CASE Latency!Count
  <2>1. probe'.at = "idle" /\ probe.at = "count" /\ probe'.of = probe.of
    BY <1>5 DEF Latency!Count, Logged
  <2>2. TelemetryTypeOK'
    BY <1>5 DEF Latency!Count, TelemetryTypeOK
  <2>3. MaximaHigh'
    BY <1>5 DEF Latency!Count, MaximaHigh, InHand, Copied
  <2>4. MaximaNew'
    BY <1>5 DEF Latency!Count, MaximaNew, InHand, Copied, Past
  <2>5. QED BY <2>2, <2>3, <2>4
<1>6. CASE Latency!Snapshot /\ samples > 0
  <2>1. /\ loop' \in Logged /\ loop'.at = "last" /\ reports' = reports
        /\ UNCHANGED <<probe, Latency!statsVars, taken, highest>>
    BY <1>6 DEF Latency!Snapshot, Latency!Resting, TelemetryTypeOK, Samples, Logged
  <2>2. TelemetryTypeOK'
    BY <2>1 DEF TelemetryTypeOK, Latency!statsVars
  <2>3. MaximaHigh'
    BY <2>1 DEF MaximaHigh, InHand, Copied, Latency!statsVars
  <2>4. MaximaNew'
    BY <2>1 DEF MaximaNew, InHand, Copied, Past, Latency!statsVars
  <2>5. QED BY <2>2, <2>3, <2>4
<1>7. CASE Latency!Snapshot /\ ~(samples > 0)
  <2>1. /\ loop' = loop /\ loop.at = "idle" /\ reports' = Append(reports, Latency!Resting)
        /\ UNCHANGED <<probe, Latency!statsVars, taken, highest>>
    BY <1>7 DEF Latency!Snapshot
  <2>2. /\ Latency!Resting \in Logged /\ Latency!Resting.max = Latency!NoSample
        /\ Latency!Resting.max.lat >= Latency!Resting.seen.lat
    BY DEF Latency!Resting, Latency!NoSample, Samples, Logged
  <2>3. Past(Latency!Resting.max)
    BY <2>2 DEF Past, MaximaHigh, Latency!NoSample, TelemetryTypeOK
  <2>4. /\ Precedes(Latency!Resting.max, maxNs)
        /\ \A i \in DOMAIN reports : Precedes(reports[i].max, Latency!Resting.max)
    BY <2>2, SampleFacts DEF Precedes, Latency!NoSample
  <2>5. QED
    BY <2>1, <2>2, <2>3, <2>4, LoggedRight DEF Latency!statsVars, TelemetryTypeOK
<1>8. CASE Latency!CopyLast
  <2>1. loop'.at = "max" /\ loop.at = "last"
    BY <1>8 DEF Latency!CopyLast, Latency!statsVars
  <2>2. TelemetryTypeOK'
    BY <1>8 DEF Latency!CopyLast, TelemetryTypeOK, Logged, Latency!statsVars
  <2>3. MaximaHigh'
    BY <1>8 DEF Latency!CopyLast, Latency!statsVars, MaximaHigh, InHand, Copied
  <2>4. MaximaNew'
    BY <1>8 DEF Latency!CopyLast, Latency!statsVars, MaximaNew, InHand, Copied, Past
  <2>5. QED BY <2>2, <2>3, <2>4
<1>9. CASE Latency!CopyMax
  <2>1. loop'.at = "resetMax" /\ loop'.max = maxNs /\ loop'.seen = highest
    BY <1>9 DEF Latency!CopyMax, Latency!statsVars
  <2>2. TelemetryTypeOK'
    BY <1>9 DEF Latency!CopyMax, TelemetryTypeOK, Logged, Latency!statsVars
  <2>3. MaximaHigh'
    BY <1>9 DEF Latency!CopyMax, Latency!statsVars, MaximaHigh, InHand
  <2>4. MaximaNew'
    BY <1>9 DEF Latency!CopyMax, Latency!statsVars, MaximaNew, InHand, Past
  <2>5. QED BY <2>2, <2>3, <2>4
<1>10. CASE Latency!ResetMax
  <2>1. loop'.at = "resetSamples" /\ loop.at = "resetMax" /\ loop'.max = loop.max
        /\ loop'.seen = loop.seen
    BY <1>10 DEF Latency!ResetMax, Latency!NoSample
  <2>2. TelemetryTypeOK'
    BY <1>10 DEF Latency!ResetMax, TelemetryTypeOK, Samples, Logged
  <2>3. MaximaHigh'
    BY <1>10 DEF Latency!ResetMax, Latency!NoSample, MaximaHigh, InHand, Copied
  <2>4. MaximaNew'
    BY <1>10
       DEF Latency!ResetMax, TelemetryTypeOK, Latency!NoSample, MaximaHigh,
           MaximaNew, InHand, Copied, Past, Precedes
  <2>5. QED BY <2>2, <2>3, <2>4
<1>11. CASE Latency!ResetSamples
  <2>1. /\ loop.at = "resetSamples" /\ samples' = 0 /\ loop' = Latency!Resting
        /\ reports' = Append(reports, loop)
        /\ UNCHANGED <<probe, lastNs, maxNs, taken, highest>>
    BY <1>11 DEF Latency!ResetSamples
  <2>2. loop' \in Logged /\ loop'.at = "idle"
    BY <2>1 DEF Latency!Resting, Samples, Logged
  <2>3. /\ loop.max.lat >= loop.seen.lat /\ Past(loop.max) /\ Precedes(loop.max, maxNs)
        /\ \A i \in DOMAIN reports : Precedes(reports[i].max, loop.max)
    BY <2>1 DEF MaximaHigh, MaximaNew, Copied
  <2>4. QED BY <2>1, <2>2, <2>3, LoggedRight DEF TelemetryTypeOK
<1>12. CASE UNCHANGED Latency!telemetryVars
  BY <1>12
     DEF Latency!telemetryVars, Latency!statsVars, TelemetryTypeOK, MaximaHigh,
         MaximaNew, InHand, Copied, Past
<1>13. QED
  BY <1>1, <1>2, <1>3, <1>4, <1>5, <1>6, <1>7, <1>8, <1>9, <1>10, <1>11, <1>12
     DEF Latency!Next

\* However the two threads interleave, a logged maximum is at least every
\* latency the probe was done with since the last reset, and none is logged
\* twice.
THEOREM MaximumCorrect == Latency!TelemetrySpec => []MaximaExact
<1>1. Latency!Init => Windows
  BY DEF Latency!Init, Latency!Resting, Latency!NoSample, Windows, TelemetryTypeOK,
     MaximaHigh, MaximaNew, InHand, Copied, Past, Precedes, Samples, Logged
<1>2. Windows => Latency!MaximumIsOfWindow
  <2> SUFFICES ASSUME Windows, NEW i \in DOMAIN reports, NEW j \in DOMAIN reports, i # j,
                      reports[i].max # Latency!NoSample
               PROVE  reports[i].max # reports[j].max
    BY DEF Latency!MaximumIsOfWindow, Windows, MaximaHigh
  <2>1. i \in Nat /\ j \in Nat /\ reports[i] \in Logged /\ reports[j] \in Logged
    BY DEF Windows, TelemetryTypeOK
  <2>2. i < j \/ j < i
    BY <2>1
  <2>3. QED BY <2>1, <2>2 DEF Windows, MaximaNew, Precedes, Logged, Samples
<1>3. Windows => MaximaExact
  BY <1>2 DEF MaximaExact
<1>4. QED BY <1>1, <1>3, WindowsNext, PTL DEF Latency!TelemetrySpec

-----------------------------------------------------------------------------
(* Links.  Once a configuration is loaded, each address has one link it may *)
(* come to have, and no two have the same: what the tables, connections,    *)
(* routes and queues hold is always the link of somebody who speaks there.  *)

\* The link of an address, where peers have theirs from a table.
LinkTo(peers, a) == IF a \in DOMAIN peers THEN peers[a] ELSE Wired!SenderRoute(a)
LinksAt(peers, u) == {LinkTo(peers, a) : a \in Wired!Speakers(u)}
Leads(peers, l, a) ==
  l = LinkTo(peers, a) \/ \E u \in Units : a \in Wired!Speakers(u) /\ l \in LinksAt(peers, u)
OneToOne(peers) ==
  /\ \A a, b : LinkTo(peers, a) = LinkTo(peers, b) => a = b
  /\ \A a : LinkTo(peers, a)[1] \in {"sender", "hitl"}

\* The largest of one number.
LEMMA OnlyMax == \A i \in Nat : Wired!Max({i}) = i
  BY DEF Wired!Max

\* An entry of a list that is the only one at its place in it is found there.
LEMMA OnlyEntry ==
  ASSUME NEW list, NEW S, list \in Seq(S), NEW I, NEW i \in DOMAIN list,
         I = {i}
  PROVE  list[Wired!Max(I)] = list[i]
  BY OnlyMax

\* What two lists become one after the other.
Joined(s, t, all) ==
  /\ \A i \in DOMAIN s : i \in DOMAIN all /\ all[i] = s[i]
  /\ \A i \in DOMAIN t : Len(s) + i \in DOMAIN all /\ all[Len(s) + i] = t[i]
LEMMA BothLists ==
  ASSUME NEW S, NEW T, NEW s \in Seq(S), NEW t \in Seq(T)
  PROVE  Joined(s, t, s \o t)
<1>1. s \in Seq(S \cup T) /\ t \in Seq(S \cup T)
  OBVIOUS
<1>2. Len(s) \in Nat /\ Len(t) \in Nat /\ DOMAIN s = 1 .. Len(s) /\ DOMAIN t = 1 .. Len(t)
  OBVIOUS
<1>3. Len(s \o t) = Len(s) + Len(t) /\ s \o t \in Seq(S \cup T)
  BY <1>1, ConcatProperties
<1>4. \A i \in 1 .. Len(s) + Len(t) :
        (s \o t)[i] = IF i <= Len(s) THEN s[i] ELSE t[i - Len(s)]
  BY <1>1, ConcatProperties
<1>5. DOMAIN (s \o t) = 1 .. Len(s) + Len(t)
  BY <1>3
<1>6. \A n, m \in Nat : \A i \in 1 .. n : i \in 1 .. n + m /\ i <= n
  OBVIOUS
<1>7. \A n, m \in Nat : \A i \in 1 .. m : n + i \in 1 .. n + m /\ ~(n + i <= n) /\ (n + i) - n = i
  OBVIOUS
<1>8. \A i \in DOMAIN s : i \in DOMAIN (s \o t) /\ (s \o t)[i] = s[i]
  BY <1>2, <1>4, <1>5, <1>6
<1>9. \A i \in DOMAIN t : Len(s) + i \in DOMAIN (s \o t) /\ (s \o t)[Len(s) + i] = t[i]
  BY <1>2, <1>4, <1>5, <1>7
<1>10. QED BY <1>8, <1>9 DEF Joined

\* What a sound configuration says of its two lists.
LEMMA SoundLists ==
  ASSUME Wired!WiringAssumption, cfg \in Configs, Wired!Sound
  PROVE  /\ cfg.senders \in Seq(Wired!Range(cfg.senders)) /\ cfg.peers \in Seq(Wired!Range(cfg.peers))
         /\ \A i, j \in DOMAIN cfg.peers : i # j => cfg.peers[i].addr # cfg.peers[j].addr
         /\ \A i \in DOMAIN cfg.senders, j \in DOMAIN cfg.peers :
              cfg.senders[i].addr # cfg.peers[j].addr
         /\ \A i, j \in DOMAIN cfg.senders : i # j => cfg.senders[i].addr # cfg.senders[j].addr
         /\ \A i, j \in DOMAIN cfg.peers :
              cfg.peers[i] # cfg.peers[j] => SafeName[cfg.peers[i].name] # SafeName[cfg.peers[j].name]
         /\ \A i \in DOMAIN cfg.senders, u \in Units :
              cfg.senders[i].ip = Host[u] => cfg.senders[i].addr = u
         /\ \A i \in DOMAIN cfg.peers, u \in Units :
              cfg.peers[i].ip = Host[u] => cfg.peers[i].addr = u
<1> DEFINE all == cfg.senders \o cfg.peers
<1>1. cfg.senders \in Seq(Wired!Range(cfg.senders)) /\ cfg.peers \in Seq(Wired!Range(cfg.peers))
  BY DEF Wired!WiringAssumption
<1> HIDE DEF all
<1>2. Joined(cfg.senders, cfg.peers, all)
  BY <1>1, BothLists, Zenon DEF all
<1>3. \A i, j \in DOMAIN all : i # j => all[i].addr # all[j].addr
  BY DEF all, Wired!Sound
<1>4. \A i \in DOMAIN all, u \in Units : all[i].ip = Host[u] => all[i].addr = u
  BY DEF all, Wired!Sound, Wired!Entries, Wired!Range
<1>5. \A p, q \in Wired!Entries(cfg.peers) : p # q => SafeName[p.name] # SafeName[q.name]
  BY DEF Wired!Sound
<1>6. \A i, j \in DOMAIN cfg.peers : i # j => cfg.peers[i].addr # cfg.peers[j].addr
  <2> SUFFICES ASSUME NEW i \in DOMAIN cfg.peers, NEW j \in DOMAIN cfg.peers, i # j
               PROVE  cfg.peers[i].addr # cfg.peers[j].addr
    OBVIOUS
  <2>1. i \in Nat /\ j \in Nat /\ Len(cfg.senders) \in Nat
    BY <1>1
  <2>2. Len(cfg.senders) + i # Len(cfg.senders) + j
    BY <2>1
  <2>3. QED BY <1>2, <1>3, <2>2 DEF Joined
<1>7. \A i \in DOMAIN cfg.senders, j \in DOMAIN cfg.peers :
        cfg.senders[i].addr # cfg.peers[j].addr
  <2> SUFFICES ASSUME NEW i \in DOMAIN cfg.senders, NEW j \in DOMAIN cfg.peers
               PROVE  cfg.senders[i].addr # cfg.peers[j].addr
    OBVIOUS
  <2>1. i \in 1 .. Len(cfg.senders) /\ j \in 1 .. Len(cfg.peers) /\ Len(cfg.senders) \in Nat
    BY <1>1
  <2>2. i # Len(cfg.senders) + j
    BY <2>1
  <2>3. QED BY <1>2, <1>3, <2>2 DEF Joined
<1>8. \A i, j \in DOMAIN cfg.peers :
        cfg.peers[i] # cfg.peers[j] => SafeName[cfg.peers[i].name] # SafeName[cfg.peers[j].name]
  BY <1>5 DEF Wired!Entries, Wired!Range
<1>9. \A i \in DOMAIN cfg.senders, u \in Units :
         cfg.senders[i].ip = Host[u] => cfg.senders[i].addr = u
  BY <1>2, <1>4 DEF Joined
<1>10. \A i \in DOMAIN cfg.peers, u \in Units :
         cfg.peers[i].ip = Host[u] => cfg.peers[i].addr = u
  BY <1>2, <1>4 DEF Joined
<1>11. \A i, j \in DOMAIN cfg.senders : i # j => cfg.senders[i].addr # cfg.senders[j].addr
  BY <1>2, <1>3 DEF Joined
<1>12. QED BY <1>1, <1>6, <1>7, <1>8, <1>9, <1>10, <1>11

\* The link of a peer is by the name it is listed with.
LEMMA PeerLink ==
  ASSUME Wired!WiringAssumption, cfg \in Configs, Wired!Sound
  PROVE  /\ DOMAIN Wired!PeerRoutes = {p.addr : p \in Wired!Entries(cfg.peers)}
         /\ \A i \in DOMAIN cfg.peers :
              Wired!PeerRoutes[cfg.peers[i].addr] = Wired!HitlRoute(cfg.peers[i].name)
<1>1. DOMAIN Wired!PeerRoutes = {p.addr : p \in Wired!Entries(cfg.peers)}
  BY DEF Wired!PeerRoutes
<1>2. ASSUME NEW i \in DOMAIN cfg.peers
      PROVE  Wired!PeerRoutes[cfg.peers[i].addr] = Wired!HitlRoute(cfg.peers[i].name)
  <2>1. Wired!PeersAt(cfg.peers[i].addr) = {i}
    BY SoundLists DEF Wired!PeersAt
  <2>2. cfg.peers[Wired!Max(Wired!PeersAt(cfg.peers[i].addr))] = cfg.peers[i]
    BY <2>1, SoundLists, OnlyEntry
  <2>3. cfg.peers[i].addr \in {p.addr : p \in Wired!Entries(cfg.peers)}
    BY DEF Wired!Entries, Wired!Range
  <2>4. QED BY <2>2, <2>3 DEF Wired!PeerRoutes
<1>3. QED BY <1>1, <1>2

\* No two addresses have one link.
LEMMA SoundOneToOne ==
  ASSUME Wired!WiringAssumption, cfg \in Configs, Wired!Sound
  PROVE  OneToOne(Wired!PeerRoutes)
<1>1. \A a \in DOMAIN Wired!PeerRoutes :
        \E i \in DOMAIN cfg.peers :
          a = cfg.peers[i].addr /\ Wired!PeerRoutes[a] = <<"hitl", SafeName[cfg.peers[i].name]>>
  <2> SUFFICES ASSUME NEW a \in DOMAIN Wired!PeerRoutes
               PROVE  \E i \in DOMAIN cfg.peers :
                        /\ a = cfg.peers[i].addr
                        /\ Wired!PeerRoutes[a] = <<"hitl", SafeName[cfg.peers[i].name]>>
    OBVIOUS
  <2>1. PICK i \in DOMAIN cfg.peers : a = cfg.peers[i].addr
    BY PeerLink DEF Wired!Entries, Wired!Range
  <2>2. Wired!PeerRoutes[a] = <<"hitl", SafeName[cfg.peers[i].name]>>
    BY <2>1, PeerLink DEF Wired!HitlRoute
  <2>3. QED BY <2>1, <2>2
<1>2. \A a, b \in DOMAIN Wired!PeerRoutes :
        Wired!PeerRoutes[a] = Wired!PeerRoutes[b] => a = b
  <2> SUFFICES ASSUME NEW a \in DOMAIN Wired!PeerRoutes, NEW b \in DOMAIN Wired!PeerRoutes,
                      Wired!PeerRoutes[a] = Wired!PeerRoutes[b]
               PROVE  a = b
    OBVIOUS
  <2>1. PICK i \in DOMAIN cfg.peers :
          a = cfg.peers[i].addr /\ Wired!PeerRoutes[a] = <<"hitl", SafeName[cfg.peers[i].name]>>
    BY <1>1
  <2>2. PICK j \in DOMAIN cfg.peers :
          b = cfg.peers[j].addr /\ Wired!PeerRoutes[b] = <<"hitl", SafeName[cfg.peers[j].name]>>
    BY <1>1
  <2>3. SafeName[cfg.peers[i].name] = SafeName[cfg.peers[j].name]
    BY <2>1, <2>2
  <2>4. QED BY <2>1, <2>2, <2>3, SoundLists
<1>3. \A a : LinkTo(Wired!PeerRoutes, a)[1] \in {"sender", "hitl"}
  BY <1>1 DEF LinkTo, Wired!SenderRoute
<1>4. \A a \in DOMAIN Wired!PeerRoutes : LinkTo(Wired!PeerRoutes, a)[1] = "hitl"
  BY <1>1 DEF LinkTo
<1>5. ASSUME NEW a, NEW b, LinkTo(Wired!PeerRoutes, a) = LinkTo(Wired!PeerRoutes, b)
      PROVE  a = b
  <2>1. CASE a \in DOMAIN Wired!PeerRoutes /\ b \in DOMAIN Wired!PeerRoutes
    BY <1>2, <1>5, <2>1 DEF LinkTo
  <2>2. CASE a \notin DOMAIN Wired!PeerRoutes /\ b \notin DOMAIN Wired!PeerRoutes
    <3>1. <<"sender", a>> = <<"sender", b>>
      BY <1>5, <2>2 DEF LinkTo, Wired!SenderRoute
    <3>2. QED BY <3>1
  <2>3. CASE ~(a \in DOMAIN Wired!PeerRoutes <=> b \in DOMAIN Wired!PeerRoutes)
    BY <1>4, <1>5, <2>3 DEF LinkTo, Wired!SenderRoute
  <2>4. QED BY <2>1, <2>2, <2>3
<1>6. QED BY <1>3, <1>5 DEF OneToOne

\* Whoever connects from a listed host has the link of the entry.
LEMMA SoundHosts ==
  ASSUME Wired!WiringAssumption, cfg \in Configs, Wired!Sound, NEW u \in Units
  PROVE  /\ Host[u] \in DOMAIN Wired!PeersByIp =>
              /\ u \in DOMAIN Wired!PeerRoutes
              /\ Wired!PeersByIp[Host[u]] = LinkTo(Wired!PeerRoutes, u)
         /\ Host[u] \in DOMAIN Wired!SendersByIp =>
              /\ u \in DOMAIN Wired!SenderRoutes
              /\ Wired!SendersByIp[Host[u]] = LinkTo(Wired!PeerRoutes, u)
<1>1. ASSUME Host[u] \in DOMAIN Wired!PeersByIp
      PROVE  /\ u \in DOMAIN Wired!PeerRoutes
             /\ Wired!PeersByIp[Host[u]] = LinkTo(Wired!PeerRoutes, u)
  <2>1. PICK i \in DOMAIN cfg.peers : cfg.peers[i].ip = Host[u]
    BY <1>1 DEF Wired!PeersByIp, Wired!Entries, Wired!Range
  <2>2. cfg.peers[i].addr = u
    BY <2>1, SoundLists
  <2>3. {k \in DOMAIN cfg.peers : cfg.peers[k].ip = Host[u]} = {i}
    BY <2>1, <2>2, SoundLists
  <2>4. Wired!Hosted(cfg.peers, Host[u]) = cfg.peers[i]
    BY <2>3, SoundLists, OnlyEntry DEF Wired!Hosted
  <2>5. Wired!PeersByIp[Host[u]] = Wired!PeerRoutes[u]
    BY <1>1, <2>2, <2>4 DEF Wired!PeersByIp
  <2>6. u \in DOMAIN Wired!PeerRoutes
    BY <2>2, PeerLink DEF Wired!Entries, Wired!Range
  <2>7. QED BY <2>5, <2>6 DEF LinkTo
<1>2. ASSUME Host[u] \in DOMAIN Wired!SendersByIp
      PROVE  /\ u \in DOMAIN Wired!SenderRoutes
             /\ Wired!SendersByIp[Host[u]] = LinkTo(Wired!PeerRoutes, u)
  <2>1. PICK i \in DOMAIN cfg.senders : cfg.senders[i].ip = Host[u]
    BY <1>2 DEF Wired!SendersByIp, Wired!Entries, Wired!Range
  <2>2. cfg.senders[i].addr = u
    BY <2>1, SoundLists
  <2>3. Wired!Hosted(cfg.senders, Host[u]).addr = u
    <3>1. \A k \in DOMAIN cfg.senders : cfg.senders[k].ip = Host[u] => k = i
      BY <2>1, <2>2, SoundLists
    <3>2. {k \in DOMAIN cfg.senders : cfg.senders[k].ip = Host[u]} = {i}
      BY <2>1, <3>1
    <3>3. QED BY <2>2, <3>2, SoundLists, OnlyEntry DEF Wired!Hosted
  <2>4. Wired!SendersByIp[Host[u]] = Wired!SenderRoute(u)
    BY <1>2, <2>3 DEF Wired!SendersByIp
  <2>5. u \in DOMAIN Wired!SenderRoutes
    BY <2>2 DEF Wired!SenderRoutes, Wired!Entries, Wired!Range
  <2>6. u \notin DOMAIN Wired!PeerRoutes
    BY <2>2, PeerLink, SoundLists DEF Wired!Entries, Wired!Range
  <2>7. QED BY <2>4, <2>5, <2>6 DEF LinkTo
<1>3. QED BY <1>1, <1>2

\* The inductive invariant.  Types, and nothing happens before the tables are built.
WiringShape ==
  /\ cfg \in Configs
  /\ conn = [u \in Units |-> conn[u]]
  /\ learned = [a \in Wired!Addrs |-> learned[a]]
  /\ spoke \subseteq Units
  /\ phase # "running" => spoke = {} /\ \A u \in Units : conn[u] = None

\* Connections and tables hold the links of those they are for.
LinksOwned(peers) ==
  /\ \A u \in Units : conn[u] \in {None, Wired!Waits} \cup LinksAt(peers, u)
  /\ \A a \in DOMAIN linkOf : linkOf[a] = LinkTo(peers, a)
  /\ \A u \in Units :
       Host[u] \in DOMAIN byIp => u \in DOMAIN linkOf /\ byIp[Host[u]] = LinkTo(peers, u)

\* Whatever says where a frame goes leads to somebody who speaks for its
\* destination, or to a serial link.
RoutesLead(peers) ==
  /\ \A a \in Wired!Addrs : learned[a] # None => Leads(peers, learned[a], a)
  /\ \A a \in DOMAIN routes :
       Leads(peers, routes[a], a) \/ \E f \in DOMAIN Static : routes[a] = Static[f]
  /\ \A q \in queue :
       /\ q[1] # None
       /\ Leads(peers, q[1], q[2]) \/ \E f \in DOMAIN Static : q[1] = Static[f]

\* Whoever is no Sender has a link only when it is listed, and then its route.
PeersListed(peers) ==
  /\ phase = "running" => DOMAIN peers \subseteq DOMAIN linkOf
  /\ \A a \in DOMAIN linkOf \ SenderAddrs : a \in DOMAIN routes /\ routes[a] = LinkTo(peers, a)
  /\ \A u \in Units \ SenderAddrs : conn[u] \notin {None, Wired!Waits} => u \in DOMAIN linkOf

\* Whoever was heard has the route, and what is learned of it agrees.
HeardRouted ==
  \A u \in spoke :
    /\ conn[u] # Wired!Waits
    /\ u \in DOMAIN routes /\ routes[u] = conn[u]
    /\ learned[u] \in {None, conn[u]}

Tied(peers) ==
  /\ WiringShape
  /\ LinksOwned(peers) /\ RoutesLead(peers) /\ PeersListed(peers) /\ HeardRouted

WiringInv == cfg \in Configs /\ (Wired!Sound => Tied(Wired!PeerRoutes))

\* Nobody speaks for two units.
LEMMA OneSpeaker ==
  ASSUME Wired!WiringAssumption
  PROVE  \A u, v \in Units : \A a \in Wired!Speakers(u) \cap Wired!Speakers(v) : u = v
  BY DEF Wired!WiringAssumption, Wired!Speakers

\* Speakers have addresses, and a unit that is no Sender speaks for itself only.
LEMMA SpeakerFacts ==
  ASSUME Wired!WiringAssumption, NEW u \in Units
  PROVE  /\ Wired!Speakers(u) \subseteq Wired!Addrs
         /\ u \in Wired!Speakers(u)
         /\ u \notin SenderAddrs => Wired!Speakers(u) = {u}
  BY DEF Wired!WiringAssumption, Wired!Speakers, Wired!Addrs

\* A link of a unit is neither no link nor that of another.
LEMMA OwnLinks ==
  ASSUME Wired!WiringAssumption, NEW peers, OneToOne(peers), NEW u \in Units
  PROVE  /\ \A v \in Units : \A l \in LinksAt(peers, u) \cap LinksAt(peers, v) : u = v
         /\ Wired!Waits \notin LinksAt(peers, u)
         /\ \A f \in DOMAIN Static : Static[f] \notin LinksAt(peers, u)
<1>1. ASSUME NEW v \in Units, NEW l \in LinksAt(peers, u) \cap LinksAt(peers, v)
      PROVE  u = v
  <2>1. PICK a \in Wired!Speakers(u) : l = LinkTo(peers, a)
    BY <1>1 DEF LinksAt
  <2>2. PICK b \in Wired!Speakers(v) : l = LinkTo(peers, b)
    BY <1>1 DEF LinksAt
  <2>3. a = b
    BY <2>1, <2>2 DEF OneToOne
  <2>4. QED BY <2>3, OneSpeaker
<1>2. \A l \in LinksAt(peers, u) : l[1] \in {"sender", "hitl"}
  BY DEF LinksAt, OneToOne
<1>3. Wired!Waits[1] = "first frame"
  BY DEF Wired!Waits
<1>4. \A f \in DOMAIN Static : Static[f][1] \notin {"sender", "hitl"}
  BY DEF Wired!WiringAssumption
<1>5. QED BY <1>1, <1>2, <1>3, <1>4

\* A link that leads to an address and is a unit's is that of a unit that speaks for it.
LEMMA LeadsToSpeaker ==
  ASSUME Wired!WiringAssumption, NEW peers, OneToOne(peers), NEW u \in Units,
         NEW a, NEW l \in LinksAt(peers, u), Leads(peers, l, a)
  PROVE  a \in Wired!Speakers(u)
<1>1. PICK b \in Wired!Speakers(u) : l = LinkTo(peers, b)
  BY DEF LinksAt
<1>2. CASE l = LinkTo(peers, a)
  BY <1>1, <1>2 DEF OneToOne
<1>3. CASE \E v \in Units : a \in Wired!Speakers(v) /\ l \in LinksAt(peers, v)
  BY <1>3, OwnLinks
<1>4. QED BY <1>2, <1>3 DEF Leads

\* The invariant says of frames and replies what it is for.
LEMMA TiedRight ==
  ASSUME Wired!WiringAssumption, NEW peers, OneToOne(peers), Tied(peers)
  PROVE  /\ \A u \in spoke : Wired!LinkFor(u) = conn[u]
         /\ \A u \in Units, q \in queue : q[1] = conn[u] => q[2] \in Wired!Speakers(u)
<1>1. \A u \in spoke : Wired!LinkFor(u) = conn[u]
  BY DEF Tied, HeardRouted, Wired!LinkFor
<1>2. ASSUME NEW u \in Units, NEW q \in queue, q[1] = conn[u]
      PROVE  q[2] \in Wired!Speakers(u)
  <2>1. q[1] # None /\ (Leads(peers, q[1], q[2]) \/ \E f \in DOMAIN Static : q[1] = Static[f])
    BY DEF Tied, RoutesLead
  <2>2. q[1] \in {Wired!Waits} \cup LinksAt(peers, u)
    BY <1>2, <2>1 DEF Tied, LinksOwned
  <2>3. q[1] # Wired!Waits
    <3>1. \A a : LinkTo(peers, a)[1] \in {"sender", "hitl"}
      BY DEF OneToOne
    <3>2. Wired!Waits[1] = "first frame" /\ \A f \in DOMAIN Static : Static[f][1] # "first frame"
      BY DEF Wired!Waits, Wired!WiringAssumption
    <3>3. \A v \in Units : Wired!Waits \notin LinksAt(peers, v)
      BY OwnLinks
    <3>4. QED BY <2>1, <3>1, <3>2, <3>3 DEF Leads
  <2>4. q[1] \in LinksAt(peers, u)
    BY <2>2, <2>3
  <2>5. Leads(peers, q[1], q[2])
    BY <2>1, <2>4, OwnLinks
  <2>6. QED BY <2>4, <2>5, LeadsToSpeaker
<1>3. QED BY <1>1, <1>2

\* A frame heard over a link of its unit teaches routes that lead there, and
\* changes only those of its source.
LEMMA HeardRight ==
  ASSUME Wired!WiringAssumption, NEW peers, OneToOne(peers), WiringShape,
         RoutesLead(peers), UNCHANGED queue,
         NEW u \in Units, NEW a \in Wired!Speakers(u), NEW l \in LinksAt(peers, u),
         Wired!Hears(u, a, l, routes)
  PROVE  /\ RoutesLead(peers)'
         /\ learned' = [b \in Wired!Addrs |-> learned'[b]]
         /\ learned'[a] = l /\ \A b \in Wired!Addrs \ {a} : learned'[b] = learned[b]
         /\ DOMAIN routes \subseteq DOMAIN routes'
         /\ \A b \in DOMAIN routes : b # a \/ a \notin SenderAddrs => routes'[b] = routes[b]
         /\ a \in SenderAddrs => a \in DOMAIN routes' /\ routes'[a] = l
<1>1. a \in Wired!Addrs
  BY SpeakerFacts
<1>2. learned' = [learned EXCEPT ![a] = l]
  BY DEF Wired!Hears
<1>3. learned' = [b \in Wired!Addrs |-> learned'[b]] /\ learned'[a] = l
      /\ \A b \in Wired!Addrs \ {a} : learned'[b] = learned[b]
  BY <1>1, <1>2 DEF WiringShape
<1>4. Leads(peers, l, a)
  BY DEF Leads
<1>5. \/ a \in SenderAddrs /\ routes' = [k \in DOMAIN routes \cup {a} |-> IF k = a THEN l ELSE routes[k]]
      \/ a \notin SenderAddrs /\ routes' = routes
  BY DEF Wired!Hears, Wired!Put
<1>6. /\ DOMAIN routes \subseteq DOMAIN routes'
      /\ \A b \in DOMAIN routes : b # a \/ a \notin SenderAddrs => routes'[b] = routes[b]
      /\ a \in SenderAddrs => a \in DOMAIN routes' /\ routes'[a] = l
      /\ \A b \in DOMAIN routes' :
           \/ b \in DOMAIN routes /\ routes'[b] = routes[b]
           \/ b = a /\ routes'[b] = l
  <2>1. CASE a \in SenderAddrs
    BY <1>5, <2>1
  <2>2. CASE a \notin SenderAddrs
    BY <1>5, <2>2
  <2>3. QED BY <2>1, <2>2
<1>7. \A b \in Wired!Addrs : learned'[b] # None => Leads(peers, learned'[b], b)
  BY <1>3, <1>4 DEF RoutesLead
<1>8. \A b \in DOMAIN routes' :
        Leads(peers, routes'[b], b) \/ \E f \in DOMAIN Static : routes'[b] = Static[f]
  BY <1>4, <1>6 DEF RoutesLead
<1>9. RoutesLead(peers)'
  BY <1>7, <1>8 DEF RoutesLead
<1>10. QED BY <1>3, <1>6, <1>9

\* What is tied stays tied when a unit is heard on a link of its own, over a
\* connection that had one or had none yet.
LEMMA HeardTied ==
  ASSUME Wired!WiringAssumption, NEW peers, OneToOne(peers), Tied(peers),
         NEW u \in Units, NEW a \in Wired!Speakers(u), NEW l \in LinksAt(peers, u),
         Wired!Hears(u, a, l, routes), UNCHANGED <<cfg, phase, byIp, queue>>,
         phase = "running",
         conn[u] = l \/ conn[u] = Wired!Waits,
         conn' = [conn EXCEPT ![u] = l],
         DOMAIN linkOf \subseteq DOMAIN linkOf',
         \A b \in DOMAIN linkOf' : linkOf'[b] = LinkTo(peers, b),
         DOMAIN linkOf' \subseteq DOMAIN linkOf \cup SenderAddrs,
         u \notin SenderAddrs => u \in DOMAIN linkOf /\ l = LinkTo(peers, u)
  PROVE  Tied(peers)'
<1>1. /\ RoutesLead(peers)'
      /\ learned' = [b \in Wired!Addrs |-> learned'[b]]
      /\ learned'[a] = l /\ \A b \in Wired!Addrs \ {a} : learned'[b] = learned[b]
      /\ DOMAIN routes \subseteq DOMAIN routes'
      /\ \A b \in DOMAIN routes : b # a \/ a \notin SenderAddrs => routes'[b] = routes[b]
      /\ a \in SenderAddrs => a \in DOMAIN routes' /\ routes'[a] = l
  BY HeardRight DEF Tied
<1>2. /\ conn' = [v \in Units |-> conn'[v]]
      /\ conn'[u] = l /\ \A v \in Units \ {u} : conn'[v] = conn[v]
  BY DEF Tied, WiringShape
<1>3. spoke' = IF a = u THEN spoke \cup {u} ELSE spoke
  BY DEF Wired!Hears
<1>4. WiringShape'
  BY <1>1, <1>2, <1>3 DEF Tied, WiringShape
<1>5. LinksOwned(peers)'
  BY <1>2 DEF Tied, LinksOwned
<1>6. PeersListed(peers)'
  <2>1. \A b \in DOMAIN linkOf' \ SenderAddrs : b \in DOMAIN routes' /\ routes'[b] = LinkTo(peers, b)
    BY <1>1 DEF Tied, PeersListed
  <2>2. \A v \in Units \ SenderAddrs :
          conn'[v] \notin {None, Wired!Waits} => v \in DOMAIN linkOf'
    BY <1>2 DEF Tied, PeersListed
  <2>3. DOMAIN peers \subseteq DOMAIN linkOf'
    BY DEF Tied, PeersListed
  <2>4. QED BY <2>1, <2>2, <2>3 DEF PeersListed
<1>7. HeardRouted'
  <2> SUFFICES ASSUME NEW v \in spoke'
               PROVE  /\ conn'[v] # Wired!Waits
                      /\ v \in DOMAIN routes' /\ routes'[v] = conn'[v]
                      /\ learned'[v] \in {None, conn'[v]}
    BY DEF HeardRouted
  <2>1. v \in Units /\ v \in Wired!Addrs
    BY <1>3 DEF Tied, WiringShape, Wired!Addrs
  <2>2. CASE v # u
    <3>1. v # a
      BY <2>1, <2>2, OneSpeaker, SpeakerFacts
    <3>2. v \in spoke
      BY <1>3, <2>2
    <3>3. QED BY <1>1, <1>2, <2>1, <2>2, <3>1, <3>2 DEF Tied, HeardRouted
  <2>3. CASE v = u /\ a # u
    <3>1. u \in spoke /\ conn[u] = l
      BY <1>3, <2>3 DEF Tied, HeardRouted
    <3>2. QED BY <1>1, <1>2, <2>1, <2>3, <3>1 DEF Tied, HeardRouted
  <2>4. CASE v = u /\ a = u
    <3>1. conn'[u] # Wired!Waits
      BY <1>2, OwnLinks
    <3>2. u \in DOMAIN routes' /\ routes'[u] = l
      <4>1. CASE u \in SenderAddrs
        BY <1>1, <2>4, <4>1
      <4>2. CASE u \notin SenderAddrs
        BY <1>1, <2>4, <4>2 DEF Tied, PeersListed
      <4>3. QED BY <4>1, <4>2
    <3>3. QED BY <1>1, <1>2, <2>4, <3>1, <3>2
  <2>5. QED BY <2>2, <2>3, <2>4
<1>8. QED BY <1>1, <1>4, <1>5, <1>6, <1>7 DEF Tied

\* The first frame of a connection, which names it or closes it.
LEMMA FirstFrameTied ==
  ASSUME Wired!WiringAssumption, NEW peers, OneToOne(peers), Tied(peers),
         NEW u \in Units, NEW a, Wired!FirstFrame(u, a)
  PROVE  Tied(peers)'
<1>1. conn[u] = Wired!Waits /\ a \in Wired!Speakers(u) /\ UNCHANGED <<cfg, phase, byIp, queue>>
  BY DEF Wired!FirstFrame
<1>2. phase = "running"
  BY <1>1 DEF Tied, WiringShape, Wired!Waits, Wired!WiringAssumption
<1>3. u \notin SenderAddrs => a = u
  BY <1>1, SpeakerFacts
<1>4. LinkTo(peers, a) \in LinksAt(peers, u)
  BY <1>1 DEF LinksAt
<1>5. CASE /\ a \in DOMAIN linkOf
           /\ conn' = [conn EXCEPT ![u] = linkOf[a]]
           /\ Wired!Hears(u, a, linkOf[a], routes)
           /\ UNCHANGED linkOf
  <2>1. linkOf[a] = LinkTo(peers, a)
    BY <1>5 DEF Tied, LinksOwned
  <2>2. \A b \in DOMAIN linkOf' : linkOf'[b] = LinkTo(peers, b)
    BY <1>5 DEF Tied, LinksOwned
  <2>3. QED BY <1>1, <1>2, <1>3, <1>4, <1>5, <2>1, <2>2, HeardTied
<1>6. CASE /\ a \notin DOMAIN linkOf /\ a \in SenderAddrs
           /\ conn' = [conn EXCEPT ![u] = Wired!SenderRoute(a)]
           /\ linkOf' = Wired!Put(linkOf, a, Wired!SenderRoute(a))
           /\ Wired!Hears(u, a, Wired!SenderRoute(a), routes)
  <2>1. Wired!SenderRoute(a) = LinkTo(peers, a)
    BY <1>2, <1>6 DEF Tied, PeersListed, LinkTo
  <2>2. /\ DOMAIN linkOf' = DOMAIN linkOf \cup {a}
        /\ \A b \in DOMAIN linkOf' : linkOf'[b] = LinkTo(peers, b)
    BY <1>6, <2>1 DEF Tied, LinksOwned, Wired!Put
  <2>3. u \in SenderAddrs
    BY <1>3, <1>6
  <2>4. DOMAIN linkOf \subseteq DOMAIN linkOf' /\ DOMAIN linkOf' \subseteq DOMAIN linkOf \cup SenderAddrs
    BY <1>6, <2>2
  <2>5. QED BY <1>1, <1>2, <1>4, <1>6, <2>1, <2>2, <2>3, <2>4, HeardTied
<1>7. CASE /\ conn' = [conn EXCEPT ![u] = None]
           /\ UNCHANGED <<routes, linkOf, learned, spoke>>
  <2>1. conn' = [v \in Units |-> conn'[v]] /\ conn'[u] = None
        /\ \A v \in Units \ {u} : conn'[v] = conn[v]
    BY <1>7 DEF Tied, WiringShape
  <2>2. u \notin spoke
    BY <1>1 DEF Tied, HeardRouted
  <2>3. WiringShape'
    BY <1>1, <1>2, <1>7, <2>1 DEF Tied, WiringShape
  <2>4. LinksOwned(peers)' /\ PeersListed(peers)'
    BY <1>1, <1>7, <2>1 DEF Tied, LinksOwned, PeersListed
  <2>5. RoutesLead(peers)'
    BY <1>1, <1>7 DEF Tied, RoutesLead
  <2>6. HeardRouted'
    BY <1>7, <2>1, <2>2 DEF Tied, WiringShape, HeardRouted
  <2>7. QED BY <2>3, <2>4, <2>5, <2>6 DEF Tied
<1>8. QED BY <1>5, <1>6, <1>7 DEF Wired!FirstFrame, Wired!tableVars

\* A later frame of a connection, on the link it has.
LEMMA FrameTied ==
  ASSUME Wired!WiringAssumption, NEW peers, OneToOne(peers), Tied(peers),
         NEW u \in Units, NEW a, Wired!Frame(u, a)
  PROVE  Tied(peers)'
<1>1. /\ conn[u] \notin {None, Wired!Waits} /\ a \in Wired!Speakers(u)
      /\ Wired!Hears(u, a, conn[u], routes)
      /\ UNCHANGED <<cfg, phase, linkOf, byIp, conn, queue>>
  BY DEF Wired!Frame
<1>2. conn[u] \in LinksAt(peers, u)
  BY <1>1 DEF Tied, LinksOwned
<1>3. phase = "running"
  BY <1>1 DEF Tied, WiringShape
<1>4. conn' = [conn EXCEPT ![u] = conn[u]]
  BY <1>1 DEF Tied, WiringShape
<1>5. u \notin SenderAddrs => u \in DOMAIN linkOf /\ conn[u] = LinkTo(peers, u)
  BY <1>1, <1>2, SpeakerFacts DEF Tied, PeersListed, LinksAt
<1>6. \A b \in DOMAIN linkOf' : linkOf'[b] = LinkTo(peers, b)
  BY <1>1 DEF Tied, LinksOwned
<1>7. QED BY <1>1, <1>2, <1>3, <1>4, <1>5, <1>6, HeardTied

\* The tables that run builds are tied.
LEMMA StartTied ==
  ASSUME Wired!WiringAssumption, NEW peers, peers = Wired!PeerRoutes, Wired!Sound,
         OneToOne(peers), Tied(peers), Wired!Start
  PROVE  Tied(peers)'
<1>1. phase = "loaded" /\ UNCHANGED <<cfg, conn, learned, queue, spoke>>
  BY DEF Wired!Start
<1>2. cfg \in Configs /\ spoke = {} /\ \A u \in Units : conn[u] = None
  BY <1>1 DEF Tied, WiringShape
<1>3. CASE phase' = "failed" /\ UNCHANGED <<routes, linkOf, byIp>>
  <2>1. WiringShape'
    BY <1>1, <1>2, <1>3 DEF Tied, WiringShape
  <2>2. QED
    BY <1>1, <1>2, <1>3, <2>1 DEF Tied, LinksOwned, RoutesLead, PeersListed, HeardRouted
<1>4. CASE Wired!SendersLinked /\ phase' = "running"
           /\ linkOf' = Wired!Updated(Wired!SenderRoutes, Wired!PeerRoutes)
           /\ routes' = Wired!Updated(Static, linkOf')
           /\ byIp' = Wired!Updated(Wired!SendersByIp, Wired!PeersByIp)
  <2>1. \A a \in DOMAIN Wired!SenderRoutes :
          a \in SenderAddrs /\ Wired!SenderRoutes[a] = Wired!SenderRoute(a)
    BY <1>4 DEF Wired!SenderRoutes, Wired!SendersLinked
  <2>2. /\ DOMAIN linkOf' = DOMAIN peers \cup DOMAIN Wired!SenderRoutes
        /\ \A a \in DOMAIN linkOf' : linkOf'[a] = LinkTo(peers, a)
    BY <1>4, <2>1 DEF Wired!Updated, LinkTo
  <2>3. /\ DOMAIN routes' = DOMAIN linkOf' \cup DOMAIN Static
        /\ \A a \in DOMAIN linkOf' : routes'[a] = LinkTo(peers, a)
        /\ \A a \in DOMAIN routes' \ DOMAIN linkOf' : routes'[a] = Static[a]
    BY <1>4, <2>2 DEF Wired!Updated
  <2>4. \A u \in Units :
          Host[u] \in DOMAIN byIp' => u \in DOMAIN linkOf' /\ byIp'[Host[u]] = LinkTo(peers, u)
    <3>1. \A ip \in DOMAIN byIp' :
            \/ ip \in DOMAIN Wired!PeersByIp /\ byIp'[ip] = Wired!PeersByIp[ip]
            \/ ip \in DOMAIN Wired!SendersByIp /\ byIp'[ip] = Wired!SendersByIp[ip]
      BY <1>4 DEF Wired!Updated
    <3>2. QED BY <1>2, <2>2, <3>1, SoundHosts
  <2>5. WiringShape'
    BY <1>1, <1>2, <1>4 DEF Tied, WiringShape
  <2>6. LinksOwned(peers)'
    BY <1>1, <1>2, <2>2, <2>4 DEF LinksOwned
  <2>7. RoutesLead(peers)'
    <3>1. \A a \in DOMAIN routes' :
            Leads(peers, routes'[a], a) \/ \E f \in DOMAIN Static : routes'[a] = Static[f]
      BY <2>3 DEF Leads
    <3>2. QED BY <1>1, <3>1 DEF Tied, RoutesLead
  <2>8. PeersListed(peers)'
    BY <1>1, <1>2, <2>1, <2>2, <2>3 DEF PeersListed
  <2>9. QED BY <1>1, <1>2, <2>5, <2>6, <2>7, <2>8 DEF Tied, HeardRouted
<1>5. QED
  BY <1>3, <1>4 DEF Wired!Start, Wired!tableVars

\* A connection, from a listed host or not.
LEMMA ConnectTied ==
  ASSUME Wired!WiringAssumption, NEW peers, OneToOne(peers), Tied(peers),
         NEW u \in Units, Wired!Connect(u)
  PROVE  Tied(peers)'
<1>1. /\ phase = "running" /\ spoke' = spoke \ {u}
      /\ UNCHANGED <<cfg, phase, routes, linkOf, byIp, learned, queue>>
  BY DEF Wired!Connect, Wired!tableVars
<1>2. PICK l : /\ l = IF Host[u] \in DOMAIN byIp THEN byIp[Host[u]] ELSE Wired!Waits
               /\ conn' = [conn EXCEPT ![u] = l]
  BY DEF Wired!Connect
<1>3. conn' = [v \in Units |-> conn'[v]] /\ conn'[u] = l
      /\ \A v \in Units \ {u} : conn'[v] = conn[v]
  BY <1>2 DEF Tied, WiringShape
<1>4. \/ l = Wired!Waits
      \/ u \in DOMAIN linkOf /\ l = LinkTo(peers, u)
  BY <1>2 DEF Tied, LinksOwned
<1>5. l \in {Wired!Waits} \cup LinksAt(peers, u)
  BY <1>4, SpeakerFacts DEF LinksAt
<1>6. WiringShape'
  BY <1>1, <1>3 DEF Tied, WiringShape
<1>7. LinksOwned(peers)' /\ PeersListed(peers)'
  BY <1>1, <1>3, <1>4, <1>5 DEF Tied, LinksOwned, PeersListed
<1>8. RoutesLead(peers)'
  BY <1>1 DEF Tied, RoutesLead
<1>9. HeardRouted'
  BY <1>1, <1>3 DEF Tied, WiringShape, HeardRouted
<1>10. QED BY <1>6, <1>7, <1>8, <1>9 DEF Tied

\* A connection that breaks.
LEMMA DropTied ==
  ASSUME NEW peers, Tied(peers), NEW u \in Units, Wired!Drop(u)
  PROVE  Tied(peers)'
<1>1. /\ spoke' = spoke \ {u} /\ UNCHANGED <<cfg, phase, routes, linkOf, byIp, learned, queue>>
      /\ conn' = [conn EXCEPT ![u] = None]
  BY DEF Wired!Drop, Wired!tableVars
<1>2. conn' = [v \in Units |-> conn'[v]] /\ conn'[u] = None
      /\ \A v \in Units \ {u} : conn'[v] = conn[v]
  BY <1>1 DEF Tied, WiringShape
<1>3. WiringShape'
  BY <1>1, <1>2 DEF Tied, WiringShape
<1>4. LinksOwned(peers)' /\ PeersListed(peers)'
  BY <1>1, <1>2 DEF Tied, LinksOwned, PeersListed
<1>5. RoutesLead(peers)'
  BY <1>1 DEF Tied, RoutesLead
<1>6. HeardRouted'
  BY <1>1, <1>2 DEF Tied, WiringShape, HeardRouted
<1>7. QED BY <1>3, <1>4, <1>5, <1>6 DEF Tied

\* A learned route that has grown old, and frames queued and taken.
LEMMA ForgetTied ==
  ASSUME NEW peers, Tied(peers), NEW a \in Wired!Addrs, Wired!Forget(a)
  PROVE  Tied(peers)'
<1>1. /\ learned' = [learned EXCEPT ![a] = None]
      /\ UNCHANGED <<cfg, phase, routes, linkOf, byIp, conn, queue, spoke>>
  BY DEF Wired!Forget, Wired!tableVars
<1>2. learned' = [b \in Wired!Addrs |-> learned'[b]]
      /\ \A b \in Wired!Addrs : learned'[b] \in {None, learned[b]}
  BY <1>1 DEF Tied, WiringShape
<1>3. WiringShape' /\ LinksOwned(peers)' /\ PeersListed(peers)'
  BY <1>1, <1>2 DEF Tied, WiringShape, LinksOwned, PeersListed
<1>4. RoutesLead(peers)'
  BY <1>1, <1>2 DEF Tied, RoutesLead
<1>5. HeardRouted'
  BY <1>1, <1>2 DEF Tied, WiringShape, HeardRouted, Wired!Addrs
<1>6. QED BY <1>3, <1>4, <1>5 DEF Tied

LEMMA QueueTied ==
  ASSUME NEW peers, Tied(peers), UNCHANGED <<cfg, phase, routes, linkOf, byIp, conn, learned, spoke>>,
         \A q \in queue' \ queue :
           /\ q[1] # None
           /\ Leads(peers, q[1], q[2]) \/ \E f \in DOMAIN Static : q[1] = Static[f]
  PROVE  Tied(peers)'
<1>1. WiringShape' /\ LinksOwned(peers)' /\ PeersListed(peers)' /\ HeardRouted'
  BY DEF Tied, WiringShape, LinksOwned, PeersListed, HeardRouted
<1>2. RoutesLead(peers)'
  BY DEF Tied, RoutesLead
<1>3. QED BY <1>1, <1>2 DEF Tied

\* Every step keeps them tied.
LEMMA TiedNext ==
  ASSUME Wired!WiringAssumption, NEW peers, peers = Wired!PeerRoutes, Wired!Sound,
         OneToOne(peers), Tied(peers), [Wired!Next]_(Wired!wiringVars)
  PROVE  Tied(peers)'
<1>1. CASE Wired!Start
  BY <1>1, StartTied
<1>2. ASSUME NEW u \in Units, Wired!Connect(u) \/ Wired!Drop(u)
      PROVE  Tied(peers)'
  BY <1>2, ConnectTied, DropTied
<1>3. ASSUME NEW u \in Units, NEW a \in Wired!Addrs,
             Wired!FirstFrame(u, a) \/ Wired!Frame(u, a)
      PROVE  Tied(peers)'
  BY <1>3, FirstFrameTied, FrameTied
<1>4. ASSUME NEW u \in Units, NEW a \in Wired!Addrs, Wired!Take(u, a)
      PROVE  Tied(peers)'
  BY <1>4, QueueTied DEF Wired!Take, Wired!tableVars
<1>5. ASSUME NEW a \in Wired!Addrs, Wired!Forget(a)
      PROVE  Tied(peers)'
  BY <1>5, ForgetTied
<1>6. ASSUME NEW a \in Wired!Addrs, Wired!Send(a)
      PROVE  Tied(peers)'
  <2>1. PICK l : l = Wired!LinkFor(a)
    OBVIOUS
  <2>2. /\ l # None /\ queue' = queue \cup {<<l, a>>}
        /\ UNCHANGED <<cfg, phase, routes, linkOf, byIp, conn, learned, spoke>>
    BY <1>6, <2>1 DEF Wired!Send, Wired!tableVars
  <2>3. Leads(peers, l, a) \/ \E f \in DOMAIN Static : l = Static[f]
    BY <2>1, <2>2 DEF Tied, RoutesLead, Wired!LinkFor
  <2>4. QED BY <2>2, <2>3, QueueTied
<1>7. CASE UNCHANGED Wired!wiringVars
  BY <1>7, QueueTied DEF Wired!wiringVars, Wired!tableVars
<1>8. QED
  BY <1>1, <1>2, <1>3, <1>4, <1>5, <1>6, <1>7 DEF Wired!Next

LEMMA WiringInvNext ==
  ASSUME Wired!WiringAssumption, WiringInv, [Wired!Next]_(Wired!wiringVars)
  PROVE  WiringInv'
<1>1. cfg' = cfg
  BY DEF Wired!Next, Wired!Start, Wired!Connect, Wired!Drop, Wired!FirstFrame, Wired!Frame,
         Wired!Take, Wired!Forget, Wired!Send, Wired!wiringVars
<1>2. Wired!PeerRoutes' = Wired!PeerRoutes /\ (Wired!Sound' <=> Wired!Sound)
  BY <1>1 DEF Wired!PeerRoutes, Wired!PeersAt, Wired!Sound
<1>3. ASSUME Wired!Sound PROVE Tied(Wired!PeerRoutes)'
  <2>1. PICK peers : peers = Wired!PeerRoutes
    OBVIOUS
  <2>2. OneToOne(peers)
    BY <1>3, <2>1, SoundOneToOne DEF WiringInv
  <2>3. Tied(peers)
    BY <1>3, <2>1 DEF WiringInv
  <2>4. Tied(peers)'
    BY <1>3, <2>1, <2>2, <2>3, TiedNext
  <2>5. Wired!PeerRoutes' = peers
    BY <1>2, <2>1
  <2>6. QED
    BY <2>4, <2>5 DEF Tied, LinksOwned, RoutesLead, PeersListed
<1>4. cfg' \in Configs
  BY <1>1 DEF WiringInv
<1>5. QED BY <1>2, <1>3, <1>4 DEF WiringInv

\* The configuration is loaded, and no table built.
LEMMA WiringInvInit == Wired!Init => WiringInv
<1> SUFFICES ASSUME Wired!Init PROVE WiringInv
  OBVIOUS
<1>1. /\ cfg \in Configs /\ phase = "loaded" /\ routes = Static
      /\ DOMAIN linkOf = {} /\ DOMAIN byIp = {}
      /\ conn = [u \in Units |-> None] /\ learned = [a \in Wired!Addrs |-> None]
      /\ queue = {} /\ spoke = {}
  BY DEF Wired!Init, Wired!EmptyTable
<1>2. ASSUME NEW peers PROVE Tied(peers)
  <2>1. \A u \in Units : conn[u] = None
    BY <1>1
  <2>2. WiringShape /\ HeardRouted
    BY <1>1, <2>1 DEF WiringShape, HeardRouted
  <2>3. LinksOwned(peers) /\ PeersListed(peers)
    BY <1>1, <2>1 DEF LinksOwned, PeersListed
  <2>4. RoutesLead(peers)
    BY <1>1 DEF RoutesLead
  <2>5. QED BY <2>2, <2>3, <2>4 DEF Tied
<1>3. QED BY <1>1, <1>2 DEF WiringInv

\* With any sound configuration no two units share a link, whatever is connected,
\* dropped, discovered, forgotten and sent, and whoever was heard is answered
\* over the connection it has.
THEOREM LinksCorrect ==
  ASSUME Wired!WiringAssumption
  PROVE  Wired!WiringSpec => []UnitsKeepLinks
<1>1. WiringInv => UnitsKeepLinks
  <2> SUFFICES ASSUME WiringInv, Wired!Sound PROVE Wired!LinksRight
    BY DEF UnitsKeepLinks, Wired!LinksRight, Wired!RepliesFollow, Wired!OwnFramesOnly
  <2>1. PICK peers : peers = Wired!PeerRoutes
    OBVIOUS
  <2>2. OneToOne(peers) /\ Tied(peers)
    BY <2>1, SoundOneToOne DEF WiringInv
  <2>3. QED
    BY <2>2, TiedRight DEF Wired!LinksRight, Wired!RepliesFollow, Wired!OwnFramesOnly
<1>2. WiringInv /\ [Wired!Next]_(Wired!wiringVars) => WiringInv'
  BY WiringInvNext
<1>3. QED BY <1>1, <1>2, WiringInvInit, PTL DEF Wired!WiringSpec

-----------------------------------------------------------------------------
(* The status report.  A payload is taken apart where it was put together: *)
(* Spelt, Spells and Written relate bytes to the sender, the senders and   *)
(* the report they are read as.  What is written is read (..Taken,         *)
(* WrittenRead), what is read was written (..Met, ReadWritten), and all    *)
(* that is written of one report is alike (Like).                          *)


\* What the decoder has left to read, and what it has taken.
At(r, g) == [ok |-> TRUE, rest |-> r, got |-> g]
Bytes == Seq(Codec!Byte)

\* Bytes joined are bytes, from either end.
LEMMA JoinBytes ==
  ASSUME NEW a \in Bytes, NEW b \in Bytes
  PROVE  a \o b \in Bytes
BY JoinFacts DEF Bytes

LEMMA Regrouped ==
  ASSUME NEW a \in Bytes, NEW b \in Bytes, NEW c \in Bytes
  PROVE  Regroups(a, b, c)
BY Associated DEF Bytes

\* r begins with the block of b and goes on with w.
Ahead(r, b, w) ==
  /\ r \in Bytes /\ r # <<>> /\ Head(r) = Len(b) /\ Len(b) < Len(r)
  /\ SubSeq(r, 2, 1 + Len(b)) = b
  /\ SubSeq(r, 1 + Len(b) + 1, Len(r)) = w

\* The parts that the decoder takes a block apart into are those it was put
\* together from.
LEMMA BlockParts ==
  ASSUME MaxByte \in Nat, NEW b \in Bytes, Len(b) \in Codec!Byte, NEW w \in Bytes,
         NEW r, r = Codec!Block(b) \o w
  PROVE  Ahead(r, b, w)
<1>1. PICK n \in Codec!Byte : n = Len(b)
  OBVIOUS
<1>2. n \in Nat /\ <<n>> \in Bytes
  BY DEF Codec!Byte, Bytes
<1>3. PICK y : y = b \o w
  OBVIOUS
<1>4. y \in Bytes /\ IsJoin(y, b, w)
  BY <1>3, JoinFacts DEF Bytes
<1>5. r = <<n>> \o y
  <2>1. Regroups(<<n>>, b, w)
    BY <1>2, Regrouped
  <2> QED
    BY <1>1, <1>3, <2>1 DEF Codec!Block, Regroups
<1>6. PICK m \in Nat : m = Len(w)
  BY DEF Bytes
<1>7. Len(y) = n + m /\ (\A i \in 1 .. n : y[i] = b[i]) /\ \A i \in 1 .. m : y[n + i] = w[i]
  BY <1>1, <1>4, <1>6 DEF IsJoin
<1>8. /\ r \in Bytes /\ r # <<>> /\ Head(r) = n /\ Len(r) = n + m + 1
      /\ \A i \in 1 .. n + m : r[i + 1] = y[i]
  BY <1>4, <1>5, <1>7, HeadJoin DEF Bytes
<1>9. SubSeq(r, 2, 1 + n) = b
  <2>1. PICK c \in Nat, d \in Nat : c = 2 /\ d = 1 + n
    BY <1>2
  <2>2. 1 <= c /\ c <= d + 1 /\ d <= Len(r) /\ Len(b) = d - c + 1
    BY <1>1, <1>2, <1>8, <2>1
  <2>3. ASSUME NEW i \in 1 .. Len(b) PROVE r[c + i - 1] = b[i]
    <3>1. i \in 1 .. n /\ i \in 1 .. n + m /\ c + i - 1 = i + 1
      BY <1>1, <1>2, <2>1
    <3> QED
      BY <1>7, <1>8, <3>1
  <2>4. SubSeq(r, c, d) = b
    BY <1>8, <2>2, <2>3, PartIs DEF Bytes
  <2> QED
    BY <2>1, <2>4
<1>10. SubSeq(r, 1 + n + 1, Len(r)) = w
  <2>1. PICK c \in Nat, d \in Nat : c = 1 + n + 1 /\ d = Len(r)
    BY <1>2, <1>8
  <2>2. 1 <= c /\ c <= d + 1 /\ d <= Len(r) /\ Len(w) = d - c + 1
    BY <1>6, <1>2, <1>8, <2>1
  <2>3. ASSUME NEW i \in 1 .. Len(w) PROVE r[c + i - 1] = w[i]
    <3>1. i \in 1 .. m /\ n + i \in 1 .. n + m /\ c + i - 1 = n + i + 1
      BY <1>6, <1>2, <2>1
    <3> QED
      BY <1>7, <1>8, <3>1
  <2>4. SubSeq(r, c, d) = w
    BY <1>8, <2>2, <2>3, PartIs DEF Bytes
  <2> QED
    BY <2>1, <2>4
<1>11. n < Len(r)
  BY <1>2, <1>8
<1> QED
  BY <1>1, <1>8, <1>9, <1>10, <1>11 DEF Ahead

\* A block is taken whole, and what is taken is a block.
LEMMA BlockTaken ==
  ASSUME MaxByte \in Nat, NEW b \in Bytes, Len(b) \in Codec!Byte, NEW w \in Bytes,
         NEW isText \in BOOLEAN, isText => Codec!IsText(b), NEW g
  PROVE  Codec!TakeBlock(At(Codec!Block(b) \o w, g), isText) = At(w, Append(g, b))
<1>1. PICK r : r = Codec!Block(b) \o w
  OBVIOUS
<1>0. Ahead(r, b, w)
  BY <1>1, BlockParts
<1>2. /\ r # <<>> /\ Head(r) = Len(b) /\ Len(b) < Len(r)
      /\ SubSeq(r, 2, 1 + Len(b)) = b
      /\ SubSeq(r, 1 + Len(b) + 1, Len(r)) = w
  BY <1>0 DEF Ahead
<1>3. PICK s : s = At(r, g)
  OBVIOUS
<1>4. s.ok = TRUE /\ s.rest = r /\ s.got = g
  BY <1>3 DEF At
<1>5. ~(~s.ok \/ s.rest = <<>> \/ Len(s.rest) <= Head(s.rest))
  <2>1. Len(b) \in Nat /\ Len(r) \in Nat
    BY <1>0 DEF Ahead, Bytes
  <2>2. ~(Len(r) <= Len(b))
    BY <1>2, <2>1
  <2> QED
    BY <1>2, <1>4, <2>2
<1>6. Codec!TakeBlock(s, isText) = [ok |-> TRUE, rest |-> w, got |-> Append(g, b)]
  BY <1>2, <1>4, <1>5 DEF Codec!TakeBlock
<1> QED
  BY <1>1, <1>3, <1>6 DEF At

\* Whatever is taken as a block is the block of something.
LEMMA BlockMet ==
  ASSUME MaxByte \in Nat, NEW r \in Bytes, NEW g, NEW isText \in BOOLEAN,
         Codec!TakeBlock(At(r, g), isText).ok
  PROVE  \E b \in Bytes, w \in Bytes :
           /\ Len(b) \in Codec!Byte /\ (isText => Codec!IsText(b))
           /\ r = Codec!Block(b) \o w
           /\ Codec!TakeBlock(At(r, g), isText) = At(w, Append(g, b))
<1>1. PICK s : s = At(r, g)
  OBVIOUS
<1>2. s.ok = TRUE /\ s.rest = r /\ s.got = g
  BY <1>1 DEF At
<1>3. ~Codec!Failed.ok
  BY DEF Codec!Failed
<1>4. r # <<>> /\ ~(Len(r) <= Head(r))
  BY <1>1, <1>2, <1>3 DEF Codec!TakeBlock
<1>5. PICK h \in Codec!Byte, y \in Bytes : h = Head(r) /\ y = Tail(r)
  BY <1>4, HeadApart DEF Bytes
<1>6. r = <<h>> \o y /\ Len(r) = Len(y) + 1
  BY <1>4, <1>5, HeadApart, HeadJoin DEF Bytes
<1>7. h \in 0 .. Len(y) /\ h \in Nat
  BY <1>4, <1>5, <1>6 DEF Codec!Byte, Bytes
<1>8. PICK b : b = SubSeq(y, 1, h)
  OBVIOUS
<1>9. PICK w : w = SubSeq(y, h + 1, Len(y))
  OBVIOUS
<1>10. b \in Bytes /\ Len(b) = h /\ w \in Bytes /\ y = b \o w
  BY <1>7, <1>8, <1>9, ApartJoined DEF Bytes
<1>11. <<h>> \in Bytes
  BY DEF Bytes
<1>12. r = Codec!Block(b) \o w
  <2>1. Regroups(<<h>>, b, w)
    BY <1>10, <1>11, Regrouped
  <2> QED
    BY <1>6, <1>10, <2>1 DEF Codec!Block, Regroups
<1>13. SubSeq(r, 2, 1 + h) = b
  <2>1. Ahead(r, b, w)
    BY <1>10, <1>12, BlockParts
  <2> QED
    BY <1>10, <2>1 DEF Ahead
<1>14. isText => Codec!IsText(b)
  BY <1>1, <1>2, <1>3, <1>4, <1>5, <1>13 DEF Codec!TakeBlock
<1>15. Codec!TakeBlock(At(r, g), isText) = At(w, Append(g, b))
  BY <1>10, <1>12, <1>14, BlockTaken
<1> QED
  BY <1>10, <1>12, <1>14, <1>15

\* A sender that a report can be about, and the bytes that spell it: those of one
\* without a status are free to hold any, as the decoder skips them.
SenderRead ==
  [addr : Codec!Byte, flags : 0 .. MaxFlags,
   name : {b \in Bytes : Len(b) \in Codec!Byte /\ Codec!IsText(b)},
   status : {<<>>} \cup {<<b>> : b \in Codec!Byte}]
Mark(s) == IF s.status = <<>> THEN 0 ELSE 1
Fixed(s, x) == <<s.addr>> \o (<<s.flags>> \o (<<Mark(s)>> \o <<x>>))
Spelt(c, s) ==
  \E x \in Codec!Byte : (s.status # <<>> => s.status = <<x>>) /\ c = Fixed(s, x) \o Codec!Block(s.name)

\* A sender by its fields.
LEMMA SenderFields ==
  ASSUME NEW s \in SenderRead
  PROVE  /\ s.addr \in Codec!Byte /\ s.flags \in 0 .. MaxFlags
         /\ s.name \in Bytes /\ Len(s.name) \in Codec!Byte /\ Codec!IsText(s.name)
         /\ s.status \in {<<>>} \cup {<<b>> : b \in Codec!Byte}
         /\ s = [addr |-> s.addr, flags |-> s.flags, status |-> s.status, name |-> s.name]
BY DEF SenderRead

\* c is these four bytes, which is what comes before a name.
Four(c, a, b, d, e) == Len(c) = 4 /\ c[1] = a /\ c[2] = b /\ c[3] = d /\ c[4] = e

\* Four bytes joined one by one.
LEMMA FourBytes ==
  ASSUME NEW a \in Codec!Byte, NEW b \in Codec!Byte, NEW d \in Codec!Byte, NEW e \in Codec!Byte, NEW c,
         c = <<a>> \o (<<b>> \o (<<d>> \o <<e>>))
  PROVE  c \in Bytes /\ Four(c, a, b, d, e)
<1>1. PICK y : y = <<d>> \o <<e>>
  OBVIOUS
<1>2. PICK z : z = <<b>> \o y
  OBVIOUS
<1>3. <<e>> \in Bytes /\ Len(<<e>>) = 1 /\ <<e>>[1] = e
  BY DEF Bytes
<1>4. y \in Bytes /\ Len(y) = 2 /\ y[1] = d /\ y[2] = e
  <2>1. y \in Bytes /\ Len(y) = Len(<<e>>) + 1 /\ y[1] = d
        /\ \A i \in 1 .. Len(<<e>>) : y[i + 1] = <<e>>[i]
    BY <1>1, <1>3, HeadJoin DEF Bytes
  <2> QED
    BY <1>3, <2>1
<1>5. z \in Bytes /\ Len(z) = 3 /\ z[1] = b /\ z[2] = d /\ z[3] = e
  <2>0. y \in Seq(Codec!Byte)
    BY <1>4 DEF Bytes
  <2>1. z \in Bytes /\ Len(z) = Len(y) + 1 /\ z[1] = b /\ \A i \in 1 .. Len(y) : z[i + 1] = y[i]
    BY <1>2, <2>0, HeadJoin DEF Bytes
  <2> QED
    BY <1>4, <2>1
<1>6. c \in Bytes /\ Len(c) = Len(z) + 1 /\ c[1] = a /\ \A i \in 1 .. Len(z) : c[i + 1] = z[i]
  BY <1>1, <1>2, <1>5, HeadJoin DEF Bytes
<1> QED
  BY <1>5, <1>6 DEF Four

\* The four bytes before the name of a sender.
LEMMA FixedFacts ==
  ASSUME MaxByte \in Nat, MaxByte >= 1, MaxFlags \in Nat, MaxFlags <= MaxByte,
         NEW s \in SenderRead, NEW x \in Codec!Byte
  PROVE  Fixed(s, x) \in Bytes /\ Four(Fixed(s, x), s.addr, s.flags, Mark(s), x)
<1>1. s.addr \in Codec!Byte /\ s.flags \in Codec!Byte /\ Mark(s) \in Codec!Byte
  BY SenderFields DEF Mark, Codec!Byte
<1> QED
  BY <1>1, FourBytes DEF Fixed

\* r begins with four bytes, and y is what comes behind them.
Fore(r, a, b, d, e, y) ==
  /\ r \in Bytes /\ ~(Len(r) < Codec!FixedLen)
  /\ r[1] = a /\ r[2] = b /\ r[3] = d /\ r[4] = e
  /\ SubSeq(r, Codec!FixedLen + 1, Len(r)) = y

\* Four bytes with more behind them, as TakeSender looks at them.
LEMMA BehindFixed ==
  ASSUME NEW c \in Bytes, NEW a, NEW b, NEW d, NEW e, Four(c, a, b, d, e), NEW y \in Bytes,
         NEW r, r = c \o y
  PROVE  Fore(r, a, b, d, e, y)
<1>1. r \in Bytes /\ IsJoin(r, c, y) /\ SubSeq(r, Len(c) + 1, Len(r)) = y
  BY JoinFacts, JoinedApart DEF Bytes
<1>2. Len(c) = 4 /\ Len(y) \in Nat
  BY DEF Four, Bytes
<1>3. Len(r) = 4 + Len(y) /\ \A i \in 1 .. 4 : r[i] = c[i]
  BY <1>1, <1>2 DEF IsJoin
<1>4. ~(Len(r) < 4)
  BY <1>2, <1>3
<1>5. r[1] = a /\ r[2] = b /\ r[3] = d /\ r[4] = e
  BY <1>3 DEF Four
<1> QED
  BY <1>1, <1>2, <1>4, <1>5 DEF Codec!FixedLen, Fore

\* A sender is taken from the bytes that spell it, and what is taken is spelt.
LEMMA SenderTaken ==
  ASSUME MaxByte \in Nat, MaxByte >= 1, MaxFlags \in Nat, MaxFlags <= MaxByte,
         NEW s \in SenderRead, NEW c, Spelt(c, s), NEW w \in Bytes, NEW g
  PROVE  c \in Bytes /\ Codec!TakeSender(At(c \o w, g)) = At(w, Append(g, s))
<1>1. PICK x \in Codec!Byte : (s.status # <<>> => s.status = <<x>>) /\ c = Fixed(s, x) \o Codec!Block(s.name)
  BY DEF Spelt
<1>2. PICK f \in Bytes : f = Fixed(s, x)
  BY FixedFacts
<1>3. Four(f, s.addr, s.flags, Mark(s), x)
  BY <1>2, FixedFacts
<1>4. PICK b \in Bytes : b = Codec!Block(s.name)
  <2>1. <<Len(s.name)>> \in Bytes /\ s.name \in Bytes
    BY SenderFields DEF Bytes
  <2> QED
    BY <2>1, JoinFacts DEF Codec!Block, Bytes
<1>5. PICK y \in Bytes : y = b \o w
  BY JoinFacts DEF Bytes
<1>6. c \in Bytes /\ c \o w = f \o y
  <2>1. c = f \o b
    BY <1>1, <1>2, <1>4
  <2>2. c \in Bytes
    BY <2>1, JoinFacts DEF Bytes
  <2>3. Regroups(f, b, w)
    BY Regrouped
  <2> QED
    BY <2>1, <2>2, <2>3, <1>5 DEF Regroups
<1>7. PICK r : r = c \o w
  OBVIOUS
<1>0. Fore(r, s.addr, s.flags, Mark(s), x, y)
  BY <1>3, <1>6, <1>7, BehindFixed
<1>8. /\ r \in Bytes /\ ~(Len(r) < Codec!FixedLen)
      /\ r[1] = s.addr /\ r[2] = s.flags /\ r[3] = Mark(s) /\ r[4] = x
      /\ SubSeq(r, Codec!FixedLen + 1, Len(r)) = y
  BY <1>0 DEF Fore
<1>9. Codec!TakeBlock(At(y, <<>>), TRUE) = At(w, Append(<<>>, s.name))
  <2>1. s.name \in Bytes /\ Len(s.name) \in Codec!Byte /\ Codec!IsText(s.name) /\ y = Codec!Block(s.name) \o w
    BY <1>4, <1>5, SenderFields
  <2> QED
    BY <2>1, BlockTaken
<1>10. PICK t : t = At(r, g)
  OBVIOUS
<1>11. t.ok = TRUE /\ t.rest = r /\ t.got = g
  BY <1>10 DEF At
<1>12. PICK n : n = Codec!TakeBlock([ok |-> TRUE, got |-> <<>>,
                              rest |-> SubSeq(t.rest, Codec!FixedLen + 1, Len(t.rest))], TRUE)
  OBVIOUS
<1>13. n.ok = TRUE /\ n.rest = w /\ n.got[1] = s.name
  <2>1. n = At(w, Append(<<>>, s.name))
    BY <1>8, <1>9, <1>11, <1>12 DEF At
  <2>2. Append(<<>>, s.name)[1] = s.name
    OBVIOUS
  <2> QED
    BY <2>1, <2>2 DEF At
<1>14. ~(~n.ok \/ t.rest[2] > MaxFlags \/ t.rest[3] \notin {0, 1})
  <2>1. s.flags \in 0 .. MaxFlags /\ Mark(s) \in {0, 1}
    BY SenderFields DEF Mark
  <2>2. ~(s.flags > MaxFlags)
    BY <2>1
  <2> QED
    BY <1>8, <1>11, <1>13, <2>1, <2>2
<1>15. (IF t.rest[3] = 1 THEN <<t.rest[4]>> ELSE <<>>) = s.status
  <2>1. t.rest[3] = Mark(s) /\ t.rest[4] = x
    BY <1>8, <1>11
  <2>2. CASE s.status = <<>>
    BY <2>1, <2>2 DEF Mark
  <2>3. CASE s.status # <<>>
    <3>1. Mark(s) = 1 /\ s.status = <<x>>
      BY <1>1, <2>3 DEF Mark
    <3> QED
      BY <2>1, <3>1
  <2> QED
    BY <2>2, <2>3
<1>16. Codec!TakeSender(t) = [ok |-> TRUE, rest |-> n.rest,
                       got |-> Append(t.got,
                         [addr |-> t.rest[1], flags |-> t.rest[2],
                          status |-> IF t.rest[3] = 1 THEN <<t.rest[4]>> ELSE <<>>,
                          name |-> n.got[1]])]
  BY <1>8, <1>11, <1>12, <1>14 DEF Codec!TakeSender
<1>17. [addr |-> t.rest[1], flags |-> t.rest[2],
        status |-> IF t.rest[3] = 1 THEN <<t.rest[4]>> ELSE <<>>, name |-> n.got[1]] = s
  BY <1>8, <1>11, <1>13, <1>15, SenderFields
<1> QED
  BY <1>6, <1>7, <1>10, <1>11, <1>13, <1>16, <1>17 DEF At

\* Four bytes are the four they are said to be.
LEMMA SameFour ==
  ASSUME NEW f \in Bytes, NEW c \in Bytes, NEW a, NEW b, NEW d, NEW e,
         Four(f, a, b, d, e), Four(c, a, b, d, e)
  PROVE  f = c
<1>1. Len(f) = 4 /\ Len(c) = 4 /\ f[1] = c[1] /\ f[2] = c[2] /\ f[3] = c[3] /\ f[4] = c[4]
  BY DEF Four
<1>2. ASSUME NEW i \in 1 .. 4 PROVE f[i] = c[i]
  <2>1. i = 1 \/ i = 2 \/ i = 3 \/ i = 4
    OBVIOUS
  <2> QED
    BY <1>1, <2>1
<1> QED
  BY <1>1, <1>2, SameSeq DEF Bytes

\* Whatever is taken as a sender is spelt by the bytes that are gone.
LEMMA SenderMet ==
  ASSUME MaxByte \in Nat, MaxByte >= 1, MaxFlags \in Nat, MaxFlags <= MaxByte,
         NEW r \in Bytes, NEW g, Codec!TakeSender(At(r, g)).ok
  PROVE  \E s \in SenderRead, c \in Bytes, w \in Bytes :
           Spelt(c, s) /\ r = c \o w /\ Codec!TakeSender(At(r, g)) = At(w, Append(g, s))
<1>1. PICK t : t = At(r, g)
  OBVIOUS
<1>2. t.ok = TRUE /\ t.rest = r /\ t.got = g
  BY <1>1 DEF At
<1>3. ~Codec!Failed.ok
  BY DEF Codec!Failed
<1>4. PICK n : n = Codec!TakeBlock([ok |-> TRUE, got |-> <<>>,
                             rest |-> SubSeq(t.rest, Codec!FixedLen + 1, Len(t.rest))], TRUE)
  OBVIOUS
<1>5. ~(Len(r) < Codec!FixedLen)
  BY <1>1, <1>2, <1>3 DEF Codec!TakeSender
<1>6. Codec!TakeSender(t) = IF ~n.ok \/ r[2] > MaxFlags \/ r[3] \notin {0, 1} THEN Codec!Failed
                      ELSE [ok |-> TRUE, rest |-> n.rest,
                       got |-> Append(t.got,
                         [addr |-> t.rest[1], flags |-> t.rest[2],
                          status |-> IF t.rest[3] = 1 THEN <<t.rest[4]>> ELSE <<>>,
                          name |-> n.got[1]])]
  BY <1>2, <1>4, <1>5 DEF Codec!TakeSender
<1>7. n.ok /\ ~(r[2] > MaxFlags) /\ r[3] \in {0, 1}
  BY <1>1, <1>3, <1>6
<1>8. Len(r) \in Nat /\ Len(r) >= 4
  BY <1>5 DEF Codec!FixedLen, Bytes
<1>9. PICK f \in Bytes, y \in Bytes : /\ f = SubSeq(r, 1, 4) /\ y = SubSeq(r, 4 + 1, Len(r))
                                      /\ Len(f) = 4 /\ r = f \o y
  <2>1. 4 \in 0 .. Len(r) /\ r \in Seq(Codec!Byte)
    BY <1>8 DEF Bytes
  <2>2. PICK m \in 0 .. Len(r) : m = 4
    BY <2>1
  <2>3. PICK f : f = SubSeq(r, 1, m)
    OBVIOUS
  <2>4. PICK y : y = SubSeq(r, m + 1, Len(r))
    OBVIOUS
  <2>5. f \in Bytes /\ y \in Bytes /\ Len(f) = m /\ r = f \o y
    BY <2>1, <2>3, <2>4, ApartJoined DEF Bytes
  <2> QED
    BY <2>2, <2>3, <2>4, <2>5
<1>10. n = Codec!TakeBlock(At(y, <<>>), TRUE)
  BY <1>2, <1>4, <1>9 DEF At, Codec!FixedLen
<1>11. PICK b \in Bytes, w \in Bytes :
         /\ Len(b) \in Codec!Byte /\ Codec!IsText(b) /\ y = Codec!Block(b) \o w
         /\ n = At(w, Append(<<>>, b))
  <2>1. Codec!TakeBlock(At(y, <<>>), TRUE).ok
    BY <1>7, <1>10
  <2>2. \E b \in Bytes, w \in Bytes :
           /\ Len(b) \in Codec!Byte /\ (TRUE => Codec!IsText(b))
           /\ y = Codec!Block(b) \o w
           /\ Codec!TakeBlock(At(y, <<>>), TRUE) = At(w, Append(<<>>, b))
    BY <2>1, BlockMet
  <2> QED
    BY <1>10, <2>2
<1>12. r[1] \in Codec!Byte /\ r[2] \in Codec!Byte /\ r[3] \in Codec!Byte /\ r[4] \in Codec!Byte
  BY <1>8 DEF Bytes
<1>13. PICK x \in Codec!Byte : x = r[4]
  BY <1>12
<1>14. PICK s : s = [addr |-> r[1], flags |-> r[2],
                     status |-> IF r[3] = 1 THEN <<x>> ELSE <<>>, name |-> b]
  OBVIOUS
<1>15. s \in SenderRead
  <2>1. r[2] \in 0 .. MaxFlags
    BY <1>7, <1>12 DEF Codec!Byte
  <2>2. b \in {q \in Bytes : Len(q) \in Codec!Byte /\ Codec!IsText(q)}
    BY <1>11
  <2>3. (IF r[3] = 1 THEN <<x>> ELSE <<>>) \in {<<>>} \cup {<<q>> : q \in Codec!Byte}
    OBVIOUS
  <2> QED
    BY <1>12, <1>14, <2>1, <2>2, <2>3 DEF SenderRead
<1>16. s.status # <<>> => s.status = <<x>>
  BY <1>14
<1>17. Mark(s) = r[3]
  <2>1. CASE r[3] = 1
    <3>1. s.status = <<x>> /\ <<x>> # <<>>
      BY <1>14, <2>1
    <3> QED
      BY <2>1, <3>1 DEF Mark
  <2>2. CASE r[3] # 1
    <3>1. s.status = <<>> /\ r[3] = 0
      BY <1>7, <1>14, <2>2
    <3> QED
      BY <3>1 DEF Mark
  <2> QED
    BY <2>1, <2>2
<1>18. f = Fixed(s, x)
  <2>1. PICK z : z = Fixed(s, x)
    OBVIOUS
  <2>2. z \in Bytes /\ Four(z, s.addr, s.flags, Mark(s), x)
    BY <1>15, <2>1, FixedFacts
  <2>3. IsJoin(r, f, y)
    BY <1>9, JoinFacts DEF Bytes
  <2>4. f[1] = r[1] /\ f[2] = r[2] /\ f[3] = r[3] /\ f[4] = r[4]
    BY <1>9, <2>3 DEF IsJoin
  <2>5. Four(f, s.addr, s.flags, Mark(s), x)
    BY <1>9, <1>13, <1>14, <1>17, <2>4 DEF Four
  <2> QED
    BY <2>1, <2>2, <2>5, SameFour
<1>19. PICK k \in Bytes : k = Codec!Block(b)
  <2>1. <<Len(b)>> \in Bytes
    BY <1>11 DEF Bytes
  <2> QED
    BY <2>1, JoinFacts DEF Codec!Block, Bytes
<1>20. PICK c \in Bytes : c = f \o k
  BY JoinFacts DEF Bytes
<1>21. r = c \o w
  <2>1. Regroups(f, k, w)
    BY Regrouped
  <2> QED
    BY <1>9, <1>11, <1>19, <1>20, <2>1 DEF Regroups
<1>22. Spelt(c, s)
  <2>1. s.name = b
    BY <1>14
  <2>2. c = Fixed(s, x) \o Codec!Block(s.name)
    BY <1>18, <1>19, <1>20, <2>1
  <2> QED
    BY <1>16, <2>2 DEF Spelt
<1>23. Codec!TakeSender(At(r, g)) = At(w, Append(g, s))
  BY <1>15, <1>21, <1>22, SenderTaken
<1> QED
  BY <1>15, <1>21, <1>22, <1>23

\* What taking so many senders comes to, one after another.
TakeAt(f, s, i) == IF i = 0 THEN s ELSE Codec!TakeSender(f[i - 1])
Takes(f, s, n) == f = [i \in 0 .. n |-> TakeAt(f, s, i)]

\* There is one way to take so many senders, and one more follows from it.
LEMMA TakesUnique ==
  ASSUME NEW s, NEW n \in Nat, NEW f, NEW g, Takes(f, s, n), Takes(g, s, n)
  PROVE  f = g
<1>1. PICK T : T = {k \in Nat : k \in 0 .. n => f[k] = g[k]}
  OBVIOUS
<1>2. \A k \in 0 .. n : f[k] = TakeAt(f, s, k) /\ g[k] = TakeAt(g, s, k)
  BY DEF Takes
<1>3. 0 \in T
  <2>1. 0 \in 0 .. n
    OBVIOUS
  <2>2. f[0] = s /\ g[0] = s
    BY <1>2, <2>1 DEF TakeAt
  <2> QED
    BY <1>1, <2>2
<1>4. ASSUME NEW k \in Nat, k \in T PROVE k + 1 \in T
  <2>1. SUFFICES ASSUME k + 1 \in 0 .. n PROVE f[k + 1] = g[k + 1]
    BY <1>1
  <2>2. k \in 0 .. n
    BY <2>1
  <2>3. f[k] = g[k]
    BY <1>1, <1>4, <2>2
  <2>4. k + 1 # 0 /\ k + 1 - 1 = k
    OBVIOUS
  <2> QED
    BY <1>2, <2>1, <2>3, <2>4 DEF TakeAt
<1>5. Nat \subseteq T
  BY <1>3, <1>4, SetInduction
<1>6. \A k \in 0 .. n : f[k] = g[k]
  BY <1>1, <1>5
<1>7. f = [k \in 0 .. n |-> f[k]] /\ g = [k \in 0 .. n |-> g[k]]
  BY DEF Takes
<1> QED
  BY <1>6, <1>7

LEMMA TakesGrow ==
  ASSUME NEW s, NEW n \in Nat, NEW f, Takes(f, s, n), NEW g,
         g = [i \in 0 .. n + 1 |-> IF i <= n THEN f[i] ELSE Codec!TakeSender(f[n])]
  PROVE  Takes(g, s, n + 1)
<1>1. ASSUME NEW i \in 0 .. n + 1 PROVE g[i] = TakeAt(g, s, i)
  <2>1. CASE i <= n
    <3>1. i \in 0 .. n /\ g[i] = f[i]
      BY <2>1
    <3>2. f[i] = TakeAt(f, s, i)
      BY <3>1 DEF Takes
    <3>3. i # 0 => g[i - 1] = f[i - 1]
      BY <2>1
    <3> QED
      BY <3>1, <3>2, <3>3 DEF TakeAt
  <2>2. CASE ~(i <= n)
    <3>1. i = n + 1 /\ i # 0 /\ i - 1 = n /\ n \in 0 .. n + 1
      BY <2>2
    <3>2. g[i] = Codec!TakeSender(f[n]) /\ g[n] = f[n]
      BY <2>2, <3>1
    <3> QED
      BY <3>1, <3>2 DEF TakeAt
  <2> QED
    BY <2>1, <2>2
<1>2. g = [i \in 0 .. n + 1 |-> g[i]]
  OBVIOUS
<1>3. g = [i \in 0 .. n + 1 |-> TakeAt(g, s, i)]
  BY <1>1, <1>2
<1> QED
  BY <1>3 DEF Takes

\* So many can be taken one after another, for any number.
LEMMA TakesExist ==
  ASSUME NEW s
  PROVE  \A n \in Nat : \E f : Takes(f, s, n)
<1>1. PICK T : T = {n \in Nat : \E f : Takes(f, s, n)}
  OBVIOUS
<1>2. 0 \in T
  <2>1. PICK f : f = [i \in 0 .. 0 |-> s]
    OBVIOUS
  <2>2. \A i \in 0 .. 0 : TakeAt(f, s, i) = s
    BY DEF TakeAt
  <2>3. f = [i \in 0 .. 0 |-> TakeAt(f, s, i)]
    BY <2>1, <2>2
  <2> QED
    BY <1>1, <2>3 DEF Takes
<1>3. ASSUME NEW n \in Nat, n \in T PROVE n + 1 \in T
  <2>1. PICK f : Takes(f, s, n)
    BY <1>1, <1>3
  <2>2. PICK g : g = [i \in 0 .. n + 1 |-> IF i <= n THEN f[i] ELSE Codec!TakeSender(f[n])]
    OBVIOUS
  <2>3. Takes(g, s, n + 1)
    BY <2>1, <2>2, TakesGrow
  <2> QED
    BY <1>1, <2>3
<1>4. Nat \subseteq T
  BY <1>2, <1>3, SetInduction
<1> QED
  BY <1>1, <1>4

\* TakeSenders is that.
LEMMA TakeSendersIs ==
  ASSUME NEW s, NEW n \in Nat, NEW f, Takes(f, s, n)
  PROVE  Codec!TakeSenders(s, n) = f[n]
<1>1. PICK c : c = CHOOSE h : h = [i \in 0 .. n |-> IF i = 0 THEN s ELSE Codec!TakeSender(h[i - 1])]
  OBVIOUS
<1>2. Codec!TakeSenders(s, n) = c[n]
  BY <1>1 DEF Codec!TakeSenders
<1>3. Takes(c, s, n)
  <2>1. f = [i \in 0 .. n |-> IF i = 0 THEN s ELSE Codec!TakeSender(f[i - 1])]
    BY DEF Takes, TakeAt
  <2>2. c = [i \in 0 .. n |-> IF i = 0 THEN s ELSE Codec!TakeSender(c[i - 1])]
    BY <1>1, <2>1
  <2> QED
    BY <2>2 DEF Takes, TakeAt
<1>4. c = f
  BY <1>3, TakesUnique
<1> QED
  BY <1>2, <1>4

\* No sender, and one more.
LEMMA TakeSendersSteps ==
  ASSUME NEW s
  PROVE  /\ Codec!TakeSenders(s, 0) = s
         /\ \A n \in Nat : Codec!TakeSenders(s, n + 1) = Codec!TakeSender(Codec!TakeSenders(s, n))
<1>1. Codec!TakeSenders(s, 0) = s
  <2>1. PICK f : Takes(f, s, 0)
    BY TakesExist
  <2>2. f[0] = s
    <3>1. 0 \in 0 .. 0
      OBVIOUS
    <3> QED
      BY <2>1, <3>1 DEF Takes, TakeAt
  <2> QED
    BY <2>1, <2>2, TakeSendersIs
<1>2. ASSUME NEW n \in Nat PROVE Codec!TakeSenders(s, n + 1) = Codec!TakeSender(Codec!TakeSenders(s, n))
  <2>1. PICK f : Takes(f, s, n)
    BY TakesExist
  <2>2. PICK g : g = [i \in 0 .. n + 1 |-> IF i <= n THEN f[i] ELSE Codec!TakeSender(f[n])]
    OBVIOUS
  <2>3. Takes(g, s, n + 1)
    BY <2>1, <2>2, TakesGrow
  <2>4. Codec!TakeSenders(s, n) = f[n]
    BY <2>1, TakeSendersIs
  <2>5. Codec!TakeSenders(s, n + 1) = g[n + 1]
    <3>1. n + 1 \in Nat
      OBVIOUS
    <3> QED
      BY <2>3, <3>1, TakeSendersIs
  <2>6. g[n + 1] = Codec!TakeSender(f[n])
    BY <2>2
  <2> QED
    BY <2>4, <2>5, <2>6
<1> QED
  BY <1>1, <1>2

\* p spells the senders of ss one after another.
Spells(p, ss) ==
  \E cs \in Seq(Bytes) :
    /\ Len(cs) = Len(ss) /\ p = FlattenSeq(cs)
    /\ \A i \in 1 .. Len(ss) : Spelt(cs[i], ss[i])

\* No sender is spelt by nothing.
LEMMA SpellsNone == Spells(<<>>, <<>>)
<1>1. <<>> \in Seq(Bytes) /\ Len(<<>>) = 0
  OBVIOUS
<1>2. FlattenSeq(<<>>) = <<>>
  BY DEF FlattenSeq
<1>3. \A i \in 1 .. 0 : FALSE
  OBVIOUS
<1> QED
  BY <1>1, <1>2, <1>3 DEF Spells

\* One more sender is spelt by the bytes of one more.
LEMMA SpellsMore ==
  ASSUME NEW ss \in Seq(SenderRead), NEW s \in SenderRead, NEW p, NEW c \in Bytes,
         Spells(p, ss), Spelt(c, s)
  PROVE  Spells(p \o c, Append(ss, s))
<1>1. PICK cs \in Seq(Bytes) : /\ Len(cs) = Len(ss) /\ p = FlattenSeq(cs)
                               /\ \A i \in 1 .. Len(ss) : Spelt(cs[i], ss[i])
  BY DEF Spells
<1>2. PICK n \in Nat : n = Len(ss)
  OBVIOUS
<1>3. PICK ds : ds = Append(cs, c)
  OBVIOUS
<1>4. PICK ts : ts = Append(ss, s)
  OBVIOUS
<1>5. FlattenSeq(ds) = p \o c
  <2>1. cs \in Seq(Seq(Codec!Byte)) /\ c \in Seq(Codec!Byte)
    BY DEF Bytes
  <2> QED
    BY <1>1, <1>3, <2>1, FlattenGrows
<1>6. Len(ds) = n + 1 /\ ds[n + 1] = c /\ \A i \in 1 .. n : ds[i] = cs[i]
  BY <1>1, <1>2, <1>3, AppendFacts
<1>7. Len(ts) = n + 1 /\ ts[n + 1] = s /\ \A i \in 1 .. n : ts[i] = ss[i]
  BY <1>2, <1>4, AppendFacts
<1>8. ASSUME NEW i \in 1 .. n + 1 PROVE Spelt(ds[i], ts[i])
  <2>1. CASE i = n + 1
    BY <1>6, <1>7, <2>1
  <2>2. CASE i # n + 1
    <3>1. i \in 1 .. n
      BY <2>2
    <3> QED
      BY <1>1, <1>2, <1>6, <1>7, <3>1
  <2> QED
    BY <2>1, <2>2
<1>9. ds \in Seq(Bytes)
  BY <1>3, AppendFacts
<1> QED
  BY <1>4, <1>5, <1>6, <1>7, <1>8, <1>9 DEF Spells

\* The bytes of all but the last, and those of the last.
LastSpelt(p, ss, n) ==
  \E us \in Seq(SenderRead), s \in SenderRead, q \in Bytes, c \in Bytes :
    /\ Len(us) = n /\ ss = Append(us, s)
    /\ Spells(q, us) /\ Spelt(c, s) /\ p = q \o c

\* Bytes that spell senders come apart before the last.
LEMMA SpellsLess ==
  ASSUME NEW n \in Nat, NEW ss \in Seq(SenderRead), Len(ss) = n + 1, NEW p, Spells(p, ss)
  PROVE  LastSpelt(p, ss, n)
<1>1. PICK cs \in Seq(Bytes) : /\ Len(cs) = n + 1 /\ p = FlattenSeq(cs)
                               /\ \A i \in 1 .. n + 1 : Spelt(cs[i], ss[i])
  BY DEF Spells
<1>2. PICK us \in Seq(SenderRead) :
        Len(us) = n /\ ss[n + 1] \in SenderRead /\ ss = Append(us, ss[n + 1])
  BY LastApart
<1>3. PICK ds \in Seq(Bytes) : Len(ds) = n /\ cs[n + 1] \in Bytes /\ cs = Append(ds, cs[n + 1])
  BY <1>1, LastApart
<1>4. PICK s \in SenderRead : s = ss[n + 1]
  BY <1>2
<1>5. PICK c \in Bytes : c = cs[n + 1]
  BY <1>3
<1>6. \A i \in 1 .. n : us[i] = ss[i] /\ ds[i] = cs[i]
  <2>1. ss = Append(us, s) /\ cs = Append(ds, c)
    BY <1>2, <1>3, <1>4, <1>5
  <2> QED
    BY <1>2, <1>3, <2>1
<1>7. PICK q \in Bytes : q = FlattenSeq(ds)
  BY FlattenTyped DEF Bytes
<1>8. p = q \o c
  <2>1. ds \in Seq(Seq(Codec!Byte)) /\ c \in Seq(Codec!Byte)
    BY DEF Bytes
  <2> QED
    BY <1>1, <1>3, <1>5, <1>7, <2>1, FlattenGrows
<1>9. Spelt(c, s)
  <2>1. n + 1 \in 1 .. n + 1
    OBVIOUS
  <2> QED
    BY <1>1, <1>4, <1>5, <2>1
<1>10. \A i \in 1 .. n : Spelt(ds[i], us[i])
  <2>1. \A i \in 1 .. n : i \in 1 .. n + 1
    OBVIOUS
  <2> QED
    BY <1>1, <1>6, <2>1
<1>11. Spells(q, us)
  BY <1>2, <1>3, <1>7, <1>10 DEF Spells
<1> QED
  BY <1>2, <1>4, <1>8, <1>9, <1>11 DEF LastSpelt

\* Senders are taken from the bytes that spell them, and what is taken is spelt.
LEMMA SendersTaken ==
  ASSUME MaxByte \in Nat, MaxByte >= 1, MaxFlags \in Nat, MaxFlags <= MaxByte
  PROVE  \A ss \in Seq(SenderRead) : \A p \in Bytes, w \in Bytes :
           Spells(p, ss) => Codec!TakeSenders(At(p \o w, <<>>), Len(ss)) = At(w, ss)
<1>1. PICK T : T = {n \in Nat : \A ss \in Seq(SenderRead) : \A p \in Bytes, w \in Bytes :
                      Len(ss) = n /\ Spells(p, ss)
                        => Codec!TakeSenders(At(p \o w, <<>>), n) = At(w, ss)}
  OBVIOUS
<1>2. 0 \in T
  <2> SUFFICES ASSUME NEW ss \in Seq(SenderRead), NEW p \in Bytes, NEW w \in Bytes,
                      Len(ss) = 0, Spells(p, ss)
               PROVE  Codec!TakeSenders(At(p \o w, <<>>), 0) = At(w, ss)
    BY <1>1
  <2>1. ss = <<>>
    OBVIOUS
  <2>2. PICK cs \in Seq(Bytes) : Len(cs) = 0 /\ p = FlattenSeq(cs)
    BY DEF Spells
  <2>3. p = <<>>
    BY <2>2 DEF FlattenSeq
  <2>4. p \o w = w
    BY <2>3 DEF Bytes
  <2> QED
    BY <2>1, <2>4, TakeSendersSteps
<1>3. ASSUME NEW n \in Nat, n \in T PROVE n + 1 \in T
  <2> SUFFICES ASSUME NEW ss \in Seq(SenderRead), NEW p \in Bytes, NEW w \in Bytes,
                      Len(ss) = n + 1, Spells(p, ss)
               PROVE  Codec!TakeSenders(At(p \o w, <<>>), n + 1) = At(w, ss)
    BY <1>1
  <2>1. PICK us \in Seq(SenderRead), s \in SenderRead, q \in Bytes, c \in Bytes :
           /\ Len(us) = n /\ ss = Append(us, s)
           /\ Spells(q, us) /\ Spelt(c, s) /\ p = q \o c
    <3>1. LastSpelt(p, ss, n)
      BY SpellsLess
    <3> QED
      BY <3>1 DEF LastSpelt
  <2>2. PICK v \in Bytes : v = c \o w
    BY JoinFacts DEF Bytes
  <2>3. p \o w = q \o v
    <3>1. Regroups(q, c, w)
      BY Regrouped
    <3> QED
      BY <2>1, <2>2, <3>1 DEF Regroups
  <2>4. Codec!TakeSenders(At(q \o v, <<>>), n) = At(v, us)
    BY <1>1, <1>3, <2>1
  <2>5. Codec!TakeSender(At(v, us)) = At(w, Append(us, s))
    BY <2>1, <2>2, SenderTaken
  <2>6. Codec!TakeSenders(At(q \o v, <<>>), n + 1) = Codec!TakeSender(Codec!TakeSenders(At(q \o v, <<>>), n))
    BY TakeSendersSteps
  <2> QED
    BY <2>1, <2>3, <2>4, <2>5, <2>6
<1>4. Nat \subseteq T
  BY <1>2, <1>3, SetInduction
<1>5. \A ss \in Seq(SenderRead) : Len(ss) \in T
  BY <1>4
<1> QED
  BY <1>1, <1>5

\* Nothing is taken after something was refused.
LEMMA TakenFrom ==
  ASSUME NEW s, Codec!TakeSender(s).ok
  PROVE  s.ok
<1>1. ~Codec!Failed.ok
  BY DEF Codec!Failed
<1>2. SUFFICES ASSUME ~s.ok PROVE Codec!TakeSender(s) = Codec!Failed
  BY <1>1
<1> QED
  BY <1>2 DEF Codec!TakeSender

\* The first so many senders of r are spelt by its front.
Met(r, n) ==
  \E ss \in Seq(SenderRead), p \in Bytes, w \in Bytes :
    /\ Len(ss) = n /\ Spells(p, ss) /\ r = p \o w
    /\ Codec!TakeSenders(At(r, <<>>), n) = At(w, ss)

\* Whatever is taken as so many senders is spelt by the bytes that are gone.
LEMMA SendersMet ==
  ASSUME MaxByte \in Nat, MaxByte >= 1, MaxFlags \in Nat, MaxFlags <= MaxByte
  PROVE  \A n \in Nat : \A r \in Bytes :
           Codec!TakeSenders(At(r, <<>>), n).ok => Met(r, n)
<1>1. PICK T : T = {n \in Nat : \A r \in Bytes : Codec!TakeSenders(At(r, <<>>), n).ok => Met(r, n)}
  OBVIOUS
<1>2. 0 \in T
  <2> SUFFICES ASSUME NEW r \in Bytes PROVE Met(r, 0)
    BY <1>1
  <2>1. <<>> \in Seq(SenderRead) /\ <<>> \in Bytes /\ Len(<<>>) = 0
    BY DEF Bytes
  <2>2. r = <<>> \o r
    BY DEF Bytes
  <2>3. Codec!TakeSenders(At(r, <<>>), 0) = At(r, <<>>)
    BY TakeSendersSteps
  <2> QED
    BY <2>1, <2>2, <2>3, SpellsNone DEF Met
<1>3. ASSUME NEW n \in Nat, n \in T PROVE n + 1 \in T
  <2>0. n + 1 \in Nat
    OBVIOUS
  <2> SUFFICES ASSUME NEW r \in Bytes, Codec!TakeSenders(At(r, <<>>), n + 1).ok PROVE Met(r, n + 1)
    BY <1>1, <2>0
  <2>1. Codec!TakeSenders(At(r, <<>>), n + 1) = Codec!TakeSender(Codec!TakeSenders(At(r, <<>>), n))
    BY TakeSendersSteps
  <2>2. Codec!TakeSenders(At(r, <<>>), n).ok
    BY <2>1, TakenFrom
  <2>3. PICK us \in Seq(SenderRead), q \in Bytes, v \in Bytes :
          /\ Len(us) = n /\ Spells(q, us) /\ r = q \o v
          /\ Codec!TakeSenders(At(r, <<>>), n) = At(v, us)
    BY <1>1, <1>3, <2>2 DEF Met
  <2>4. PICK s \in SenderRead, c \in Bytes, w \in Bytes :
          Spelt(c, s) /\ v = c \o w /\ Codec!TakeSender(At(v, us)) = At(w, Append(us, s))
    <3>1. Codec!TakeSender(At(v, us)).ok
      BY <2>1, <2>3
    <3> QED
      BY <3>1, SenderMet
  <2>5. PICK p \in Bytes : p = q \o c
    BY JoinFacts DEF Bytes
  <2>6. r = p \o w
    <3>1. Regroups(q, c, w)
      BY Regrouped
    <3> QED
      BY <2>3, <2>4, <2>5, <3>1 DEF Regroups
  <2>7. PICK ss : ss = Append(us, s)
    OBVIOUS
  <2>10. ss \in Seq(SenderRead) /\ Len(ss) = n + 1
    BY <2>3, <2>7, AppendFacts
  <2>8. Spells(p, ss)
    BY <2>3, <2>4, <2>5, <2>7, SpellsMore
  <2>9. Codec!TakeSenders(At(r, <<>>), n + 1) = At(w, ss)
    BY <2>1, <2>3, <2>4, <2>7
  <2> QED
    BY <2>6, <2>8, <2>9, <2>10 DEF Met
<1>4. Nat \subseteq T
  BY <1>2, <1>3, SetInduction
<1> QED
  BY <1>1, <1>4

Lists == {b \in Bytes : Len(b) \in Codec!Byte}
\* A report that can be read, and the bytes it is read from.
ReportRead ==
  [layout : {b \in Lists : Codec!IsText(b)}, desired : Lists, active : Lists,
   senders : {ss \in Seq(SenderRead) : Len(ss) \in Codec!Byte}]
Behind(r, q) ==
  Codec!Block(r.layout) \o (Codec!Block(r.desired) \o (Codec!Block(r.active) \o (<<Len(r.senders)>> \o q)))
Written(p, r) == \E q \in Bytes : Spells(q, r.senders) /\ p = <<Codec!Magic>> \o Behind(r, q)

\* A report by its fields.
LEMMA ReportFields ==
  ASSUME NEW r \in ReportRead
  PROVE  /\ r.layout \in Bytes /\ Len(r.layout) \in Codec!Byte /\ Codec!IsText(r.layout)
         /\ r.desired \in Bytes /\ Len(r.desired) \in Codec!Byte
         /\ r.active \in Bytes /\ Len(r.active) \in Codec!Byte
         /\ r.senders \in Seq(SenderRead) /\ Len(r.senders) \in Codec!Byte
         /\ r = [layout |-> r.layout, desired |-> r.desired, active |-> r.active,
                 senders |-> r.senders]
BY DEF ReportRead, Lists

\* Blocks, bytes joined, and the first byte are bytes.
LEMMA BlockBytes ==
  ASSUME NEW b \in Bytes, Len(b) \in Codec!Byte
  PROVE  Codec!Block(b) \in Bytes
<1>1. <<Len(b)>> \in Bytes
  BY DEF Bytes
<1> QED
  BY <1>1, JoinFacts DEF Codec!Block, Bytes

LEMMA MagicByte ==
  ASSUME MaxByte \in Nat, MaxByte >= 1
  PROVE  Codec!Magic \in Codec!Byte /\ <<Codec!Magic>> \in Bytes
BY DEF Codec!Magic, Codec!Byte, Bytes

\* What follows y may be taken into it, also when more is before both.
Moves(y, w, z) == y \o w = z

LEMMA MovesOn ==
  ASSUME NEW a \in Bytes, NEW y \in Bytes, NEW w \in Bytes, NEW z \in Bytes, Moves(y, w, z)
  PROVE  Moves(a \o y, w, a \o z)
BY Regrouped DEF Moves, Regroups

\* What is written of a report with more behind it is the magic, and then the
\* three blocks, the count, and the senders with more behind them.
LEMMA BehindWithMore ==
  ASSUME MaxByte \in Nat, MaxByte >= 1, NEW r \in ReportRead, NEW q \in Bytes, NEW w \in Bytes
  PROVE  /\ Behind(r, q) \in Bytes
         /\ (<<Codec!Magic>> \o Behind(r, q)) \o w = <<Codec!Magic>> \o Behind(r, q \o w)
<1>1. PICK k \in Bytes, d \in Bytes, a \in Bytes :
        k = Codec!Block(r.layout) /\ d = Codec!Block(r.desired) /\ a = Codec!Block(r.active)
  BY ReportFields, BlockBytes
<1>2. PICK n : n = <<Len(r.senders)>>
  OBVIOUS
<1>3. n \in Bytes
  <2>1. Len(r.senders) \in Codec!Byte
    BY ReportFields
  <2> QED
    BY <1>2, <2>1 DEF Bytes
<1>4. PICK y0 \in Bytes, z0 \in Bytes : y0 = q /\ z0 = q \o w
  BY JoinBytes
<1>5. PICK y1 \in Bytes, z1 \in Bytes : y1 = n \o y0 /\ z1 = n \o z0
  BY <1>3, JoinBytes
<1>6. PICK y2 \in Bytes, z2 \in Bytes : y2 = a \o y1 /\ z2 = a \o z1
  BY JoinBytes
<1>7. PICK y3 \in Bytes, z3 \in Bytes : y3 = d \o y2 /\ z3 = d \o z2
  BY JoinBytes
<1>8. PICK y4 \in Bytes, z4 \in Bytes : y4 = k \o y3 /\ z4 = k \o z3
  BY JoinBytes
<1>9. Moves(y0, w, z0)
  BY <1>4 DEF Moves
<1>10. Moves(y1, w, z1)
  BY <1>3, <1>5, <1>9, MovesOn
<1>11. Moves(y2, w, z2)
  BY <1>6, <1>10, MovesOn
<1>12. Moves(y3, w, z3)
  BY <1>7, <1>11, MovesOn
<1>13. Moves(y4, w, z4)
  BY <1>8, <1>12, MovesOn
<1>15. Moves(<<Codec!Magic>> \o y4, w, <<Codec!Magic>> \o z4)
  BY <1>13, MagicByte, MovesOn
<1>14. y4 = Behind(r, q) /\ z4 = Behind(r, q \o w)
  BY <1>1, <1>2, <1>4, <1>5, <1>6, <1>7, <1>8 DEF Behind
<1> QED
  BY <1>14, <1>15 DEF Moves

\* What is behind the magic is bytes.
LEMMA BehindBytes ==
  ASSUME MaxByte \in Nat, MaxByte >= 1, NEW r \in ReportRead, NEW q \in Bytes
  PROVE  Behind(r, q) \in Bytes
<1>1. <<>> \in Bytes
  BY DEF Bytes
<1> QED
  BY <1>1, BehindWithMore

\* What is written is read, whatever comes behind it.
LEMMA WrittenRead ==
  ASSUME MaxByte \in Nat, MaxByte >= 1, MaxFlags \in Nat, MaxFlags <= MaxByte,
         NEW r \in ReportRead, NEW p, Written(p, r), NEW w \in Bytes
  PROVE  /\ p \in Bytes
         /\ Codec!DecodeFront(p \o w) = [ok |-> TRUE, rest |-> w, report |-> r]
<1>1. PICK q \in Bytes : Spells(q, r.senders) /\ p = <<Codec!Magic>> \o Behind(r, q)
  BY DEF Written
<1>2. p \in Bytes
  BY <1>1, BehindWithMore, MagicByte, JoinBytes
<1>3. PICK v \in Bytes : v = q \o w
  BY JoinBytes
<1>4. PICK n \in Codec!Byte : n = Len(r.senders)
  BY ReportFields
<1>5. PICK z3 : z3 = <<n>> \o v
  OBVIOUS
<1>6. z3 \in Bytes /\ z3 # <<>> /\ Head(z3) = n /\ Tail(z3) = v
  <2>1. v \in Seq(Codec!Byte)
    BY DEF Bytes
  <2> QED
    BY <1>5, <2>1, HeadJoin DEF Bytes
<1>7. PICK z2 : z2 = Codec!Block(r.active) \o z3
  OBVIOUS
<1>8. z2 \in Bytes
  BY <1>6, <1>7, ReportFields, BlockBytes, JoinBytes
<1>9. PICK z1 : z1 = Codec!Block(r.desired) \o z2
  OBVIOUS
<1>10. z1 \in Bytes
  BY <1>8, <1>9, ReportFields, BlockBytes, JoinBytes
<1>11. PICK z0 : z0 = Codec!Block(r.layout) \o z1
  OBVIOUS
<1>12. z0 \in Bytes
  BY <1>10, <1>11, ReportFields, BlockBytes, JoinBytes
<1>13. PICK z : z = p \o w
  OBVIOUS
<1>14. z = <<Codec!Magic>> \o z0
  <2>1. z = <<Codec!Magic>> \o Behind(r, v)
    BY <1>1, <1>3, <1>13, BehindWithMore
  <2>2. Behind(r, v) = z0
    BY <1>4, <1>5, <1>7, <1>9, <1>11 DEF Behind
  <2> QED
    BY <2>1, <2>2
<1>15. z # <<>> /\ Head(z) = Codec!Magic /\ Tail(z) = z0
  <2>1. z0 \in Seq(Codec!Byte)
    BY <1>12 DEF Bytes
  <2> QED
    BY <1>14, <2>1, MagicByte, HeadJoin
<1>16. PICK g1 : g1 = Append(<<>>, r.layout)
  OBVIOUS
<1>17. PICK g2 : g2 = Append(g1, r.desired)
  OBVIOUS
<1>18. PICK g3 : g3 = Append(g2, r.active)
  OBVIOUS
<1>19. Codec!TakeBlock(At(z0, <<>>), TRUE) = At(z1, g1)
  BY <1>10, <1>11, <1>16, ReportFields, BlockTaken
<1>20. Codec!TakeBlock(At(z1, g1), FALSE) = At(z2, g2)
  BY <1>8, <1>9, <1>17, ReportFields, BlockTaken
<1>21. Codec!TakeBlock(At(z2, g2), FALSE) = At(z3, g3)
  BY <1>6, <1>7, <1>18, ReportFields, BlockTaken
<1>22. PICK lists : lists = Codec!TakeBlock(Codec!TakeBlock(Codec!TakeBlock(
                              [ok |-> TRUE, rest |-> Tail(z), got |-> <<>>], TRUE), FALSE), FALSE)
  OBVIOUS
<1>23. lists.ok = TRUE /\ lists.rest = z3 /\ lists.got = g3
  <2>1. [ok |-> TRUE, rest |-> Tail(z), got |-> <<>>] = At(z0, <<>>)
    BY <1>15 DEF At
  <2>2. lists = At(z3, g3)
    BY <1>19, <1>20, <1>21, <1>22, <2>1
  <2> QED
    BY <2>2 DEF At
<1>24. PICK all : all = Codec!TakeSenders([ok |-> TRUE, rest |-> Tail(lists.rest), got |-> <<>>],
                                    Head(lists.rest))
  OBVIOUS
<1>25. all.ok = TRUE /\ all.rest = w /\ all.got = r.senders
  <2>1. all = Codec!TakeSenders(At(v, <<>>), n)
    BY <1>6, <1>23, <1>24 DEF At
  <2>2. Codec!TakeSenders(At(q \o w, <<>>), Len(r.senders)) = At(w, r.senders)
    BY <1>1, ReportFields, SendersTaken
  <2>3. all = At(w, r.senders)
    BY <1>3, <1>4, <2>1, <2>2
  <2> QED
    BY <2>3 DEF At
<1>26. Codec!DecodeFront(z) = [ok |-> TRUE, rest |-> all.rest,
                         report |-> [layout |-> lists.got[1], desired |-> lists.got[2],
                                     active |-> lists.got[3], senders |-> all.got]]
  BY <1>6, <1>15, <1>22, <1>23, <1>24, <1>25 DEF Codec!DecodeFront
<1>27. g3[1] = r.layout /\ g3[2] = r.desired /\ g3[3] = r.active
  BY <1>16, <1>17, <1>18, Thrice
<1>28. r = [layout |-> lists.got[1], desired |-> lists.got[2],
            active |-> lists.got[3], senders |-> all.got]
  BY <1>23, <1>25, <1>27, ReportFields
<1> QED
  BY <1>2, <1>13, <1>25, <1>26, <1>28

\* What a decoder reads was written, and something may be left.
IsRead(p, q, w, r) ==
  /\ Written(q, r) /\ p = q \o w
  /\ Codec!DecodeFront(p) = [ok |-> TRUE, rest |-> w, report |-> r]

\* Blocks that are met are those of a report.
BlockAt(r, g, isText, b, w) ==
  /\ Len(b) \in Codec!Byte /\ (isText => Codec!IsText(b)) /\ r = Codec!Block(b) \o w
  /\ Codec!TakeBlock(At(r, g), isText) = At(w, Append(g, b))

\* BlockMet, for the blocks of a report.
LEMMA BlockFound ==
  ASSUME MaxByte \in Nat, NEW r \in Bytes, NEW g, NEW isText \in BOOLEAN,
         Codec!TakeBlock(At(r, g), isText).ok
  PROVE  \E b \in Bytes, w \in Bytes : BlockAt(r, g, isText, b, w)
BY BlockMet DEF BlockAt

\* No block is taken after something was refused.
LEMMA BlockFrom ==
  ASSUME NEW s, NEW isText, Codec!TakeBlock(s, isText).ok
  PROVE  s.ok
<1>1. ~Codec!Failed.ok
  BY DEF Codec!Failed
<1>2. SUFFICES ASSUME ~s.ok PROVE Codec!TakeBlock(s, isText) = Codec!Failed
  BY <1>1
<1> QED
  BY <1>2 DEF Codec!TakeBlock

\* Whatever is decoded was written, and what is left came behind it.
LEMMA ReadWritten ==
  ASSUME MaxByte \in Nat, MaxByte >= 1, MaxFlags \in Nat, MaxFlags <= MaxByte,
         NEW p \in Bytes, Codec!DecodeFront(p).ok
  PROVE  \E r \in ReportRead, q \in Bytes, w \in Bytes : IsRead(p, q, w, r)
<1>1. ~Codec!Failed.ok
  BY DEF Codec!Failed
<1>2. p # <<>> /\ Head(p) = Codec!Magic
  BY <1>1 DEF Codec!DecodeFront
<1>3. PICK z0 \in Bytes : z0 = Tail(p) /\ p = <<Codec!Magic>> \o z0
  <2>1. p \in Seq(Codec!Byte)
    BY DEF Bytes
  <2> QED
    BY <1>2, <2>1, HeadApart DEF Bytes
<1>4. PICK t : t = Codec!TakeBlock(At(z0, <<>>), TRUE)
  OBVIOUS
<1>5. PICK u : u = Codec!TakeBlock(t, FALSE)
  OBVIOUS
<1>6. PICK lists : lists = Codec!TakeBlock(u, FALSE)
  OBVIOUS
<1>7. lists = Codec!TakeBlock(Codec!TakeBlock(Codec!TakeBlock(
                [ok |-> TRUE, rest |-> Tail(p), got |-> <<>>], TRUE), FALSE), FALSE)
  BY <1>3, <1>4, <1>5, <1>6 DEF At
<1>8. lists.ok /\ lists.rest # <<>>
  BY <1>1, <1>2, <1>7 DEF Codec!DecodeFront
<1>9. PICK all : all = Codec!TakeSenders([ok |-> TRUE, rest |-> Tail(lists.rest), got |-> <<>>],
                                   Head(lists.rest))
  OBVIOUS
<1>10. Codec!DecodeFront(p) = IF ~all.ok THEN Codec!Failed
                        ELSE [ok |-> TRUE, rest |-> all.rest,
                              report |-> [layout |-> lists.got[1], desired |-> lists.got[2],
                                          active |-> lists.got[3], senders |-> all.got]]
  BY <1>2, <1>7, <1>8, <1>9 DEF Codec!DecodeFront
<1>11. all.ok
  BY <1>1, <1>10
<1>12. u.ok /\ t.ok
  BY <1>5, <1>6, <1>8, BlockFrom
<1>13. PICK k \in Bytes, z1 \in Bytes : BlockAt(z0, <<>>, TRUE, k, z1)
  BY <1>4, <1>12, BlockFound
<1>14. PICK g1 : g1 = Append(<<>>, k)
  OBVIOUS
<1>15. t = At(z1, g1) /\ z0 = Codec!Block(k) \o z1 /\ Codec!IsText(k) /\ Len(k) \in Codec!Byte
  BY <1>4, <1>13, <1>14 DEF BlockAt
<1>16. PICK d \in Bytes, z2 \in Bytes : BlockAt(z1, g1, FALSE, d, z2)
  BY <1>5, <1>12, <1>15, BlockFound
<1>17. PICK g2 : g2 = Append(g1, d)
  OBVIOUS
<1>18. u = At(z2, g2) /\ z1 = Codec!Block(d) \o z2 /\ Len(d) \in Codec!Byte
  BY <1>5, <1>15, <1>16, <1>17 DEF BlockAt
<1>19. PICK a \in Bytes, z3 \in Bytes : BlockAt(z2, g2, FALSE, a, z3)
  BY <1>6, <1>8, <1>18, BlockFound
<1>20. PICK g3 : g3 = Append(g2, a)
  OBVIOUS
<1>21. lists = At(z3, g3) /\ z2 = Codec!Block(a) \o z3 /\ Len(a) \in Codec!Byte
  BY <1>6, <1>18, <1>19, <1>20 DEF BlockAt
<1>22. lists.rest = z3 /\ lists.got = g3
  BY <1>21 DEF At
<1>23. PICK n \in Codec!Byte, v \in Bytes : n = Head(z3) /\ v = Tail(z3) /\ z3 = <<n>> \o v
  <2>1. z3 \in Seq(Codec!Byte) /\ z3 # <<>>
    BY <1>8, <1>22 DEF Bytes
  <2> QED
    BY <2>1, HeadApart DEF Bytes
<1>24. all = Codec!TakeSenders(At(v, <<>>), n)
  BY <1>9, <1>22, <1>23 DEF At
<1>25. Met(v, n)
  <2>1. n \in Nat
    BY DEF Codec!Byte
  <2> QED
    BY <1>11, <1>24, <2>1, SendersMet
<1>26. PICK ss \in Seq(SenderRead), y \in Bytes, w \in Bytes :
         Len(ss) = n /\ Spells(y, ss) /\ v = y \o w /\ all = At(w, ss)
  BY <1>24, <1>25 DEF Met
<1>27. PICK r : r = [layout |-> k, desired |-> d, active |-> a, senders |-> ss]
  OBVIOUS
<1>28. r \in ReportRead
  BY <1>15, <1>18, <1>21, <1>26, <1>27 DEF ReportRead, Lists
<1>29. r.layout = k /\ r.desired = d /\ r.active = a /\ r.senders = ss
  BY <1>27
<1>30. PICK q \in Bytes : q = <<Codec!Magic>> \o Behind(r, y)
  BY <1>28, BehindWithMore, MagicByte, JoinBytes
<1>31. Written(q, r)
  BY <1>26, <1>29, <1>30 DEF Written
<1>32. p = q \o w
  <2>1. q \o w = <<Codec!Magic>> \o Behind(r, y \o w)
    BY <1>28, <1>30, BehindWithMore
  <2>2. Behind(r, v) = z0
    BY <1>15, <1>18, <1>21, <1>23, <1>26, <1>29 DEF Behind
  <2> QED
    BY <1>3, <1>26, <2>1, <2>2
<1>33. Codec!DecodeFront(p) = [ok |-> TRUE, rest |-> w, report |-> r]
  BY <1>28, <1>31, <1>32, WrittenRead
<1>34. IsRead(p, q, w, r)
  BY <1>31, <1>32, <1>33 DEF IsRead
<1> QED
  BY <1>28, <1>34

\* a and b differ only where a has a second 0: in the status of a sender that
\* has none.
Like(a, b) ==
  /\ Len(a) = Len(b)
  /\ \A i \in 1 .. Len(a) : a[i] # b[i] => i > 1 /\ a[i] = 0 /\ a[i - 1] = 0

\* Likeness goes on through joining, and everything is like itself.
LEMMA LikeJoin ==
  ASSUME NEW a \in Bytes, NEW b \in Bytes, NEW c \in Bytes, NEW d \in Bytes,
         Like(a, b), Like(c, d)
  PROVE  Like(a \o c, b \o d)
<1>1. PICK u : u = a \o c
  OBVIOUS
<1>2. PICK v : v = b \o d
  OBVIOUS
<1>3. u \in Bytes /\ v \in Bytes /\ IsJoin(u, a, c) /\ IsJoin(v, b, d)
  BY <1>1, <1>2, JoinFacts DEF Bytes
<1>4. PICK m \in Nat, n \in Nat : m = Len(a) /\ n = Len(c)
  BY DEF Bytes
<1>5. Len(b) = m /\ Len(d) = n
  BY <1>4 DEF Like
<1>6. Len(u) = m + n /\ (\A i \in 1 .. m : u[i] = a[i]) /\ \A i \in 1 .. n : u[m + i] = c[i]
  BY <1>3, <1>4 DEF IsJoin
<1>7. Len(v) = m + n /\ (\A i \in 1 .. m : v[i] = b[i]) /\ \A i \in 1 .. n : v[m + i] = d[i]
  BY <1>3, <1>4, <1>5 DEF IsJoin
<1>8. ASSUME NEW i \in 1 .. m + n, u[i] # v[i]
      PROVE  i > 1 /\ u[i] = 0 /\ u[i - 1] = 0
  <2>1. CASE i <= m
    <3>1. i \in 1 .. m
      BY <2>1
    <3>2. u[i] = a[i] /\ v[i] = b[i]
      BY <1>6, <1>7, <3>1
    <3>3. i > 1 /\ a[i] = 0 /\ a[i - 1] = 0
      BY <1>4, <1>8, <3>1, <3>2 DEF Like
    <3>4. i - 1 \in 1 .. m
      BY <3>1, <3>3
    <3> QED
      BY <1>6, <3>2, <3>3, <3>4
  <2>2. CASE i > m
    <3>1. PICK j \in 1 .. n : i = m + j
      <4>1. i - m \in 1 .. n /\ i = m + (i - m)
        BY <2>2
      <4> QED
        BY <4>1
    <3>2. u[i] = c[j] /\ v[i] = d[j]
      BY <1>6, <1>7, <3>1
    <3>3. j > 1 /\ c[j] = 0 /\ c[j - 1] = 0
      BY <1>4, <1>8, <3>1, <3>2 DEF Like
    <3>4. j - 1 \in 1 .. n /\ i - 1 = m + (j - 1) /\ i > 1
      BY <3>1, <3>3
    <3>5. u[m + (j - 1)] = c[j - 1]
      BY <1>6, <3>4
    <3> QED
      BY <3>2, <3>3, <3>4, <3>5
  <2> QED
    BY <2>1, <2>2
<1>9. Like(u, v)
  BY <1>6, <1>7, <1>8 DEF Like
<1> QED
  BY <1>1, <1>2, <1>9

LEMMA LikeSelf ==
  ASSUME NEW a PROVE Like(a, a)
BY DEF Like

\* The four bytes as encode puts them together, two and two.
LEMMA TwoAndTwo ==
  ASSUME NEW a \in Codec!Byte, NEW b \in Codec!Byte, NEW d \in Codec!Byte, NEW e \in Codec!Byte, NEW c,
         c = <<a, b>> \o <<d, e>>
  PROVE  c \in Bytes /\ Four(c, a, b, d, e)
<1>1. PICK s : s = <<a, b>>
  OBVIOUS
<1>2. s \in Bytes /\ Len(s) = 2 /\ s[1] = a /\ s[2] = b
  BY <1>1 DEF Bytes
<1>3. PICK t : t = <<d, e>>
  OBVIOUS
<1>4. t \in Bytes /\ Len(t) = 2 /\ t[1] = d /\ t[2] = e
  BY <1>3 DEF Bytes
<1>5. c \in Bytes /\ IsJoin(c, s, t)
  BY <1>1, <1>2, <1>3, <1>4, JoinFacts DEF Bytes
<1>6. Len(c) = 4 /\ (\A i \in 1 .. 2 : c[i] = s[i]) /\ \A i \in 1 .. 2 : c[2 + i] = t[i]
  BY <1>2, <1>4, <1>5 DEF IsJoin
<1>7. c[1] = a /\ c[2] = b
  BY <1>2, <1>6
<1>8. c[2 + 1] = d /\ c[2 + 2] = e
  BY <1>4, <1>6
<1> QED
  BY <1>5, <1>6, <1>7, <1>8 DEF Four

\* What a sender is encoded as spells it, and is like all else that does.
LEMMA SenderEncoded ==
  ASSUME MaxByte \in Nat, MaxByte >= 1, MaxFlags \in Nat, MaxFlags <= MaxByte,
         NEW s \in SenderRead
  PROVE  /\ Codec!SenderBytes(s) \in Bytes /\ Spelt(Codec!SenderBytes(s), s)
         /\ \A c : Spelt(c, s) => Like(Codec!SenderBytes(s), c)
<1>1. PICK x \in Codec!Byte : (s.status = <<>> /\ x = 0) \/ (s.status # <<>> /\ s.status = <<x>>)
  <2>1. CASE s.status = <<>>
    <3>1. 0 \in Codec!Byte
      BY DEF Codec!Byte
    <3> QED
      BY <2>1, <3>1
  <2>2. CASE s.status # <<>>
    BY <2>2, SenderFields
  <2> QED
    BY <2>1, <2>2
<1>2. PICK k \in Bytes : k = Codec!Block(s.name)
  BY SenderFields, BlockBytes
<1>3. PICK y : y = IF s.status = <<>> THEN <<0, 0>> ELSE <<1>> \o s.status
  OBVIOUS
<1>4. y = <<Mark(s), x>>
  <2>1. CASE s.status = <<>>
    BY <1>1, <1>3, <2>1 DEF Mark
  <2>2. CASE s.status # <<>>
    <3>1. y = <<1>> \o <<x>> /\ Mark(s) = 1
      BY <1>1, <1>3, <2>2 DEF Mark
    <3>2. <<1>> \o <<x>> = <<1, x>>
      BY OneAndOne
    <3> QED
      BY <3>1, <3>2
  <2> QED
    BY <2>1, <2>2
<1>5. s.addr \in Codec!Byte /\ s.flags \in Codec!Byte /\ Mark(s) \in Codec!Byte
  BY SenderFields DEF Mark, Codec!Byte
<1>6. PICK f : f = <<s.addr, s.flags>> \o y
  OBVIOUS
<1>7. f \in Bytes /\ Four(f, s.addr, s.flags, Mark(s), x)
  BY <1>4, <1>5, <1>6, TwoAndTwo
<1>8. PICK h : h = Fixed(s, x)
  OBVIOUS
<1>9. h \in Bytes /\ Four(h, s.addr, s.flags, Mark(s), x)
  BY <1>8, FixedFacts
<1>10. f = h
  BY <1>7, <1>9, SameFour
<1>11. Codec!SenderBytes(s) = f \o k
  BY <1>2, <1>3, <1>6 DEF Codec!SenderBytes
<1>12. Codec!SenderBytes(s) \in Bytes
  BY <1>7, <1>11, JoinBytes
<1>13. Spelt(Codec!SenderBytes(s), s)
  <2>1. Codec!SenderBytes(s) = Fixed(s, x) \o Codec!Block(s.name)
    BY <1>2, <1>8, <1>10, <1>11
  <2> QED
    BY <1>1, <2>1 DEF Spelt
<1>14. ASSUME NEW c, Spelt(c, s) PROVE Like(Codec!SenderBytes(s), c)
  <2>1. PICK z \in Codec!Byte : (s.status # <<>> => s.status = <<z>>) /\ c = Fixed(s, z) \o Codec!Block(s.name)
    BY <1>14 DEF Spelt
  <2>2. PICK e : e = Fixed(s, z)
    OBVIOUS
  <2>3. e \in Bytes /\ Four(e, s.addr, s.flags, Mark(s), z)
    BY <2>2, FixedFacts
  <2>4. Like(f, e)
    <3>1. CASE s.status = <<>>
      <4>1. x = 0 /\ Mark(s) = 0
        BY <1>1, <3>1 DEF Mark
      <4>2. Len(f) = 4 /\ Len(e) = 4 /\ f[1] = e[1] /\ f[2] = e[2] /\ f[3] = e[3]
            /\ f[3] = 0 /\ f[4] = 0
        BY <1>7, <2>3, <4>1 DEF Four
      <4>3. ASSUME NEW i \in 1 .. 4, f[i] # e[i] PROVE i > 1 /\ f[i] = 0 /\ f[i - 1] = 0
        <5>3. i = 1 \/ i = 2 \/ i = 3 \/ i = 4
          BY <4>3
        <5>1. i = 4
          BY <4>2, <4>3, <5>3
        <5>2. i - 1 = 3 /\ i > 1
          BY <5>1
        <5> QED
          BY <4>2, <5>1, <5>2
      <4> QED
        BY <4>2, <4>3 DEF Like
    <3>2. CASE s.status # <<>>
      <4>1. <<x>> = <<z>>
        BY <1>1, <2>1, <3>2
      <4>2. x = z
        BY <4>1
      <4> QED
        BY <1>8, <1>10, <2>2, <4>2, LikeSelf
    <3> QED
      BY <3>1, <3>2
  <2>5. Like(f \o k, e \o k)
    BY <1>7, <2>3, <2>4, LikeSelf, LikeJoin
  <2> QED
    BY <1>2, <1>11, <2>1, <2>2, <2>5
<1> QED
  BY <1>12, <1>13, <1>14

\* The senders as they are encoded.
Coded(ss) == [i \in DOMAIN ss |-> Codec!SenderBytes(ss[i])]

\* They spell the senders, one more with each, and are like all else that does.
LEMMA CodedFacts ==
  ASSUME MaxByte \in Nat, MaxByte >= 1, MaxFlags \in Nat, MaxFlags <= MaxByte,
         NEW ss \in Seq(SenderRead)
  PROVE  /\ Coded(ss) \in Seq(Bytes) /\ Len(Coded(ss)) = Len(ss)
         /\ FlattenSeq(Coded(ss)) \in Bytes /\ Spells(FlattenSeq(Coded(ss)), ss)
<1>1. PICK n \in Nat : n = Len(ss) /\ DOMAIN ss = 1 .. n
  OBVIOUS
<1>2. PICK cs : cs = Coded(ss)
  OBVIOUS
<1>3. cs = [i \in 1 .. n |-> Codec!SenderBytes(ss[i])]
  BY <1>1, <1>2 DEF Coded
<1>4. \A i \in 1 .. n : Codec!SenderBytes(ss[i]) \in Bytes /\ Spelt(Codec!SenderBytes(ss[i]), ss[i])
  <2>1. \A i \in 1 .. n : ss[i] \in SenderRead
    BY <1>1
  <2> QED
    BY <2>1, SenderEncoded
<1>5. cs \in Seq(Bytes) /\ Len(cs) = n
  BY <1>3, <1>4
<1>6. FlattenSeq(cs) \in Bytes
  <2>1. cs \in Seq(Seq(Codec!Byte))
    BY <1>5 DEF Bytes
  <2> QED
    BY <2>1, FlattenTyped DEF Bytes
<1>7. \A i \in 1 .. n : Spelt(cs[i], ss[i])
  BY <1>3, <1>4
<1>8. Spells(FlattenSeq(cs), ss)
  BY <1>1, <1>5, <1>7 DEF Spells
<1> QED
  BY <1>1, <1>2, <1>5, <1>6, <1>8

LEMMA CodedMore ==
  ASSUME MaxByte \in Nat, MaxByte >= 1, MaxFlags \in Nat, MaxFlags <= MaxByte,
         NEW us \in Seq(SenderRead), NEW s \in SenderRead
  PROVE  FlattenSeq(Coded(Append(us, s))) = FlattenSeq(Coded(us)) \o Codec!SenderBytes(s)
<1>1. PICK n \in Nat : n = Len(us) /\ DOMAIN us = 1 .. n
  OBVIOUS
<1>2. PICK ss : ss = Append(us, s)
  OBVIOUS
<1>3. /\ ss \in Seq(SenderRead) /\ Len(ss) = n + 1 /\ DOMAIN ss = 1 .. n + 1
      /\ ss[n + 1] = s /\ \A i \in 1 .. n : ss[i] = us[i]
  BY <1>1, <1>2, AppendFacts
<1>4. PICK cs : cs = Coded(us)
  OBVIOUS
<1>5. PICK c : c = Codec!SenderBytes(s)
  OBVIOUS
<1>6. cs \in Seq(Bytes) /\ Len(cs) = n /\ c \in Bytes
  BY <1>1, <1>4, <1>5, CodedFacts, SenderEncoded
<1>7. PICK ds : ds = Append(cs, c)
  OBVIOUS
<1>8. ds \in Seq(Bytes) /\ Len(ds) = n + 1 /\ ds[n + 1] = c /\ \A i \in 1 .. n : ds[i] = cs[i]
  BY <1>6, <1>7, AppendFacts
<1>9. PICK es : es = Coded(ss)
  OBVIOUS
<1>10. es \in Seq(Bytes) /\ Len(es) = n + 1
  BY <1>3, <1>9, CodedFacts
<1>11. ASSUME NEW i \in 1 .. n + 1 PROVE ds[i] = es[i]
  <2>1. es[i] = Codec!SenderBytes(ss[i])
    BY <1>3, <1>9 DEF Coded
  <2>2. CASE i = n + 1
    BY <1>3, <1>5, <1>8, <2>1, <2>2
  <2>3. CASE i # n + 1
    <3>1. i \in 1 .. n
      BY <2>3
    <3>2. cs[i] = Codec!SenderBytes(us[i])
      BY <1>1, <1>4, <3>1 DEF Coded
    <3> QED
      BY <1>3, <1>8, <2>1, <3>1, <3>2
  <2> QED
    BY <2>2, <2>3
<1>12. ds = es
  BY <1>8, <1>10, <1>11, SameSeq
<1>13. FlattenSeq(ds) = FlattenSeq(cs) \o c
  <2>1. cs \in Seq(Seq(Codec!Byte)) /\ c \in Seq(Codec!Byte)
    BY <1>6 DEF Bytes
  <2> QED
    BY <1>7, <2>1, FlattenGrows
<1> QED
  BY <1>2, <1>4, <1>5, <1>9, <1>12, <1>13

LEMMA CodedLike ==
  ASSUME MaxByte \in Nat, MaxByte >= 1, MaxFlags \in Nat, MaxFlags <= MaxByte
  PROVE  \A ss \in Seq(SenderRead) : \A p : Spells(p, ss) => Like(FlattenSeq(Coded(ss)), p)
<1>1. PICK T : T = {n \in Nat : \A ss \in Seq(SenderRead) : \A p :
                      Len(ss) = n /\ Spells(p, ss) => Like(FlattenSeq(Coded(ss)), p)}
  OBVIOUS
<1>2. 0 \in T
  <2> SUFFICES ASSUME NEW ss \in Seq(SenderRead), NEW p, Len(ss) = 0, Spells(p, ss)
               PROVE  Like(FlattenSeq(Coded(ss)), p)
    BY <1>1
  <2>1. PICK cs \in Seq(Bytes) : Len(cs) = 0 /\ p = FlattenSeq(cs)
    BY DEF Spells
  <2>2. p = <<>>
    BY <2>1 DEF FlattenSeq
  <2>3. PICK ds : ds = Coded(ss)
    OBVIOUS
  <2>4. ds \in Seq(Bytes) /\ Len(ds) = 0
    BY <2>3, CodedFacts
  <2>5. FlattenSeq(ds) = <<>>
    BY <2>4 DEF FlattenSeq
  <2> QED
    BY <2>2, <2>3, <2>5, LikeSelf
<1>3. ASSUME NEW n \in Nat, n \in T PROVE n + 1 \in T
  <2> SUFFICES ASSUME NEW ss \in Seq(SenderRead), NEW p, Len(ss) = n + 1, Spells(p, ss)
               PROVE  Like(FlattenSeq(Coded(ss)), p)
    BY <1>1
  <2>1. LastSpelt(p, ss, n)
    BY SpellsLess
  <2>2. PICK us \in Seq(SenderRead), s \in SenderRead, q \in Bytes, c \in Bytes :
           /\ Len(us) = n /\ ss = Append(us, s)
           /\ Spells(q, us) /\ Spelt(c, s) /\ p = q \o c
    BY <2>1 DEF LastSpelt
  <2>3. PICK f : f = FlattenSeq(Coded(us))
    OBVIOUS
  <2>4. f \in Bytes
    BY <2>3, CodedFacts
  <2>5. Like(f, q)
    BY <1>1, <1>3, <2>2, <2>3
  <2>6. PICK e : e = Codec!SenderBytes(s)
    OBVIOUS
  <2>7. e \in Bytes /\ Like(e, c)
    BY <2>2, <2>6, SenderEncoded
  <2>8. FlattenSeq(Coded(ss)) = f \o e
    BY <2>2, <2>3, <2>6, CodedMore
  <2>9. Like(f \o e, q \o c)
    BY <2>4, <2>5, <2>7, LikeJoin
  <2> QED
    BY <2>2, <2>8, <2>9
<1>4. Nat \subseteq T
  BY <1>2, <1>3, SetInduction
<1>5. \A ss \in Seq(SenderRead) : Len(ss) \in T
  BY <1>4
<1> QED
  BY <1>1, <1>5

\* The payload of a report, if it fits, is grouped as the decoder takes it.
Out(r) ==
  <<Codec!Magic>> \o Codec!Block(r.layout) \o Codec!Block(r.desired) \o Codec!Block(r.active)
    \o <<Len(r.senders)>> \o FlattenSeq(Coded(r.senders))

\* encode gives that payload or nothing.
LEMMA SameFlatten ==
  ASSUME NEW s
  PROVE  Codec!FlattenSeq(s) = FlattenSeq(s)
  BY DEF Codec!FlattenSeq, FlattenSeq

LEMMA EncodeIs ==
  ASSUME NEW r
  PROVE  Codec!Encode(r) = IF Codec!Encodable(r) /\ Len(Out(r)) <= MaxPayload THEN Out(r) ELSE <<>>
BY SameFlatten DEF Codec!Encode, Out, Coded

\* Joined from the left, and from the right.
Groups(s, t, u, v) == s \o t = u \o v

LEMMA GroupOn ==
  ASSUME NEW x \in Bytes, NEW a \in Bytes, NEW y \in Bytes
  PROVE  Groups(x \o a, y, x, a \o y)
BY Regrouped DEF Groups, Regroups

LEMMA OutGrouped ==
  ASSUME MaxByte \in Nat, MaxByte >= 1, MaxFlags \in Nat, MaxFlags <= MaxByte,
         NEW r \in ReportRead
  PROVE  Out(r) = <<Codec!Magic>> \o Behind(r, FlattenSeq(Coded(r.senders)))
<1>1. PICK m \in Bytes, k \in Bytes, d \in Bytes, a \in Bytes :
        m = <<Codec!Magic>> /\ k = Codec!Block(r.layout) /\ d = Codec!Block(r.desired) /\ a = Codec!Block(r.active)
  BY MagicByte, ReportFields, BlockBytes
<1>2. PICK n : n = <<Len(r.senders)>>
  OBVIOUS
<1>3. n \in Bytes
  <2>1. Len(r.senders) \in Codec!Byte
    BY ReportFields
  <2> QED
    BY <1>2, <2>1 DEF Bytes
<1>4. PICK q : q = FlattenSeq(Coded(r.senders))
  OBVIOUS
<1>5. q \in Bytes
  BY <1>4, ReportFields, CodedFacts
<1>6. PICK x1 \in Bytes : x1 = m \o k
  BY JoinBytes
<1>7. PICK x2 \in Bytes : x2 = x1 \o d
  BY JoinBytes
<1>8. PICK x3 \in Bytes : x3 = x2 \o a
  BY JoinBytes
<1>9. PICK y1 \in Bytes : y1 = n \o q
  BY <1>3, <1>5, JoinBytes
<1>10. PICK y2 \in Bytes : y2 = a \o y1
  BY JoinBytes
<1>11. PICK y3 \in Bytes : y3 = d \o y2
  BY JoinBytes
<1>12. Out(r) = (x3 \o n) \o q
  BY <1>1, <1>2, <1>4, <1>6, <1>7, <1>8 DEF Out
<1>13. Groups(x3 \o n, q, x3, y1)
  BY <1>3, <1>5, <1>9, GroupOn
<1>14. Groups(x3, y1, x2, y2)
  BY <1>8, <1>10, GroupOn
<1>15. Groups(x2, y2, x1, y3)
  BY <1>7, <1>11, GroupOn
<1>16. Groups(x1, y3, m, k \o y3)
  BY <1>6, GroupOn
<1>17. Out(r) = m \o (k \o y3)
  BY <1>12, <1>13, <1>14, <1>15, <1>16 DEF Groups
<1>18. k \o y3 = Behind(r, q)
  BY <1>1, <1>2, <1>9, <1>10, <1>11 DEF Behind
<1> QED
  BY <1>1, <1>4, <1>17, <1>18

\* The payload of a report is one that it is written as.
LEMMA OutWritten ==
  ASSUME MaxByte \in Nat, MaxByte >= 1, MaxFlags \in Nat, MaxFlags <= MaxByte,
         NEW r \in ReportRead
  PROVE  Written(Out(r), r) /\ Out(r) # <<>>
<1>1. PICK q : q = FlattenSeq(Coded(r.senders))
  OBVIOUS
<1>2. q \in Bytes /\ Spells(q, r.senders)
  BY <1>1, ReportFields, CodedFacts
<1>3. Out(r) = <<Codec!Magic>> \o Behind(r, q)
  BY <1>1, OutGrouped
<1>4. PICK z : z = Behind(r, q)
  OBVIOUS
<1>5. z \in Seq(Codec!Byte)
  BY <1>2, <1>4, BehindBytes DEF Bytes
<1>6. Out(r) # <<>>
  BY <1>3, <1>4, <1>5, MagicByte, HeadJoin
<1> QED
  BY <1>2, <1>3, <1>6 DEF Written

\* Whatever is read as r is like what r is encoded as.
LEMMA OutLike ==
  ASSUME MaxByte \in Nat, MaxByte >= 1, MaxFlags \in Nat, MaxFlags <= MaxByte,
         NEW r \in ReportRead, NEW p, Written(p, r)
  PROVE  Like(Out(r), p)
<1>1. PICK q \in Bytes : Spells(q, r.senders) /\ p = <<Codec!Magic>> \o Behind(r, q)
  BY DEF Written
<1>2. PICK f : f = FlattenSeq(Coded(r.senders))
  OBVIOUS
<1>3. f \in Bytes /\ Like(f, q)
  BY <1>1, <1>2, ReportFields, CodedFacts, CodedLike
<1>4. PICK m \in Bytes, k \in Bytes, d \in Bytes, a \in Bytes :
        m = <<Codec!Magic>> /\ k = Codec!Block(r.layout) /\ d = Codec!Block(r.desired) /\ a = Codec!Block(r.active)
  BY MagicByte, ReportFields, BlockBytes
<1>5. PICK n : n = <<Len(r.senders)>>
  OBVIOUS
<1>6. n \in Bytes
  <2>1. Len(r.senders) \in Codec!Byte
    BY ReportFields
  <2> QED
    BY <1>5, <2>1 DEF Bytes
<1>7. n \o f \in Bytes /\ n \o q \in Bytes /\ Like(n \o f, n \o q)
  BY <1>3, <1>6, JoinBytes, LikeSelf, LikeJoin
<1>8. PICK f1 \in Bytes, q1 \in Bytes : f1 = n \o f /\ q1 = n \o q
  BY <1>7
<1>9. PICK f2 \in Bytes, q2 \in Bytes : f2 = a \o f1 /\ q2 = a \o q1
  BY JoinBytes
<1>10. Like(f2, q2)
  BY <1>7, <1>8, <1>9, LikeSelf, LikeJoin
<1>11. PICK f3 \in Bytes, q3 \in Bytes : f3 = d \o f2 /\ q3 = d \o q2
  BY JoinBytes
<1>12. Like(f3, q3)
  BY <1>10, <1>11, LikeSelf, LikeJoin
<1>13. PICK f4 \in Bytes, q4 \in Bytes : f4 = k \o f3 /\ q4 = k \o q3
  BY JoinBytes
<1>14. Like(f4, q4)
  BY <1>12, <1>13, LikeSelf, LikeJoin
<1>15. Like(m \o f4, m \o q4)
  BY <1>14, LikeSelf, LikeJoin
<1>16. f4 = Behind(r, f) /\ q4 = Behind(r, q)
  BY <1>4, <1>5, <1>8, <1>9, <1>11, <1>13 DEF Behind
<1> QED
  BY <1>1, <1>2, <1>4, <1>15, <1>16, OutGrouped

\* A sequence is over whatever holds its range.
LEMMA InRange ==
  ASSUME NEW S, NEW s \in Seq(S), NEW T, Codec!Range(s) \subseteq T
  PROVE  s \in Seq(T)
<1>1. \A i \in 1 .. Len(s) : s[i] \in Codec!Range(s)
  BY DEF Codec!Range
<1>2. \A i \in 1 .. Len(s) : s[i] \in T
  BY <1>1
<1> QED
  BY <1>2, SeqOver

\* Texts, constants and reports as StatusCodecAssumption gives them.
LEMMA TextGiven ==
  ASSUME MaxByte \in Nat, MaxByte >= 1, NEW s \in Seq(0 .. MaxByte - 1)
  PROVE  s \in Bytes /\ Codec!IsText(s)
<1>1. 0 .. MaxByte - 1 \subseteq Codec!Byte /\ MaxByte \notin 0 .. MaxByte - 1
  BY DEF Codec!Byte
<1>2. \A i \in 1 .. Len(s) : s[i] \in 0 .. MaxByte - 1
  OBVIOUS
<1>3. \A i \in 1 .. Len(s) : s[i] \in Codec!Byte
  BY <1>1, <1>2
<1>4. s \in Seq(Codec!Byte)
  BY <1>3, SeqOver
<1>5. MaxByte \notin Codec!Range(s)
  <2>1. \A i \in DOMAIN s : s[i] # MaxByte
    BY <1>1, <1>2
  <2> QED
    BY <2>1 DEF Codec!Range
<1> QED
  BY <1>4, <1>5 DEF Bytes, Codec!IsText

LEMMA ConstantsGiven ==
  ASSUME Codec!StatusCodecAssumption
  PROVE  /\ MaxByte \in Nat /\ MaxByte >= 1 /\ MaxFlags \in Nat /\ MaxFlags <= MaxByte
         /\ MaxPayload \in Nat
BY DEF Codec!StatusCodecAssumption

LEMMA ReportTyped ==
  ASSUME Codec!StatusCodecAssumption, NEW r \in Reports
  PROVE  r \in [layout : Seq(0 .. MaxByte - 1), desired : Seq(Nat), active : Seq(Nat),
                senders : Seq([addr : Nat, flags : Nat, name : Seq(0 .. MaxByte - 1),
                               status : {<<>>} \cup {<<b>> : b \in 0 .. MaxByte}])]
BY DEF Codec!StatusCodecAssumption

\* A report of the Controller that can be encoded is one that can be read.
LEMMA ReportGiven ==
  ASSUME Codec!StatusCodecAssumption, NEW r \in Reports, Codec!Encodable(r)
  PROVE  r \in ReportRead
<1>0. MaxByte \in Nat /\ MaxByte >= 1 /\ MaxFlags \in Nat /\ MaxFlags <= MaxByte
  BY ConstantsGiven
<1>1. PICK Snd : Snd = [addr : Nat, flags : Nat, name : Seq(0 .. MaxByte - 1),
                        status : {<<>>} \cup {<<b>> : b \in 0 .. MaxByte}]
  OBVIOUS
<1>2. r \in [layout : Seq(0 .. MaxByte - 1), desired : Seq(Nat), active : Seq(Nat),
             senders : Seq(Snd)]
  BY <1>1, ReportTyped
<1>3. /\ r.layout \in Seq(0 .. MaxByte - 1) /\ r.desired \in Seq(Nat) /\ r.active \in Seq(Nat)
      /\ r.senders \in Seq(Snd)
      /\ r = [layout |-> r.layout, desired |-> r.desired, active |-> r.active,
              senders |-> r.senders]
  BY <1>2
<1>4. /\ Len(r.layout) \in Codec!Byte /\ Len(r.desired) \in Codec!Byte /\ Len(r.active) \in Codec!Byte
      /\ Len(r.senders) \in Codec!Byte
      /\ Codec!Range(r.desired) \subseteq Codec!Byte /\ Codec!Range(r.active) \subseteq Codec!Byte
      /\ \A s \in Codec!Range(r.senders) : s.addr \in Codec!Byte /\ s.flags <= MaxFlags /\ Len(s.name) \in Codec!Byte
  BY DEF Codec!Encodable
<1>5. r.layout \in {b \in Lists : Codec!IsText(b)}
  BY <1>0, <1>3, <1>4, TextGiven DEF Lists
<1>6. r.desired \in Lists /\ r.active \in Lists
  BY <1>3, <1>4, InRange DEF Lists, Bytes
<1>7. ASSUME NEW i \in 1 .. Len(r.senders) PROVE r.senders[i] \in SenderRead
  <2>1. PICK s \in Snd : s = r.senders[i]
    BY <1>3
  <2>2. s \in Codec!Range(r.senders)
    BY <1>3, <2>1 DEF Codec!Range
  <2>3. s.addr \in Codec!Byte /\ s.flags <= MaxFlags /\ Len(s.name) \in Codec!Byte
    BY <1>4, <2>2
  <2>4. /\ s.flags \in Nat /\ s.name \in Seq(0 .. MaxByte - 1)
        /\ s.status \in {<<>>} \cup {<<b>> : b \in Codec!Byte}
        /\ s = [addr |-> s.addr, flags |-> s.flags, name |-> s.name, status |-> s.status]
    BY <1>1 DEF Codec!Byte
  <2>5. s.flags \in 0 .. MaxFlags
    BY <1>0, <2>3, <2>4
  <2>6. s.name \in {b \in Bytes : Len(b) \in Codec!Byte /\ Codec!IsText(b)}
    BY <1>0, <2>3, <2>4, TextGiven
  <2>7. s \in SenderRead
    BY <2>3, <2>4, <2>5, <2>6 DEF SenderRead
  <2> QED
    BY <2>1, <2>7
<1>8. r.senders \in Seq(SenderRead)
  BY <1>3, <1>7, SeqOver
<1> QED
  BY <1>3, <1>4, <1>5, <1>6, <1>8 DEF ReportRead

\* A report that is encoded is written.
LEMMA EncodedWritten ==
  ASSUME Codec!StatusCodecAssumption, NEW r \in Reports, Codec!Encode(r) # <<>>
  PROVE  r \in ReportRead /\ Written(Codec!Encode(r), r) /\ Len(Codec!Encode(r)) <= MaxPayload
<1>1. Codec!Encodable(r) /\ Len(Out(r)) <= MaxPayload /\ Codec!Encode(r) = Out(r)
  BY EncodeIs
<1>2. r \in ReportRead
  BY <1>1, ReportGiven
<1> QED
  BY <1>1, <1>2, ConstantsGiven, OutWritten

\* Whatever can be read can be encoded, if it fits.
LEMMA ReadEncodable ==
  ASSUME MaxByte \in Nat, MaxByte >= 1, MaxFlags \in Nat, MaxFlags <= MaxByte,
         NEW r \in ReportRead
  PROVE  Codec!Encodable(r)
<1>1. {Len(r.layout), Len(r.desired), Len(r.active), Len(r.senders)} \subseteq Codec!Byte
  BY ReportFields
<1>2. Codec!Range(r.desired) \subseteq Codec!Byte /\ Codec!Range(r.active) \subseteq Codec!Byte
  <2>1. r.desired \in Seq(Codec!Byte) /\ r.active \in Seq(Codec!Byte)
    BY ReportFields DEF Bytes
  <2>2. (\A i \in DOMAIN r.desired : r.desired[i] \in Codec!Byte)
        /\ \A i \in DOMAIN r.active : r.active[i] \in Codec!Byte
    BY <2>1
  <2> QED
    BY <2>2 DEF Codec!Range
<1>3. ASSUME NEW s \in Codec!Range(r.senders)
      PROVE  s.addr \in Codec!Byte /\ s.flags <= MaxFlags /\ Len(s.name) \in Codec!Byte
  <2>1. r.senders \in Seq(SenderRead)
    BY ReportFields
  <2>2. s \in SenderRead
    BY <2>1 DEF Codec!Range
  <2>3. s.addr \in Codec!Byte /\ s.flags \in 0 .. MaxFlags /\ Len(s.name) \in Codec!Byte
    BY <2>2, SenderFields
  <2> QED
    BY <2>3
<1> QED
  BY <1>1, <1>2, <1>3 DEF Codec!Encodable

\* What is read of something that is no longer than a payload is encoded again
\* as something like it.
LEMMA AgainLike ==
  ASSUME Codec!StatusCodecAssumption, NEW r \in ReportRead, NEW p, Written(p, r), Len(p) <= MaxPayload
  PROVE  Like(Codec!Encode(r), p)
<1>1. MaxByte \in Nat /\ MaxByte >= 1 /\ MaxFlags \in Nat /\ MaxFlags <= MaxByte
  BY ConstantsGiven
<1>2. Like(Out(r), p) /\ Codec!Encodable(r)
  BY <1>1, OutLike, ReadEncodable
<1>3. Len(Out(r)) <= MaxPayload
  BY <1>2 DEF Like
<1> QED
  BY <1>2, <1>3, EncodeIs

\* What has arrived is what was sent, a front of it, it with a byte behind it, or
\* as long as it.
Arrival ==
  /\ report \in Reports /\ arrived \in Bytes
  /\ sent # <<>> => sent = Codec!Encode(report) /\ sent \in Bytes
  /\ arrived # sent =>
       /\ sent # <<>>
       /\ \/ \E w \in Bytes : w # <<>> /\ sent = arrived \o w
          \/ \E w \in Bytes : w # <<>> /\ arrived = sent \o w
          \/ Len(arrived) = Len(sent)

\* A report that arrives as it was sent is read, with nothing left.
LEMMA SentRead ==
  ASSUME Codec!StatusCodecAssumption, Arrival, sent # <<>>
  PROVE  /\ report \in ReportRead /\ Written(sent, report) /\ Len(sent) <= MaxPayload
         /\ \A w \in Bytes : Codec!DecodeFront(sent \o w)
                               = [ok |-> TRUE, rest |-> w, report |-> report]
<1>1. report \in ReportRead /\ Written(sent, report) /\ Len(sent) <= MaxPayload
  BY EncodedWritten DEF Arrival
<1>2. MaxByte \in Nat /\ MaxByte >= 1 /\ MaxFlags \in Nat /\ MaxFlags <= MaxByte
  BY ConstantsGiven
<1> QED
  BY <1>1, <1>2, WrittenRead

\* What is decoded at all is all of it.
LEMMA DecodeOk ==
  ASSUME NEW p, Codec!Decode(p).ok
  PROVE  Codec!DecodeFront(p).ok /\ Codec!DecodeFront(p).rest = <<>> /\ Codec!Decode(p) = Codec!DecodeFront(p)
<1>1. ~Codec!Failed.ok
  BY DEF Codec!Failed
<1> QED
  BY <1>1 DEF Codec!Decode

\* Nothing behind a payload.
LEMMA NothingBehind ==
  ASSUME NEW p \in Bytes
  PROVE  p \o <<>> = p /\ <<>> \in Bytes
BY DEF Bytes

\* What has arrived so is read as what was sent, or refused, or like it.
LEMMA ArrivalExact ==
  ASSUME Codec!StatusCodecAssumption, Arrival
  PROVE  Codec!CodecExact
<1>1. MaxByte \in Nat /\ MaxByte >= 1 /\ MaxFlags \in Nat /\ MaxFlags <= MaxByte
  BY ConstantsGiven
<1>2. Codec!RoundTrip
  <2> SUFFICES ASSUME arrived # <<>>, arrived = sent
               PROVE  Codec!Decode(arrived).ok /\ Codec!Decode(arrived).report = report
    BY DEF Codec!RoundTrip
  <2>1. PICK d : d = Codec!DecodeFront(arrived)
    OBVIOUS
  <2>2. d = [ok |-> TRUE, rest |-> <<>>, report |-> report]
    <3>1. arrived \o <<>> = arrived /\ <<>> \in Bytes
      BY NothingBehind DEF Arrival
    <3>2. Codec!DecodeFront(sent \o <<>>) = [ok |-> TRUE, rest |-> <<>>, report |-> report]
      BY <3>1, SentRead
    <3> QED
      BY <2>1, <3>1, <3>2
  <2>3. Codec!Decode(arrived) = d
    BY <2>1, <2>2 DEF Codec!Decode
  <2> QED
    BY <2>2, <2>3
<1>3. Codec!Unambiguous
  <2> SUFFICES ASSUME arrived # sent, Codec!Decode(arrived).ok
               PROVE  LET again == Codec!Encode(Codec!Decode(arrived).report)
                      IN  /\ Len(arrived) = Len(sent) /\ Len(again) = Len(arrived)
                          /\ \A i \in DOMAIN again :
                               again[i] # arrived[i] => again[i] = 0 /\ again[i - 1] = 0
    BY DEF Codec!Unambiguous
  <2>1. PICK r \in ReportRead, q \in Bytes, w \in Bytes : IsRead(arrived, q, w, r)
    BY <1>1, DecodeOk, ReadWritten DEF Arrival
  <2>2. w = <<>> /\ Codec!Decode(arrived).report = r
    BY <2>1, DecodeOk DEF IsRead
  <2>3. Written(arrived, r)
    <3>1. q \o <<>> = q
      BY NothingBehind
    <3> QED
      BY <2>1, <2>2, <3>1 DEF IsRead
  <2>4. sent # <<>> /\ sent \in Bytes
    BY DEF Arrival
  <2>5. ASSUME NEW v \in Bytes, v # <<>>, sent = arrived \o v PROVE FALSE
    <3>1. Codec!DecodeFront(arrived \o v) = [ok |-> TRUE, rest |-> v, report |-> r]
      BY <1>1, <2>3, WrittenRead
    <3>2. Codec!DecodeFront(sent \o <<>>) = [ok |-> TRUE, rest |-> <<>>, report |-> report]
      BY <2>4, NothingBehind, SentRead
    <3>3. Codec!DecodeFront(sent).rest = v /\ Codec!DecodeFront(sent).rest = <<>>
      BY <2>4, <2>5, <3>1, <3>2, NothingBehind
    <3> QED
      BY <2>5, <3>3
  <2>6. ASSUME NEW v \in Bytes, v # <<>>, arrived = sent \o v PROVE FALSE
    <3>1. Codec!DecodeFront(arrived) = [ok |-> TRUE, rest |-> v, report |-> report]
      BY <2>4, <2>6, SentRead
    <3>2. Codec!DecodeFront(arrived).rest = v
      BY <3>1
    <3> QED
      BY <2>6, <3>2, DecodeOk
  <2>7. Len(arrived) = Len(sent)
    BY <2>5, <2>6 DEF Arrival
  <2>8. Len(arrived) <= MaxPayload
    BY <2>4, <2>7, SentRead
  <2>9. PICK again : again = Codec!Encode(r)
    OBVIOUS
  <2>10. Like(again, arrived)
    BY <2>3, <2>8, <2>9, AgainLike
  <2>11. again = Out(r) /\ Out(r) \in Bytes
    <3>1. Codec!Encodable(r) /\ Like(Out(r), arrived) /\ Written(Out(r), r)
      BY <1>1, <2>3, OutLike, ReadEncodable, OutWritten
    <3>2. Len(Out(r)) <= MaxPayload
      BY <2>8, <3>1 DEF Like
    <3>3. Out(r) \in Bytes
      BY <1>1, <3>1, NothingBehind, WrittenRead
    <3> QED
      BY <2>9, <3>1, <3>2, <3>3, EncodeIs
  <2>12. DOMAIN again = 1 .. Len(again)
    BY <2>11 DEF Bytes
  <2>13. /\ Len(again) = Len(arrived)
         /\ \A i \in DOMAIN again : again[i] # arrived[i] => again[i] = 0 /\ again[i - 1] = 0
    BY <2>10, <2>12 DEF Like
  <2> QED
    BY <2>2, <2>7, <2>9, <2>13
<1> QED
  BY <1>2, <1>3 DEF Codec!CodecExact

\* Arrival holds from the start, and each step keeps it.
LEMMA ArrivalInit ==
  ASSUME Codec!StatusCodecAssumption, Codec!Init
  PROVE  Arrival
BY DEF Codec!Init, Arrival, Bytes

LEMMA ArrivalStep ==
  ASSUME Codec!StatusCodecAssumption, Arrival, [Codec!Next]_(Codec!codecVars)
  PROVE  Arrival'
<1>1. CASE Codec!Report
  <2>1. sent' = Codec!Encode(report) /\ sent' # <<>> /\ arrived' = sent' /\ report' = report
    BY <1>1 DEF Codec!Report
  <2>2. PICK p : p = Codec!Encode(report)
    OBVIOUS
  <2>3. p \in Bytes
    <3>1. report \in ReportRead /\ Written(p, report)
      BY <2>1, <2>2, EncodedWritten DEF Arrival
    <3>2. <<>> \in Bytes
      BY DEF Bytes
    <3>3. MaxByte \in Nat /\ MaxByte >= 1 /\ MaxFlags \in Nat /\ MaxFlags <= MaxByte
      BY ConstantsGiven
    <3>4. PICK r \in ReportRead : r = report
      BY <3>1
    <3> QED
      BY <3>1, <3>2, <3>3, <3>4, WrittenRead
  <2> QED
    BY <2>1, <2>2, <2>3 DEF Arrival
<1>2. CASE Codec!Cut
  <2>1. PICK n \in 1 .. Len(sent) - 1 : arrived' = SubSeq(sent, 1, n)
    BY <1>2 DEF Codec!Cut
  <2>2. sent # <<>> /\ sent \in Bytes /\ sent = Codec!Encode(report) /\ report' = report /\ sent' = sent
    BY <1>2 DEF Codec!Cut, Arrival
  <2>3. PICK s \in Seq(Codec!Byte), m \in Nat : s = sent /\ m = Len(s)
    BY <2>2 DEF Bytes
  <2>4. n \in 0 .. Len(s)
    BY <2>3
  <2>5. PICK a : a = SubSeq(s, 1, n)
    OBVIOUS
  <2>6. PICK w : w = SubSeq(s, n + 1, Len(s))
    OBVIOUS
  <2>7. a \in Seq(Codec!Byte) /\ w \in Seq(Codec!Byte) /\ Len(w) = m - n /\ s = a \o w
    BY <2>3, <2>4, <2>5, <2>6, ApartJoined
  <2>8. w # <<>>
    <3>1. m - n > 0
      BY <2>3
    <3> QED
      BY <2>7, <3>1
  <2>9. a = arrived'
    BY <2>1, <2>3, <2>5
  <2>10. \E v \in Bytes : v # <<>> /\ sent' = arrived' \o v
    BY <2>2, <2>3, <2>7, <2>8, <2>9 DEF Bytes
  <2> QED
    BY <2>2, <2>7, <2>9, <2>10 DEF Arrival, Bytes
<1>3. CASE Codec!Extend
  <2>1. PICK b \in Codec!Byte : arrived' = Append(sent, b)
    BY <1>3 DEF Codec!Extend
  <2>2. sent # <<>> /\ sent \in Bytes /\ sent = Codec!Encode(report) /\ report' = report /\ sent' = sent
    BY <1>3 DEF Codec!Extend, Arrival
  <2>3. PICK w : w = <<b>>
    OBVIOUS
  <2>4. PICK s \in Seq(Codec!Byte) : s = sent
    BY <2>2 DEF Bytes
  <2>5. Append(s, b) = s \o <<b>> /\ Append(s, b) \in Seq(Codec!Byte)
    BY <2>4
  <2>6. w \in Bytes /\ w # <<>>
    BY <2>3 DEF Bytes
  <2>7. arrived' = sent' \o w /\ arrived' \in Bytes
    BY <2>1, <2>2, <2>3, <2>4, <2>5 DEF Bytes
  <2> QED
    BY <2>2, <2>6, <2>7 DEF Arrival
<1>4. CASE Codec!Alter
  <2>1. PICK i \in DOMAIN sent : \E b \in Codec!Byte : arrived' = [sent EXCEPT ![i] = b]
    BY <1>4 DEF Codec!Alter
  <2>2. PICK b \in Codec!Byte : arrived' = [sent EXCEPT ![i] = b]
    BY <2>1
  <2>3. sent # <<>> /\ sent \in Bytes /\ sent = Codec!Encode(report) /\ report' = report /\ sent' = sent
    BY <1>4 DEF Codec!Alter, Arrival
  <2>4. PICK s \in Seq(Codec!Byte) : s = sent
    BY <2>3 DEF Bytes
  <2>5. [s EXCEPT ![i] = b] \in Seq(Codec!Byte) /\ Len([s EXCEPT ![i] = b]) = Len(s)
    BY <2>1, <2>4
  <2>6. arrived' \in Bytes /\ Len(arrived') = Len(sent')
    BY <2>2, <2>3, <2>4, <2>5 DEF Bytes
  <2> QED
    BY <2>3, <2>6 DEF Arrival
<1>5. CASE UNCHANGED Codec!codecVars
  BY <1>5 DEF Codec!codecVars, Arrival
<1> QED
  BY <1>1, <1>2, <1>3, <1>4, <1>5 DEF Codec!Next

\* A status report that the decoder takes is the one the Controller wrote: what
\* is written is read whatever comes behind it, what is read was written, and two
\* payloads that are read as one report differ only in the status byte of a
\* sender without one.  So a payload that is cut short or has more behind it is
\* refused, and an altered one is read as what it spells, or refused.
THEOREM CodecCorrect ==
  ASSUME Codec!StatusCodecAssumption
  PROVE  Codec!CodecSpec => []ReportsExact
<1>1. Codec!Init => Arrival
  BY ArrivalInit
<1>2. Arrival /\ [Codec!Next]_(Codec!codecVars) => Arrival'
  BY ArrivalStep
<1>3. Arrival => ReportsExact
  BY ArrivalExact DEF ReportsExact
<1> QED
  BY <1>1, <1>2, <1>3, PTL DEF Codec!CodecSpec

=============================================================================
