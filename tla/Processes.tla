----------------------------- MODULE Processes -----------------------------
(* What the two processes are made of, side by side: the Controller's video  *)
(* pipeline (ControllerPipeline), a Sender with its own (SenderPipeline),    *)
(* links and connections (Wiring), the status report (StatusCodec), and      *)
(* latency figures (Telemetry).  They share no state; part says which runs.  *)
EXTENDS ControllerPipeline

CONSTANTS
  Bitrates, FirstBitrate, OnBoot, SenderFailures, MaxClock,
  Units, Others, SenderAddrs, Host, Relays, SafeName, Static, Configs,
  MaxByte, MaxFlags, MaxPayload, Reports,
  MaxLatency, MaxSamples, MaxReports

VARIABLES
  part,
  transmitting, recording, booted, tx, rec, sending, txOpen, recOpen,
  file, bitrate, encoding, clock,
  cfg, phase, routes, linkOf, byIp, conn, learned, queue, spoke,
  report, sent, arrived,
  probe, loop, lastNs, maxNs, samples, taken, highest, reports

Selected == INSTANCE ControllerPipeline WITH Selector <- TRUE
Misconfigured == INSTANCE ControllerPipeline WITH StartupLayout <- "gone"
Sender == INSTANCE SenderPipeline WITH pipe <- sending, Failures <- SenderFailures
Wired == INSTANCE Wiring
Codec == INSTANCE StatusCodec
Latency == INSTANCE Telemetry

\* The Controller's pipeline in the mode of the constants, in selector mode and
\* with a startup layout that does not exist.
ControllerStep ==
  /\ \/ part = "rebuild" /\ Next
     \/ part = "selector" /\ Selected!Next
     \/ part = "misconfigured" /\ Misconfigured!Next
  /\ UNCHANGED part
ControllerSpec == Init /\ [][ControllerStep]_<<part, vars>>

\* In every mode and configuration the Controller's pipeline does what the
\* source switching relies on.
ImplementsCompositorSources ==
  /\ pipe = "none"
  /\ [][IF part = "selector" THEN Selected!Relied!PipelineNext
        ELSE Relied!PipelineNext]_<<part, vars>>

\* While a recording goes on, whatever is commanded, it goes on in one file.
SenderRecordingUnbroken == Sender!RecordingUnbroken

\* With a sound configuration no two units share a link, however they come, go
\* and are discovered, and whoever was heard is answered where it is.
UnitsKeepLinks == part = "wiring" => Wired!LinksRight

\* A status report is read as it was written or not at all.
ReportsExact == Codec!CodecExact

\* A logged maximum is at least every latency of its window and of one report,
\* however the two threads interleave.
MaximaExact == Latency!MaximumIsOfWindow

=============================================================================
