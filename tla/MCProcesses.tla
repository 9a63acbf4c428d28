----------------------------- MODULE MCProcesses -----------------------------
(* What the two processes are made of, for TLC, one part at a time:          *)
(*   rebuild, selector, misconfigured  the Controller's video pipeline in    *)
(*              either mode and with a startup layout that does not exist    *)
(*              (ControllerPipeline)                                         *)
(*   sender     a Sender with its own (SenderPipeline)                       *)
(*   wiring     configuration, tables and connections of two senders, one    *)
(*              relaying a flight computer, and a HITL peer (Wiring)         *)
(*   codec      the status report and its decoder (StatusCodec)              *)
(*   telemetry  latency probe and telemetry on two threads (Telemetry)       *)
(* The variables of the parts that do not run stay as they are.              *)
EXTENDS Processes

CONSTANTS s1, s2, A, B, P, F

senderVars == <<transmitting, recording, booted, tx, rec, sending, txOpen, recOpen,
                file, bitrate, encoding, clock>>
wiringVars == <<cfg, phase, routes, linkOf, byIp, conn, learned, queue, spoke>>
codecVars == <<report, sent, arrived>>
telemetryVars == <<probe, loop, lastNs, maxNs, samples, taken, highest, reports>>
otherVars == <<wiringVars, codecVars, telemetryVars>>
processVars == <<part, vars, senderVars, otherVars>>

\* Host of each unit, A's flight computer, and three configurations: with A and a
\* peer of no fixed IP, with that peer only, and with F's address for a sender's.
MCUnits == {A, B, P}
MCOthers == {F}
MCSenderAddrs == {A, B}
MCHost == [u \in MCUnits |-> IF u = A THEN "hostA" ELSE IF u = B THEN "hostB" ELSE "hostP"]
MCRelays == [u \in MCUnits |-> IF u = A THEN {F} ELSE {}]
MCSafeName == [n \in {"laptop"} |-> n]
MCStatic == [f \in {F} |-> <<"serial", "hub">>]
Peer(ip) == [addr |-> P, name |-> "laptop", ip |-> ip]
MCConfigs ==
  {[senders |-> <<[addr |-> A, ip |-> "hostA"]>>, peers |-> <<Peer(None)>>],
   [senders |-> <<>>, peers |-> <<Peer("hostP")>>],
   [senders |-> <<[addr |-> F, ip |-> "hostA"]>>, peers |-> <<>>]}

MCSenders ==
  [addr : {2}, flags : {0, 2}, status : {<<>>, <<0>>, <<3>>}, name : {<<>>, <<1>>}]
MCReports ==
  [layout : {<<>>, <<2>>, <<2, 2, 2, 2>>}, desired : {<<>>, <<0, 3>>, <<4>>},
   active : {<<>>, <<1>>}, senders : UNION {[1 .. n -> MCSenders] : n \in 0 .. 2}]
DullReport == [layout |-> <<2>>, desired |-> <<4>>, active |-> <<>>, senders |-> <<>>]

ASSUME ProcessAssumed ==
  /\ Sender!PipelineAssumption
  /\ Wired!WiringAssumption /\ Codec!StatusCodecAssumption
  /\ Latency!TelemetryAssumption

ProcessInit ==
  /\ part \in {"rebuild", "selector", "misconfigured", "sender",
               "wiring", "codec", "telemetry"}
  /\ Init /\ Sender!Init
  /\ Wired!Init /\ (part # "wiring" => cfg.senders = <<>>)
  /\ Codec!Init /\ (part # "codec" => report = DullReport)
  /\ Latency!Init

SenderStep == part = "sender" /\ Sender!Next /\ UNCHANGED <<part, vars, otherVars>>
WiringStep ==
  part = "wiring" /\ Wired!Next /\ UNCHANGED <<part, vars, senderVars, codecVars, telemetryVars>>
CodecStep ==
  part = "codec" /\ Codec!Next /\ UNCHANGED <<part, vars, senderVars, wiringVars, telemetryVars>>
TelemetryStep ==
  part = "telemetry" /\ Latency!Next /\ UNCHANGED <<part, vars, senderVars, wiringVars, codecVars>>

ProcessNext ==
  \/ ControllerStep /\ UNCHANGED <<senderVars, otherVars>>
  \/ SenderStep \/ WiringStep \/ CodecStep \/ TelemetryStep

ProcessSpec ==
  ProcessInit /\ [][ProcessNext]_processVars /\ (part = "wiring" => Wired!WiringFairness)

Rates == {0, 1, 2}
SendingFailures == {"setup", "parse", "play", "element"}
TwoSenders == {Local, Empty, s1, s2}
TwoLayouts == {"full", "split"}
TwoTexts == {"callsign", "status"}
AllFailures == {"parse", "play"}

\* Senders, listed or not, and listed peers come to have a link.
UnitsGetLinks == part = "wiring" => Wired!GetsLinked

=============================================================================
