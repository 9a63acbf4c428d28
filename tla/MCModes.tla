------------------------------- MODULE MCModes -------------------------------
(* What builds on the source switching, for TLC, one part at a time: the     *)
(* bench server over a selector pipeline, the delivery of the commands to    *)
(* one sender, the warm policy, and a rebuild pipeline.  All share the       *)
(* variables of SourceSwitcher; what a part does not use stays as it is.     *)
EXTENDS BenchServer

CONSTANTS s1, s2

VARIABLES
  part,
  nextSeq, pending, failed, downlink, uplink, linked,
  seen, transmitting, applied, issued, faults, spent

wireVars == <<nextSeq, pending, failed, downlink, uplink, linked,
              seen, transmitting, applied, issued, faults, spent>>
modeVars == <<part, allVars, wireVars>>

\* One command per direction of the only sender, with every kind of fault.
Video == INSTANCE VideoControl WITH
  Senders <- {s1}, MaxTries <- 1, MaxSeq <- 1, MaxSkip <- 0, MaxFaults <- 1,
  Faults <- {"break", "sender", "controller"}, BootStream <- FALSE

WarmSwitcher == INSTANCE SourceSwitcher WITH Warm <- TRUE

LocalFirst == [s \in Slots |-> Local]
Rebuild == INSTANCE SourceSwitcher WITH
  Selector <- FALSE, FirstSources <- LocalFirst

ModesInit ==
  /\ part \in {"bench", "video", "warm", "rebuild"}
  /\ IF part = "rebuild" THEN Rebuild!Init ELSE IF part = "video" THEN Video!Init ELSE Init
  /\ task = NoTask /\ reply = "none" /\ commands = 0
  /\ Video!ChannelInit

BenchStep == part = "bench" /\ BenchNext /\ UNCHANGED <<part, wireVars>>
VideoStep == part = "video" /\ Video!VideoNext /\ UNCHANGED <<part, benchVars>>
WarmStep == part = "warm" /\ WarmSwitcher!Next /\ UNCHANGED <<part, benchVars, wireVars>>
RebuildStep == part = "rebuild" /\ Rebuild!Next /\ UNCHANGED <<part, benchVars, wireVars>>

ModesNext == BenchStep \/ VideoStep \/ WarmStep \/ RebuildStep

ModesSpec ==
  /\ ModesInit /\ [][ModesNext]_modeVars
  /\ part = "bench" => BenchFairness
  /\ part = "video" => Video!VideoFairness

DefaultFirst == [s \in Slots |-> IF s = 0 THEN Empty ELSE Local]
ThreeSources == {<<Local, s1, s2>>}

\* While a rotation is left alone every online sender of its list comes up as
\* the main picture again and again.
BenchShowsAll == part = "bench" => RotationShowsAll

\* No number stays pending for ever, whatever happens to the connection.
VideoResolves == part = "video" => Video!CommandsResolve

\* Under the warm policy, after a tick every online registered sender streams;
\* in rebuild mode a tick settles the streams also when the pipeline refuses.
ModesSettle ==
  [][/\ part = "warm" => WarmSwitcher!Settles
     /\ part = "rebuild" => Rebuild!Settles]_modeVars

=============================================================================
