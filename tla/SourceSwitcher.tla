--------------------------- MODULE SourceSwitcher ---------------------------
(***************************************************************************)
(* The Controller's source switching: SourceSwitcher                       *)
(* (arc/source_switcher.py), the part of Controller, PeerHealth and        *)
(* SenderLink it drives (which senders are known and online, the last      *)
(* command sent to each).  A reconcile ends with a request to the pipeline,*)
(* CompositorSources.                                                      *)
(*                                                                         *)
(* Every handler of the Controller process runs to completion on one       *)
(* asyncio loop, so each handler is one action.  Time is abstracted: a     *)
(* tick finds some set of online senders silent for peer_timeout_s.        *)
(***************************************************************************)
EXTENDS CompositorSources, Sequences, FiniteSets

CONSTANTS
  Senders,      \* addresses for which is_sender_addr holds
  Configured,   \* the [[senders]] of controller.toml
  Empty,        \* EMPTY_SOURCE, ADDR_UNASSIGNED
  Warm,         \* keep_remote_streams
  FirstSources  \* initial_sources, one per slot

Sources == Senders \cup {Empty, Local}   \* _is_known_source
Commands == {"START", "STOP"}

ASSUME SwitcherAssumption ==
  /\ Empty \notin Senders /\ Local \notin Senders /\ Empty # Local
  /\ Configured \subseteq Senders
  /\ Warm \in BOOLEAN /\ Selector \in BOOLEAN
  /\ FirstSources \in [Slots -> Sources]

VARIABLES
  sources,     \* SourceSwitcher.sources: the desired source of each slot
  active,      \* SourceSwitcher.active_sources
  registered,  \* SourceSwitcher.sender_addrs
  streaming,   \* SourceSwitcher._streaming_remotes
  stopped,     \* SourceSwitcher._stopped_remotes
  known,       \* keys of Controller.senders, each also a PeerHealth peer
  online,      \* senders whose _PeerState.online is set
  lastCmd,     \* SenderLink.last_command_type
  sent         \* the commands the latest step sent to each sender, in order

switcherVars == <<sources, active, registered, streaming, stopped>>
controllerVars == <<known, online, lastCmd, sent>>
vars == <<switcherVars, controllerVars, pipelineVars>>

NoCommands == [a \in Senders |-> <<>>]

-----------------------------------------------------------------------------
(* A reconcile pass.  sw is the state it threads through its loops.        *)

Threaded == [active : [Slots -> Sources], streaming : SUBSET Senders,
             stopped : SUBSET Senders, sent : [Senders -> Seq(Commands)],
             last : [Senders -> Commands \cup {"none"}]]

\* SenderLink._send_video: record the command and hand it to the node.
Send(sw, a, cmd) ==
  [sw EXCEPT !.sent = [sw.sent EXCEPT ![a] = Append(sw.sent[a], cmd)],
             !.last = [sw.last EXCEPT ![a] = cmd]]

EnsureSenderStreaming(sw, a) ==
  IF a \in sw.streaming THEN sw
  ELSE [Send(sw, a, "START") EXCEPT !.streaming = @ \cup {a},
                                    !.stopped = @ \ {a}]

StopForgetsStreaming(sw, a, slot) ==
  IF \E other \in Slots \ {slot} : sw.active[other] = a THEN sw
  ELSE [Send(sw, a, "STOP") EXCEPT !.stopped = @ \cup {a}]
StopSenderIfUnused(sw, a, slot) ==
  IF \E other \in Slots \ {slot} : sw.active[other] = a THEN sw
  ELSE [Send(sw, a, "STOP") EXCEPT !.streaming = @ \ {a},
                                   !.stopped = @ \cup {a}]

NextActiveIgnoresHealth(desired, reg, on) == desired
NextActiveForSlot(desired, reg, on) ==
  IF desired \in reg \ on THEN Empty ELSE desired

SlotStepKeepsOld(sw, slot, desired, reg, on) ==
  LET next == NextActiveForSlot(desired, reg, on)
      then == IF next \in reg THEN EnsureSenderStreaming(sw, next) ELSE sw
  IN  IF sw.active[slot] = next THEN sw
      ELSE [then EXCEPT !.active = [sw.active EXCEPT ![slot] = next]]
\* The loop body of _reconcile_slots for one slot.
ReconcileSlot(sw, slot, desired, reg, on) ==
  LET next == NextActiveForSlot(desired, reg, on)
      old  == sw.active[slot]
      swStop == IF old \in reg /\ ~Warm THEN StopSenderIfUnused(sw, old, slot)
                ELSE sw
      swStart == IF next \in reg THEN EnsureSenderStreaming(swStop, next)
                 ELSE swStop
  IN  IF old = next THEN sw
      ELSE [swStart EXCEPT !.active = [sw.active EXCEPT ![slot] = next]]

\* The two stream policies visit each registered sender on its own, so the
\* loop over sorted(sender_addrs) is a set of starts, of stops and of
\* senders forgotten because they are offline.
SyncStreams(sw, start, stop, gone) ==
  [sw EXCEPT
     !.streaming = ((@ \cup start) \ stop) \ gone,
     !.stopped = ((@ \cup stop) \ start) \ gone,
     !.sent = [a \in Senders |->
                IF a \in start THEN Append(sw.sent[a], "START")
                ELSE IF a \in stop THEN Append(sw.sent[a], "STOP")
                ELSE sw.sent[a]],
     !.last = [a \in Senders |-> IF a \in start THEN "START"
                                 ELSE IF a \in stop THEN "STOP"
                                 ELSE sw.last[a]]]

WarmForgetsNobody(sw, reg, on) ==
  SyncStreams(sw, (reg \cap on) \ sw.streaming, {}, {})
SyncWarmRemoteStreams(sw, reg, on) ==
  SyncStreams(sw, (reg \cap on) \ sw.streaming, {}, reg \ on)

ColdStopsAgain(sw, reg, on) ==
  LET visible == {sw.active[s] : s \in Slots} \cap reg
  IN  SyncStreams(sw, (visible \cap on) \ sw.streaming,
                  (reg \cap on) \ visible, reg \ on)
SyncColdRemoteStreams(sw, reg, on) ==
  LET visible == {sw.active[s] : s \in Slots} \cap reg
  IN  SyncStreams(sw, (visible \cap on) \ sw.streaming,
                  ((reg \cap on) \ visible) \ sw.stopped, reg \ on)

ReconciledSwapped(sw, slots, desired, reg, on) ==
  LET cold == IF Warm THEN SyncWarmRemoteStreams(sw, reg, on)
              ELSE SyncColdRemoteStreams(sw, reg, on)
      one == IF 0 \in slots THEN ReconcileSlot(cold, 0, desired[0], reg, on)
             ELSE cold
  IN  IF 1 \in slots THEN ReconcileSlot(one, 1, desired[1], reg, on) ELSE one
\* _reconcile_slots up to the pipeline call: slot 0 before slot 1.
Reconciled(sw, slots, desired, reg, on) ==
  LET begun == IF Warm THEN SyncWarmRemoteStreams(sw, reg, on) ELSE sw
      zero == IF 0 \in slots THEN ReconcileSlot(begun, 0, desired[0], reg, on)
              ELSE begun
      one == IF 1 \in slots THEN ReconcileSlot(zero, 1, desired[1], reg, on)
             ELSE zero
  IN  IF Warm THEN one ELSE SyncColdRemoteStreams(one, reg, on)

-----------------------------------------------------------------------------
(* What a pass asks of the pipeline.                                       *)

\* What the caller passes on: the slots whose active source changed.
PipelineTarget(was, new) ==
  [s \in Slots |-> IF new[s] # was[s] THEN new[s] ELSE shown[s]]

ReconcileWith(slots, desired, reg, on) ==
  LET sw == Reconciled([active |-> active, streaming |-> streaming,
                        stopped |-> stopped, sent |-> NoCommands,
                        last |-> lastCmd], slots, desired, reg, on)
  IN  /\ active' = sw.active
      /\ streaming' = sw.streaming
      /\ stopped' = sw.stopped
      /\ sent' = sw.sent
      /\ lastCmd' = sw.last
      /\ SetPipelineSources(PipelineTarget(active, sw.active))

-----------------------------------------------------------------------------
(* Construction followed by run()'s reconcile and pipeline.start(): nobody *)
(* is online yet, so a remote desired source leaves its slot empty, and a  *)
(* rebuild-mode pipeline refuses the local camera in both slots.           *)

FirstActive == [s \in Slots |-> IF FirstSources[s] \in Senders THEN Empty
                                ELSE FirstSources[s]]
ConstructedShown == [s \in Slots |-> IF s = 0 THEN Local ELSE Empty]
FirstShown == IF ~Selector /\ \A s \in Slots : FirstActive[s] = Local
              THEN ConstructedShown ELSE FirstActive

Init ==
  /\ sources = FirstSources
  /\ active = FirstActive
  /\ registered = Configured \cup ({FirstSources[s] : s \in Slots} \cap Senders)
  /\ streaming = {} /\ stopped = {}
  /\ known = Configured
  /\ online = {}
  /\ lastCmd = [a \in Senders |-> "none"]
  /\ sent = NoCommands
  /\ shown = FirstShown
  /\ playing \in BOOLEAN

\* A frame of a arrives on any link: Controller.receive registers the sender
\* with the Controller and PeerHealth.observe marks it online.
HearUnregistered(a) ==
  /\ online' = online \cup {a}
  /\ sent' = NoCommands
  /\ UNCHANGED <<switcherVars, known, lastCmd, pipelineVars>>
Hear(a) ==
  /\ known' = known \cup {a}
  /\ online' = online \cup {a}
  /\ sent' = NoCommands
  /\ UNCHANGED <<switcherVars, lastCmd, pipelineVars>>

\* The first frame of a new TCP connection: _ensure_sender_tcp_link also
\* makes the sender part of reconciliation before the frame is handled.
Connect(a) ==
  /\ known' = known \cup {a}
  /\ online' = online \cup {a}
  /\ registered' = registered \cup {a}
  /\ sent' = NoCommands
  /\ UNCHANGED <<sources, active, streaming, stopped, lastCmd, pipelineVars>>

\* _tick: Controller.tick takes the silent senders offline, then reconcile.
Tick(lost) ==
  /\ online' = online \ lost
  /\ ReconcileWith(Slots, sources, registered, online \ lost)
  /\ UNCHANGED <<sources, registered, known>>

\* set_source (FC_VIDEO SET_SOURCE, bench "source", each step of "cycle").
SetSource(slot, src) ==
  /\ sources' = [sources EXCEPT ![slot] = src]
  /\ registered' = registered \cup ({src} \cap Senders)
  /\ ReconcileWith({slot}, sources', registered', online)
  /\ UNCHANGED <<known, online>>

\* set_sources with both slots (each step of bench "rotate").
SetSources(requested) ==
  /\ sources' = requested
  /\ registered' = registered \cup ({requested[s] : s \in Slots} \cap Senders)
  /\ ReconcileWith(Slots, sources', registered', online)
  /\ UNCHANGED <<known, online>>

Next ==
  \/ \E a \in Senders : Hear(a) \/ Connect(a)
  \/ \E lost \in SUBSET online : Tick(lost)
  \/ \E slot \in Slots, src \in Sources : SetSource(slot, src)
  \/ \E requested \in [Slots -> Sources] : SetSources(requested)

Spec == Init /\ [][Next]_vars

\* run_tick_loop ticks every 50 ms for as long as the process runs.
FairSpec == Spec /\ WF_vars(\E lost \in SUBSET online : Tick(lost))

-----------------------------------------------------------------------------
(* Properties.                                                             *)

VisibleSenders == {active[s] : s \in Slots} \cap Senders

\* Every variable has its type, a sender is only online once it is a peer of
\* PeerHealth, and the desired remote sources and the streams the switcher
\* accounts for are of senders it reconciles.
TypeOK ==
  /\ sources \in [Slots -> Sources]
  /\ \A s \in Slots : sources[s] \in Senders => sources[s] \in registered
  /\ active \in [Slots -> Sources]
  /\ shown \in [Slots -> Sources] /\ playing \in BOOLEAN
  /\ registered \in SUBSET Senders /\ known \in SUBSET Senders
  /\ streaming \in SUBSET registered /\ stopped \in SUBSET registered
  /\ online \in SUBSET known
  /\ lastCmd \in [Senders -> Commands \cup {"none"}]
  /\ sent \in [Senders -> Seq(Commands)]

\* The switcher's two sets agree with the commands SenderLink sent: a sender
\* counted as streaming was last told START, one counted as stopped was last
\* told STOP, and none is counted as both.
LastCommandAgrees ==
  /\ streaming \cap stopped = {}
  /\ \A a \in streaming : lastCmd[a] = "START"
  /\ \A a \in stopped : lastCmd[a] = "STOP"

\* A remote source in a slot is a sender that is online and was asked to
\* stream: a sender that drops leaves the slot in the same tick.
VisibleIsStreaming ==
  VisibleSenders \subseteq streaming \cap online \cap registered

\* Cold policy: nobody is counted as streaming without being visible.
ColdStreamsOnlyVisible == ~Warm => streaming \subseteq VisibleSenders

\* The streams counted follow the slots shown, in both directions.
StreamsFollowSlots == VisibleIsStreaming /\ ColdStreamsOnlyVisible

\* Warm policy: no sender is ever told to stop, rotation included.
WarmNeverStops == \A a \in Senders : Warm => lastCmd[a] # "STOP"

\* start_sender / stop_sender raise ControllerError for a sender the
\* Controller has not heard of, which would end the tick loop: the switcher
\* never commands one.
CommandsReachKnown == \A a \in Senders : sent[a] # <<>> => a \in known

\* A live selector switch keeps the compositor in step with active_sources.
PipelineShowsActive == shown = active

\* build_fc_video_status_report: the TRANSMITTING flag of an online sender is
\* read off its last command.
ReportedTransmitting == {a \in online : lastCmd[a] = "START"}

\* Cold policy: the reported TRANSMITTING flags are exactly the senders the
\* switcher keeps streaming, also right after a sender came back online.
ReportMatchesStreams == ~Warm => ReportedTransmitting = streaming

\* Rebuild mode never wires the one local camera into both slots.
OneLocalCamera == ~Selector => \E s \in Slots : shown[s] # Local

\* active_sources is assigned before the pipeline is asked, and stays when that
\* refuses.  The picture falls behind it by the refused local camera only: a
\* sender in the books, or an empty slot, is what the compositor was set to,
\* whatever was refused or failed to start before.
PictureFollows == \A s \in Slots : shown[s] # active[s] => active[s] = Local

\* A sender the switcher already accounts for is never sent the command it
\* was last sent.
NoRedundantCommand ==
  [][\A a \in streaming \cup stopped :
       sent'[a] # <<>> => Head(sent'[a]) # lastCmd[a]]_vars

\* Every slot has the source that is desired for it, or nothing while that is
\* a sender which is not online.
AsDesired ==
  \A s \in Slots :
    active[s] = IF sources[s] \in Senders \ online THEN Empty ELSE sources[s]

AsPolicyWants ==
  IF Warm THEN streaming = registered \cap online
  ELSE /\ streaming = VisibleSenders
       /\ stopped = (registered \cap online) \ VisibleSenders

\* What a tick leaves behind: every slot has its desired source if that can be
\* had; under the warm policy every online registered sender streams, under
\* the cold one exactly the visible ones do and all the other online ones are
\* stopped.  A step that leaves less is no tick.
Settles == ~(AsDesired /\ AsPolicyWants)' => \A lost \in SUBSET online : ~Tick(lost)
TickSettles == [][Settles]_vars

\* "only senders that are visible in an active slot are kept streaming. The
\* Controller sends STOP_STREAM to online-but-hidden senders": a sender that
\* is visible before and after a step is not stopped on the way.
VisibleNotStopped ==
  [][\A a \in VisibleSenders \cap VisibleSenders' :
       \A i \in 1..Len(sent'[a]) : sent'[a][i] # "STOP"]_vars

=============================================================================
