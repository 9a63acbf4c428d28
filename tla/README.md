# ARC control plane in TLA+

ARC carries video and commands of a rocket: camera Pis (*Senders*) stream to a
Pi that composes the picture (*Controller*), flight computers (FCs) choose
layouts and sources over UART, a Teensy *hub* joins the UARTs, and a *ground
station* talks to all of it by radio. This directory models the parts of that
system that decide something, checks them with TLC on small instances, and
proves some of what is checked with TLAPS for all instances.

- `X.tla` is a component, a `*Proofs.tla` the proofs about one or several, an
  `MC*.tla` the instances that are checked; a `.cfg` is one run.
- `PROJECT.json` maps definitions to source lines and lists runs, mutants,
  findings, hazards and theorems.
- Names of actions and variables follow the source where they can.

    tlc -workers 2 -config Switcher.cfg MCSourceSwitcher
    tlapm SourceSwitcherProofs.tla

## 1. Inventory

Paths are relative to `src/`; `arc/` is `control-plane/arc/`.

| Component | State it keeps | Operations | Talks to |
|---|---|---|---|
| Source switching (`arc/source_switcher.py`) | desired and active source per slot, known senders, who was told to stream and who to stop | `set_source(s)`, `reconcile` (every 50 ms), `add_sender` | reads PeerHealth, calls `Controller.start/stop_sender`, then the pipeline |
| Controller pipeline (`arc/pipeline_controller.py`) | the graph, slot sources, layout, overlay | `start`, `stop`, `set_layout`, `set_sources`, `set_overlay`, `drain_bus` | GStreamer |
| Sender and its pipeline (`arc/sender.py`, `arc/pipeline_sender.py`) | transmitting/recording flags; pipeline, valves, recording file, bitrate | VIDEO commands, boot command | GStreamer; status reports to the Controller |
| Health and discovery (`arc/health.py`, `arc/sender_link.py`, `arc/controller.py`) | last heard, online set, name, last status, `info_requested` | `observe`, `offline_peers`, `request_info`, report handlers | Sender |
| Node, router (`arc/node.py`, `arc/learned_router.py`) | learned routes, reliable endpoint, inbox | `receive`, `send_local`, `tick` | links; `arc_protocol` (external) |
| TCP links (`arc/tcp_link.py`, `arc/runtime.py`) | bounded queue, online, writer, counters | `send`, `run_connected`, `run_client`, `stop`, `TcpServer._handle` and `stop` | asyncio |
| UART links (`arc/uart_link.py`, `arc/runtime.py`) | the same for a serial device | `send`, `run_connected`, `run_uart_link` | pyserial |
| Bench server (`arc/bench_server.py`) | the cycle task | command lines, `cycle`, `rotate` | source switching, pipeline |
| Configuration and wiring (`arc/config.py`, `run` of `arc/controller_main.py`) | links by route and by address, IPs, routes | loading, building the tables, `link_for_peer`, `link_for_frame` | TCP server, router |
| Status report (`arc/fc_video_status.py`) | none | `encode`, `decode` | Controller to ground station |
| Telemetry (`arc/controller_main.py`, `arc/pipeline_controller.py`) | latency figures per element | the buffer probe, `telemetry_snapshot`, `maybe_log` | GStreamer's threads, the log |
| HITL bridge (`arc/hitl_bridge.py`) | the profile, the next sample's time, a counter | `run`, `send_sample` | one TCP connection to the Controller |
| Teensy hub (`tools/teensy-hub`) | learned table, peers, who was absorbed, bytes of each spoke | one byte, then one frame at a time; heartbeats; console | UART spokes |
| Ground station (`ground-station/arc_gs.py`) | sequence counter, ACKs, heartbeat count and event | `run_smoke`, receive path, console (`ping`, `status`) | BLE bridge, two radios |
| Fake node (`tools/fake-fc-teensy`) | per port: identity, counter, one pending ACK | console commands, frames, timeouts | hub |
| Fetching recordings (`tools/fetch-recordings.sh`) | two counters | one pass over the hosts | ssh, rsync, scp, the Senders' files |

Not modelled: the CLI, the hub's display and data radio, and installation
(section 9).

**How they interact.** A frame arrives on a link, whose task calls
`Controller.receive` without an await: discovery, health, routing and the local
handlers run to their end before anything else does. The tick loop is another
task of the same asyncio loop and does the same once every 50 ms. So a handler
and a tick never interleave inside, but they interleave with each other in
every order, and between them links break, processes restart and commands are
lost. The models therefore take a whole handler, or a whole tick, as one
action. Where the code does await in the middle (links, ground station, bench
cycle, HITL bridge) each stretch between awaits is an action. GStreamer's
streaming threads are the one place where two threads share data: there an
action is one access to it (`Telemetry`).

**What is hard here.**

- State kept at both ends of an unreliable path: the switcher records what it
  *commanded*, not what a sender does; names and statuses outlive units; routes
  outlive the places they lead to, and expire at different ages.
- Failures half way: the pipeline refuses after the switcher has recorded its
  decision; `run_connected` re-raises half way through its clean-up; starting a
  pipeline fails at one of several steps.
- Order: slots are reconciled one after another; a retransmission overtakes
  nothing but may come behind its successor; late ACKs and early heartbeats.
- Restarts nobody sees, since both ends use session 1 in every life.
- Limits: queues, a table of routes, one pending slot, a bounded retry.

Correctness, per component:

- *Source switching*: after a tick exactly the senders that the policy wants are
  counted as streaming; a visible sender is never stopped; a sender that comes
  back is commanded again; the books agree with the last command sent.
- *Pipelines*: what plays is what was recorded; no transmission without a
  recording; a stop means silence; a recording goes on in one file.
- *Delivery*: a command is obeyed at most once, in order, and is settled in the
  end; a hidden sender is silent, a visible one transmits.
- *Discovery*: what cannot be reached goes offline, who comes back is asked for
  its name once, and nothing known of an offline sender is kept as current.
- *Links*: no frame twice or out of order, every loss counted, the link opens
  again, "online" means served.
- *Routing and hub*: no frame goes round for ever, a node that moves is found,
  one slot per node, answers go where the question came from.
- *Wiring*: no two units share a link, whoever was heard is answered where it
  is, and whoever keeps connecting gets a link.
- *Report and telemetry*: a report is read as it was written or refused; a
  logged maximum covers its window.
- *Tools*: a printed ACK means receipt, a pong means that this ping was taken, a
  pass means the hop happened, a removed recording has been copied, an injected
  sample is in time.

## 2. Plan

Order of work, the most important behaviour first; all but lines 6 and 9 are
done.

1. `SourceSwitcher` with `CompositorSources` (what it relies on of the
   pipeline); `VideoControl` composes it with delivery and implements
   `CommandDelivery`; `ControllerPipeline` implements `CompositorSources`.
2. `SenderPipeline`, `Discovery`, `TcpLink`, `UartLink`.
3. `Mesh` (Controller, Senders and hub routing together), `HubRoutes` (the hub
   with full tables), `BenchServer` (extends `SourceSwitcher`).
4. The tools: `GroundStation`, `FakeNode`, `FetchRecordings`.
5. What joins them: `Wiring` (configuration to links), `StatusCodec` and
   `Console` (a status request from the ground and its answer), `HubSpoke` (the
   bytes of a spoke), `Telemetry`, `HitlBridge`, and the end of the Controller's
   process in `TcpLink`.
6. Next: SESSION_RESET; the Sender's shutdown, in which a START_STREAM may come
   between the end of the pipeline and that of the link.
7. Proofs, of the switcher first, then of what composes it (`VideoControl`
   against `CommandDelivery`, `ControllerPipeline` against `CompositorSources`),
   the links, the hub's tables and the way of a frame through the mesh, the tools.
   Section 8 says what is proved.
8. Then what needs induction over data: the bytes of a spoke
   (`HubSpoke!BytesAccounted`) and the status report (`StatusCodec!CodecExact`),
   over what `SequenceInduction` provides; and the rotation of the bench server
   and the links of the Controller. Also done.
9. Proofs next: no safety property of a run is without a theorem now. What is left
   are the liveness properties, whose safety halves can be proved (what a step
   may never undo once it is reached), as `TickCorrect` is for `ModesSettle`.

## 3. Modules

**SourceSwitcher.** `sources`, `active`, `streaming`, `stopped`, `registered`
are the switcher's fields (`sources`, `active_sources`, `_streaming_remotes`,
`_stopped_remotes`, `sender_addrs`); `known` and `online` are the parts of
Controller and PeerHealth it reads; `lastCmd` is history and `sent` what the last
call sent; `shown` is what the pipeline was last set to. `Reconciled` is
`_reconcile_slots`, slot by slot as the loop does it, so that the order of the
commands of one pass is kept. `SetSource`, `SetSources`, `Tick`, `Hear` and
`Connect` are the entry points; a tick first takes the silent senders offline.

**CompositorSources** is what the switcher needs of a pipeline: what a request
for sources may come to in either switch mode. **ControllerPipeline** models
`start`, `stop`, `set_layout`, `set_overlay`, `set_sources` with the failures of
`start`, and implements `CompositorSources!PipelineSpec`: the run checks it as
a property, so the switcher is checked against what the pipeline really does.

**VideoControl** composes the switcher with the Controller's reliable endpoint
(numbers, retries, give-up), the queued link with its breaking connections, the
sender's duplicate filter and handler, the ACKs back and restarts of either process.
`RestartSender` drops the ACKs on their way; those the Controller still reads from
the old connection are read before the step instead, which is the same, as the new
life of the sender takes nothing from the Controller before `Relink`.
`pending[a]` is the endpoint's dictionary, from the number of a command to the
command and its tries; `issued[a]` is history: the numbers this life of the
Controller has given out. `ChannelOK` says what holds of them at any time: what is
pending or on the way was issued, and the link carries nothing while it is down.
**CommandDelivery** is the abstract promise: a number is obeyed at most once in a
sender's life, and closed because it was obeyed, given up, or forgotten by a
Controller that restarted. `DeliversOnce` says that VideoControl implements it.

**SenderPipeline**: the Sender's two flags beside the pipeline's real state
(valves, file, playing), and every command with the failures of each step of
`_build_and_play`. **Discovery**: one address, a frame path in both directions,
heartbeat ages, `GET_INFO`/`INFO_REPORT`, and units swapped at that address. `Put`
is `QueuedTcpLink.send`: each end queues for a peer that is away too (`QueueOther`,
`Emit`) and drops what finds its queue full. A unit is in `controller.toml`
(`Listed`) and has its link before it says anything, or is known by the first frame
of its connection (`FirstFrame`), which is handled before the queue is sent.

**TcpLink**: the Sender's `run_client`, `TcpServer._handle` and one shared
`QueuedTcpLink`, with up to three overlapping connections draining one queue,
and the end of the Controller's `run`: `StopLink` is `QueuedTcpLink.stop`, which
closes the connection in `_writer`, `LinksStopped` the rest of the loop over the
links, and `ServerStopped` `TcpServer.stop`, which waits for every connection
there is (`Server.wait_closed` does since Python 3.12; before, it did not).
**UartLink**: a device that is unplugged, garbage on the line, handlers that
raise, and the transports such handlers leave open (`stale`).

**Mesh**: every node with its learned routes and their ages; heartbeats,
broadcasts and addressed frames on FIFO links; a leaf that is plugged in
elsewhere. `MeshAssumption` says that the network is wired as configured: `Paired`
is who is configured for whom, `Wired` the pairs of nodes that have a link,
`Side(x, n)` what lies behind x as seen from n. **HubRoutes**: the hub's main loop
with its fixed tables. `RoomForAll` is the usual case that there is a slot for
every address, in which nobody is displaced. The hub answers what is reliable and
addressed to it (`"ping"`) and nothing else; a frame of its own that comes back
(`Echo`) changes nothing.
**HubSpoke**: `hub_link_read` byte by byte, between a serial port of limited
size, a loop that may be held up, and a device that writes frames and text.
`ReadByte` is one turn of the reading loop: `FlushIdle` comes first, and then
`EndFrame` at a delimiter, `Gather`, or `Overflow` when the buffer is full. `out`
is all that was routed or printed, in order.

**Wiring**: a configuration is chosen at the start; `Start` builds
`tcp_links_by_addr`, `ip_to_link` and the router's routes in the order `run`
does, later entries replacing earlier ones. `Connect` and `FirstFrame` are
`TcpServer._handle`, `Hears` is what `Controller.receive` does to the routes for
every frame, and `LinkFor` is `_link_name_for`. A unit may relay for somebody
else, so that the first frame of its connection may be another's. Each table is a
function: `Updated` writes one over another; `SenderRoutes`, `PeerRoutes`,
`SendersByIp` and `PeersByIp` are what a configuration puts into them.
`WiringAssumption` is about the network and not the file: whoever is behind a
unit is behind no other one, and only Senders forward; `Sound` says which files
list nothing twice.
**StatusCodec**: `Encode` and `Decode` on sequences of small numbers, with every
refusal of the code; a payload reaches the decoder whole, cut short, extended
or with one byte changed. **Telemetry**: `Buffer` to `Count` are the accesses of
`_on_buffer`, `Snapshot` to `ResetSamples` those of `_drain_latency`.

**BenchServer** extends SourceSwitcher with command lines, the cycle task, and the
flight computer that asks for sources of its own in between (`FlightComputer`).
**GroundStation**: `run_smoke` cut at its awaits, with the receive callbacks and
ACK tasks between. **Console**: its `ping` and `status` with the same receive
path, and at the other end the Controller's ACK and its reliable report, retried
and given up by its node. **HitlBridge**: the phases of `next_sample` and the loop
of `run`, where each write may wait as long as it likes or find the connection
broken; that a line is too long for a frame does not happen, as the profile's lines
have some 130 characters at any rate. **FakeNode**: ports, counters, the pending
slot, and nodes that obey and acknowledge; its numbers stop at `MaxSeq`, so what
comes of a 16-bit counter that has gone round is outside the model.
**FetchRecordings**: the shell script with `set -e`, while the Senders keep
recording; `ssh ... rm` may fail before or after it has removed the file.

Abstractions common to all: an address or a payload is a model value; a time is
an age in steps of the period that matters and saturates at its timeout; texts,
logging and drawing are left out. What is not under `src/` (asyncio, GStreamer,
serial devices, radios, `arc_protocol`) is modelled from its use and marked
external in the map.

## 4. Runs

A component is an `MC` module's business in one of two ways. `MCSourceSwitcher`,
`MCVideoControl`, `MCDiscovery`, `MCTcpLink` and `MCFetchRecordings` extend one
component. The others (`MCModes`, `MCProcesses`, `MCLinks`, `MCRouting`,
`MCTools`) put instances side by side: they extend one component, INSTANCE the
rest with their constants, and a variable `part`, chosen at the start and kept,
says which of them a behaviour runs; the variables of the others stay as they
are. A part is a component under one set of constants, so that one run covers
several configurations of it. A property of a part is guarded by `part`, unless
it holds of the parts that rest as well.

| Run | Module, `.cfg` | Parts | Properties, and what they say |
|---|---|---|---|
| `switching` | MCSourceSwitcher, Switcher | - | `TypeOK`; `LastCommandAgrees`, `ReportMatchesStreams`: the books agree with the commands sent and the flags reported; `StreamsFollowSlots`: a slot never keeps a sender that is not online and streaming, and nobody else is counted; `CommandsReachKnown`, `NoRedundantCommand`; `TickSettles`: a tick leaves each slot with the source desired for it, or nothing while that is not online, and exactly the streams the policy wants |
| `modes` | MCModes, Modes | bench, video, warm, rebuild | `PictureFollows`: the picture falls behind the books by the local camera only; `RotationKeepsVisible`: with ticks, losses, lines of the bench and commands of the flight computer between the turns of a rotation, a step stops a sender it leaves visible only when it takes it from main to PIP, and a turn of a rotation of three not even then, unless somebody else chose the main picture; `BenchShowsAll`: a rotation shows each sender again and again; `VideoResolves`: with breaks and restarts every command is acknowledged or given up; `ModesSettle`: `TickSettles` for the warm policy and for a rebuild pipeline that refuses |
| `video` | MCVideoControl, Video | - | `UnbrokenObeys`: until a connection breaks, commands are obeyed in order and a settled sender transmits exactly when shown; `DeliversOnce`: with a break or a restart too, CommandDelivery is implemented |
| `processes` | MCProcesses, Processes | rebuild, selector, misconfigured, sender, wiring, codec, telemetry | `PictureKept`: what plays is what was last set, and a layout survives failed starts and rebuilds; `ImplementsCompositorSources`: the switcher's assumption holds of the real pipeline in every mode; `SenderRecordingUnbroken`; `UnitsKeepLinks`: no two units share a link and replies follow the connection; `UnitsGetLinks`: units that keep connecting are served; `ReportsExact`: a report is read as written or refused; `MaximaExact`: a logged maximum covers its window |
| `links` | MCLinks, Links | uart, tcp, raising, crowded, spoke | `WrittenAccounted`: what is written to a UART keeps its order, and what is not is waiting or was counted; `HeardInOrder`; `UartReopens`; `ArriveInOrder`: with up to three connections draining one queue, handlers that raise, and a queue that is sent more than it holds; `TcpSettles`: a Sender gets its link back, and a Controller that is stopped stops, once only the connection its link closed is left, in whatever state; `SpokeRight`: every byte of a spoke is routed, on USB or gathered, and frames on an unhindered line are routed |
| `routing` | MCRouting, Routing | mesh, room, scarce | `MoverIsFound`, `MovedTalkEnds`: a moved flight computer is found in the end and no frame for it goes round for ever; `PairedNoRevisit`; `RoutesRight`: the tables of a hub with a slot for each, that frames go where their destination was heard last, and that the hub answers what is reliable where it came from; `ScarceServed`: one slot for two |
| `discovery` | MCDiscovery, Discovery | - | `OneQueryPerSession`, `UnreachableGoesOffline`, `Rediscovered` |
| `tools` | MCTools, Tools | fetch, smoke, faulty, console, hitl, ports, nodes | `FinishedSurvive`: no finished recording is removed without a whole copy; `GroundTasksAgree`: no wake-up is lost, no number is used twice, and a pong is of a ping that was taken; `SamplesRight`: samples keep to the clock at every destination and are those of a rocket; `FakeVerdictsRight`: "ACK" means obeyed, and no number is used twice; `ToolsServed`: a test over a working link passes, a status request that was taken is answered although a frame is lost, and the ports of the fake nodes come free |

Four runs end in a violation, each contradicting a sentence of the repository
that `PROJECT.json` quotes under its finding:

| Run | Property | What the code does |
|---|---|---|
| `tcp_leak` | `ConnectionOwned` | a frame handler that raises (a RouteError will do) leaves the connection open with nobody reading it; the Sender sees no end of stream and does not reconnect. What asyncio does with a handler that has raised depends on the version: Python 3.11.6 leaves the transport open, recent ones close it |
| `video_reboot` | `HiddenIsStopped` | a sender that restarts within the peer timeout streams from boot, and nobody stops it |
| `discovery_lost` | `Identified` | a query lost in a short interruption is not repeated: the sender stays nameless. So does one that is not in `controller.toml` and whose first frame asks it while its queue is full |
| `fetch_abort` | `EveryHostTried` | the first unreachable host ends the script, as the first success does |

Every property of a passing run has a mutant in `PROJECT.json`: a definition
changed the way a slip would change it (a guard dropped, a reset forgotten, an
order swapped), under which the run finds the property violated. The mutants
are the definitions that stand before the one they would replace.

Some properties are the conjunction of two that are defined in the component
(`StreamsFollowSlots`, `PictureKept`, `UnbrokenObeys`, `WrittenAccounted`, `LinksRight`, `CodecExact`,
`SpokeRight`, `TcpSettles`); each has a comment of its own there.

`PairedNoRevisit` is deliberately about a flight computer on the sender
configured for it. On another sender the router that has forgotten it falls back
on its default route, so that a frame the Controller sent there comes back to
the Controller, until the next heartbeat: that is what `MovedTalkEnds` bounds.

## 5. Further disagreements

These properties are stated in the modules and are violated by what the code
does, under the constants named here; no run is spent on them. Each contradicts
the words quoted.

| Module, property | Constants | What the code does, and what it says |
|---|---|---|
| SourceSwitcher `PipelineShowsActive` | `Selector = FALSE` | `active_sources` is assigned before a call that may be refused, and no tick repeats the call; `source_switcher.py:5`: "what's currently wired into the pipeline" |
| SourceSwitcher `VisibleNotStopped` | 2 senders | exchanging two visible senders stops and restarts one; `source_switcher.py:13`: STOP_STREAM goes "to online-but-hidden senders" |
| VideoControl `HiddenIsStopped` | `Faults = {"break"}`, `MaxTries = 2` | a START lost with its connection is retransmitted behind the STOP that followed it; `source_switcher.py:13`: "only senders that are visible in an active slot are kept streaming" |
| VideoControl `VisibleTransmits` | `Faults = {"controller"}`, a sender in `FirstSources` | a restarted Controller starts again with session 1 and number 0, and its START is dropped as a duplicate, which acknowledges it all the same (`VideoResolves` sees nothing of it); same sentence |
| SenderPipeline `FlagsMirror` | `OnBoot = FALSE` | the sender reports RECORDING with no pipeline; `pipeline_sender.py:13`: "mirror ... the Sender.transmitting / Sender.recording flags" |
| SenderPipeline `BitrateTakesEffect` | two bitrates | SET_BITRATE, STOP, START goes on at the old rate; `pipeline_sender.py:174`: "Takes effect on the next :meth:`start_stream`" |
| SenderPipeline `FileOnlyWhenActive` | `"parse" \in Failures` | a failed build leaves the file name; `pipeline_sender.py:131`: "or None when idle" |
| SenderPipeline `StreamingPlays` | `"element" \in Failures` | START only opens the valves of a pipeline that has failed; `pipeline_sender.py:16`: "pipeline PLAYING, both valves open" |
| Discovery `NameIsCurrent` | 2 units | nothing resets a name; `sender_link.py:126`: "a swapped-in unit at the same address ... can report a new name" |
| TcpLink `Reconnects` | a refused frame | what the Sender's handler raises ends its client task; `sender_main.py:5`: "reconnects on drop" |
| TcpLink `LinkTracksConnection` | 2 connections, 1 fault | the end of an old connection marks the link of the new one offline; `tcp_link.py:56`: the task "marks the link online/offline" |
| UartLink `ConnectionOwned` | a refused frame | a transport stays open beside the new one; `uart_link.py:11`: "a background task owns the connection lifetime" |
| Mesh `NeverUnroutable` | `Ttl[Controller] < Ttl[Hub]` | the hub forwards what the Controller has forgotten 5 s before; `control-plane/README.md:53`: "the same way the Teensy hub does" |
| HubRoutes `PingRouted` | 2 spokes | an addressed ping is absorbed as a heartbeat; the hub's `README.md:14`: "Routes by destination" |
| BenchServer `EveryLineAnswered` | `Selector = FALSE` | a PipelineError closes the connection with no answer; `bench_server.py:4`: "one-line-in / one-line-out" |
| BenchServer `CycleGoesOn` | `Selector = FALSE` | the same error ends the cycle's task, which nobody awaits, after its "OK cycling" |
| GroundStation `PassedAfterHop` | `MaxQueue = 2` | a heartbeat of the old frequency counts as the post-hop one; the tool's `README.md:55`: "another heartbeat after the hop window" |
| GroundStation `StartedByRadio` | any | the heartbeat of any node starts the test; `README.md:52`: "from 0x20" |
| FakeNode `EveryCommandJudged` | 1 port, 2 commands | the second command takes the pending slot of the first; `main.cpp:63`: "ACK ... on receipt, or NO-ACK" |
| FakeNode `AckOnReceipt` | 1 switch | numbers start again at 0, and an ACK the old node earned closes a command of the new one; same sentence |
| FetchRecordings `VerifiedMove` | `MaxSize = 2` | a file that grew during scp is removed; `fetch-recordings.sh:23`: "after a verified copy" |
| TcpLink `StopAlwaysEnds` | `Stops = TRUE`, 2 connections, 1 fault | a connection that `_writer` is not about keeps `server.stop` waiting for as long as its Sender lives (Python 3.12 and later); `controller_main.py:504`: "trigger a clean shutdown" |
| Wiring `UnlistedGetsLinked` | a sender that relays | while the first frame of each connection is one it relays, the connection is closed; `control-plane/README.md:69`: "A node can announce itself with a heartbeat/status frame first" |
| Wiring `LoadedStarts` | a `[[senders]]` id that is no sender's | the file loads, and `run` ends in a KeyError when it builds `ip_to_link`; `config.py:27`: a ConfigError is "raised when a config file is missing required fields or malformed" |
| HubSpoke `StallsHarmless` | `MaxStalls = 1` | a loop that is held up loses bytes in the port, and takes the old half of a frame for text; the hub's `README.md:26`: what goes to USB is "not a valid ARC packet"; `hub_oled.cpp:242` knows of stalls that "overflow the UART RX FIFOs and choke frame routing" |
| StatusCodec `EveryReportFits` | a small `MaxPayload` | ten senders with the default names of eleven bytes exceed the payload: encode raises in the frame handler; `controller_main.py:14`: "GET_STATUS produces a STATUS_REPORT reply" |
| Console `Answered` | `Fits = FALSE` | the same request is acknowledged and never answered; same sentence |
| Console `PongAlwaysMeansReached` | `SeqSpan` below `MaxSends` | `_acks` is kept for good: after 65536 frames an old ACK is an immediate pong |
| Console `NewestLast` | 2 requests, 1 loss | a report that is sent again is printed after a newer one and looks the same; nothing documented |
| Telemetry `SpikesReported`, `SamplesCountedOnce` | 2 samples | a latency between the copy and the reset is in no report, and a count read before a reset is written back; `pipeline_controller.py:399`: "`max_ns` resets each snapshot" |

Also stated and not in a run's list: each module's type invariant (those of
SourceSwitcher, BenchServer, VideoControl, ControllerPipeline, UartLink, TcpLink,
Discovery and HubRoutes are proved), and what holds on the same instances and is proved as well
or is part of an inductive invariant: `WarmNeverStops`, `OneLocalCamera`,
`PipelineShowsActive` of a selector, `NoTxOnly`, `StoppedIsSilent`, `OnlineIsServed`,
`OneSlotPerAddr`, `NeverWrongSpoke` and `VerdictStands`.

## 6. Bounds

| Models | Bounds | Why they are enough |
|---|---|---|
| SourceSwitcher | none; 2 slots (as in the code), 3 senders in `switching`, the two unconfigured ones symmetric; 2 in `modes` | three senders for two slots: one is always hidden while two move |
| VideoControl | 1 sender, `MaxSeq` 2 commands (1 in `modes`) over all lives of the Controller, `MaxTries` 1, one fault | two commands are the fewest that contradict each other; `Faults` says which faults a run takes; `MaxSkip` 0 leaves out numbers other commands use |
| ControllerPipeline, SenderPipeline | 2 senders, layouts and texts, 3 bitrates (0 is one), `MaxClock` 2 | every failure at every step; two seconds separate two file names |
| Discovery | timeout 2, 1 retry, 2 units, one of them listed, queue 2, 2 faults | age 2 separates "late" from "gone"; faults may meet query, ACK and report; two frames for a unit that is away fill its queue, and a third is dropped |
| TcpLink | 3 connections, 2 frames, queue 2, 2 faults; `crowded`: 3 frames, 1 fault | two connections overlap while a third is made; a frame more than the queue holds is dropped while nobody drains it |
| UartLink | 4 frames, queue 2, 3 handled, 2 faults, frame 2 refused | the queue overflows, and a frame is lost between two that are not |
| Mesh | 6 nodes, 1 frame, 1 heartbeat of F in flight when the next is sent, 1 move, times-to-live 1 | a move leaves one stale route at each end and one in the middle; relays put several copies on the way |
| HubRoutes | 2 spokes, 2 nodes, 2 slots or 1, timeout 2, `SeenMax` 1 or 3, `MaxOthers` 2 | one node more than slots |
| BenchServer | 2 senders and the local camera, 2 commands | a rotation needs three sources to leave one out |
| GroundStation | 2 numbers, 2 notifications waiting | the command and ACK tasks around it |
| FakeNode | 2 ports, 2-3 commands, 0 or 2 switches, timeout 2, numbers to `MaxSeq` | two ports wait at once, and one is overwritten; no number comes round |
| Wiring | 2 senders, one relaying a flight computer, a HITL peer; 3 configurations | listed, unlisted and failing; the shared destination is behind one of two |
| StatusCodec | bytes 0 to 3, flags to 1, 1-2 entries of each list | every length is 0, 1 or more, at and beyond its limit; a byte that is no text |
| Telemetry | 2 latencies, 4 samples, 2 reports | a sample falls between any two accesses of a drain, and another after |
| HubSpoke | 2 frames of 2 bytes, 3 bytes of text, 4 bytes gathered, 3 in the port, 1 stall | text fills the buffer with or without a frame behind it; a stalled port overflows in the middle of a frame |
| Console | 3 frames sent, numbers modulo 2, 1 retry, 1 loss, 3 frames on the way | two requests and an ACK, or a number that comes round |
| HitlBridge | 2 destinations, period 2, time to 17 | a flight from ignition to landing, with a stall anywhere |
| FetchRecordings | 2 hosts, 2 recordings on the first, length 2 | length 2 has a part that is not the whole; the second host is the turn after |

Deadlock is checked except where the bounds stop the system: in `processes`,
`links`, `tools` and `tcp_leak` a behaviour that has used up its commands, frames
or faults, or a script that has ended, may rest.

## 7. Fairness

- *The event loop runs its tasks*: weak fairness of the reconcile tick
  (`SourceSwitcher!FairSpec`), of a link's read, write, open and close
  (`UartFairness`, `TcpFairness`), and of the bench server's task getting its
  turn (`BenchServer!Turn`): asyncio runs every ready task, and none of these
  awaits anything but a timer or the transport.
- *The loops of the hub and of the fake node never block*: weak fairness of
  their heartbeats, status lines, timeouts and clock.
- *Nodes that are on go on sending*: weak fairness of heartbeats (`Beat`,
  `Emit`), which a timer drives, and of deliveries on links that hold.
- *Units keep connecting and say something*: strong fairness of a first frame
  (`WiringFairness`), because a connection may break before it any number of
  times but a sender's heartbeat comes every second.
- *The two ends of the console run and the path passes frames on*
  (`ConsoleFairness`); what the path loses is bounded by `MaxLosses`.
- *The end of the process runs on*: weak fairness of `LinksStopped` and
  `ServerStopped`, and of the end of what `stop` has closed. A dead connection
  that nobody writes to any more need not be noticed once `stop` has begun, nor
  need a leaked transport ever be reclaimed.
- The `smoke` part is in addition given a link that works (`PatientFairness`),
  because `GroundStation!Passes` is about such a link only.
- Nothing forces an operator, a fault, a plug or a recovery: liveness
  properties have "if it stays" in them (`<>[]plugged`).

In the modules with parts, fairness is asked of the part that runs only.

## 8. Proofs

What TLAPS proves holds for every value of the constants that satisfies the
`ASSUME`s of the module, or the `...Assumption` a theorem names when it is about
an instance. TLC evaluates each of them for the instances it checks. Where a run
checks a property and a theorem states it, both see one definition: the modules
`Processes`, `Links`, `Routing` and `Tools` compose what a run goes through part
by part and what a proof module is about.

**SequenceInduction** is what the others share. The induction theorems of the
library take an operator, which no prover here can instantiate; `SetInduction`
takes a set instead: a set of numbers with 0 and every successor is all of them,
shown from the well-foundedness of finite sets under inclusion. What is to hold
of every number, or of every sequence of a length, is written as the set of the
numbers it holds of. From it, `FlattenGrows`: what a sequence of sequences comes
to grows with each part, though `FlattenSeq` is defined by a function of its own
values. The rest are facts about sequences joined and taken apart again.

**SourceSwitcherProofs.** The properties of the switcher are not inductive: in the
middle of a pass over the slots the books are partly new. The invariant `Inv`
(`TypeOK`, `LastCommandAgrees`, `VisibleIsStreaming`, `ColdStreamsOnlyVisible`,
`StartedAreCounted`, `WarmNeverStops`, `CommandsReachKnown`) ties `streaming`,
`stopped` and `lastCmd` to `registered` and `online`, and holds between handlers.
Within one, lemmas about a pass carry what holds after each slot: `PassOK` for the
books, `PassVisible` for the slots already seen, `ToldOK` for what each sender was
told since the pass began, `Counted` for what the report shows, `ActiveFollows` for
which sender each slot shows after it. From these follow
`StreamsCorrect`, `ReportCorrect`, `CommandsCorrect`, `WarmCorrect`, and the action
property `NotRedundantCorrect` (no command repeats the one before it). `TickCorrect`
says that what a tick leaves is exact: `AsDesired`, each slot as it is desired
(`SlotsTaken` says it of one pass), and `AsPolicyWants`, the streams; no step that
leaves less of either is a tick. `ShownCorrect` and `PictureCorrect` are about the
picture: there is one local camera at most, a selector shows what the books say, and
a rebuild pipeline differs from them only where they say the local camera, because
it refuses a request only when every slot that is to change would show that one.
`RotationCorrect` is about every step of a bench server, for any lists
(`BenchAssumption`). `PassSpares` says of a pass over both slots that a sender which
stays in the picture is not stopped unless it goes from main to PIP: main gives it
up before PIP asks for it, while on the way from PIP to main it is shown by both.
It needs nothing of what was asked for before. A turn of a rotation of three or more
different sources (`TurnOfThree`) does not go that way: it brings to PIP what was
not in main, if the source asked for in main is still the one of the turn before.
If somebody else chose that, the turn may be the exchange of two visible senders
that section 5 shows under `VisibleNotStopped`.

**VideoControlProofs.** `VideoInvariant` lifts `Inv` through the composition, with
`ChannelOK` for what is pending and in flight. `DeliveryCorrect` is a refinement,
step by step: whatever breaks, restarts or is sent again, the composition takes a
step of `CommandDelivery` or none. `UnbrokenCorrect` needs the strengthening
`Unbroken`: while nothing has failed, every linked sender is `Sound`, that is, no
command is lost (`NoneLost`), nothing waits behind a later one (`OldestFirst`), the
newest decides what the sender does (`NewestRules`), and what it has applied rises
(`Increasing`); a sender that is not linked is untouched.

**ProcessProofs.** `PictureCorrect` and `ReliedCorrect`: through failing
constructions, rebuilds and changes of layout the Controller's pipeline implements
`CompositorSources`, which is what the switcher relies on. It needs `Recorded`,
that the live pipeline is one made of what is recorded. `RecordingCorrect` for the
Sender's pipeline needs that flags, sinks and the open file agree (`SenderFlags`).
`ImplementsCorrect` says it of both modes and of a startup layout that does not
exist at once, as the run checks it. `MaximumCorrect` is about two threads: a
maximum is copied, reset and logged in several steps while samples arrive, and
`Windows` says of each step which samples the copies still speak for.
`LinksCorrect`: with a sound configuration every address has one link and every
link is one unit's, whatever connects, speaks first or breaks, because what is
learned from a frame agrees with what `Start` put into the tables.
`CodecCorrect` takes a payload apart where it was put together. `Spelt`, `Spells`
and `Written` relate bytes to the sender, the senders and the report they are read
as. What is written is read, whatever comes behind it (`BlockTaken`,
`SenderTaken`, `SendersTaken`, `WrittenRead`), so a payload is no front of another;
what is read was written (`BlockMet`, `SenderMet`, `SendersMet`, `ReadWritten`);
and two payloads of one report are `Like`, different only in the status byte of a
sender without one. `Arrival`, the invariant, says how what has arrived may differ
from what was sent. The assumption says that reports are made of UTF-8 texts and
numbers, of any length and size: those beyond the limits are refused by `encode`.

**DiscoveryProofs.** `OneQueryCorrect`: at most one query in an online session,
because a query that was counted is still recorded: `queries = 1 => infoRequested`,
which every step keeps but going offline, which starts a new session.

**LinkProofs.** A serial link: `AccountedCorrect` from `LossCorrect` and
`WrittenCorrect` (what was written and what is queued rise together, all of it at
most `sent`), and `HeardCorrect` over a line that loses and garbles frames; its invariant `Received` says that the line
rises apart from what is garbled and comes after all that was heard. A Sender's TCP
link: `ArriveCorrect`, over any number of connections with two handlers at one
queue, from `TcpInOrder`: what was received, is on the wire of the connection that
may still deliver, and is queued rise in this order (`OnTheWay`). `ServedCorrect`:
the link is shown online only while a handler serves it. A spoke of the hub:
`SpokeCorrect`, for any sizes of frames, buffer and port and any stream. That every
byte read was routed, printed or is gathered follows from `FlattenGrows`. That a
frame is routed, if nothing unfinished was ahead of it and no stall came until it
had arrived, needs the order of the stream: what was read, is in the port and on
the line rises by frame and place, and a frame that is due is on its way whole, or
routed.

**RoutingProofs.** `RoutesCorrect` for the hub's tables with any number of slots:
`TableRight` says that a table says of those it has what was heard of them, once
each; `Serves`, with a slot for everyone, that it has whoever was heard in time,
for which a free slot is found by counting (a pigeonhole). `NoRevisitCorrect` for the
mesh is an argument about trees: removing a link splits it in two, everything a
node has learned `Leads` towards the address, and a frame on a link has behind it
all it has passed and its source, and before it its destination (`OnCourse`). So no
node forwards to where the frame has been.

**ToolProofs.** Fetching recordings (`SurviveCorrect`): the invariant adds that a
finished recording cannot grow, that what waits to be removed has been copied whole,
and that what is still to be copied has not been removed, so that no copy that
stands for a removed file is overwritten. The HITL bridge: `OnSchedule` says nothing
of the time of the next sample, so `Pace` ties it to the number of samples made, a
period less while one is being sent; `Standing` adds that the rocket was at height 0
when samples are counted as grounded. The one use of multiplication by a constant is
the lemma `NextMultiple`. The ground station (`TasksCorrect`): a wake-up is pending
or its cause has not happened, numbers given out are below the counter (`Numbered`);
for the console a pong is deserved because an answer is on the way only for what was
taken (`Taken`, `PongDeserved`), as long as numbers have not come round. The fake
nodes: `VerdictCorrect` (a command is judged once) from `Judging`; `AckCorrect`,
until something is switched, from `Unswitched`: numbers that are spent are below the
port's counter (`Spent`), and the number a slot waits for is its command's own
(`OwnNumber`), so that every frame is new (`FramesFresh`).

Only model-checked:

- all liveness, which is out of the prover's reach: `BenchShowsAll`,
  `VideoResolves`, `UnitsGetLinks`, `UartReopens`, `TcpSettles`, `MoverIsFound`,
  `MovedTalkEnds`, `ScarceServed`, `UnreachableGoesOffline`, `Rediscovered` and
  `ToolsServed`;
- `ModesSettle`, which is `TickSettles` under two more sets of constants; for all
  of them `TickCorrect` proves it.

## 9. What is left out

- **Controller CLI, setup wizard's questions, `video_ports.py`**: one line over a
  socket; prompts; arithmetic on two constants.
- **Configuration beyond senders and peers**: sections that are read once into
  fields, each with its own type check and no rule between them.
- **Telemetry beyond latency**: CPU, memory, temperature, queue levels and rates
  are read and logged; `drain_bus` logs what GStreamer says and changes nothing.
- **HITL figures**: pressure, position and the text of a sample; the profile is
  modelled by its phases with accelerations in multiples of g, and not by its
  floating-point values.
- **The ground station's `freq` and `phy`** send one frame and return; at the end
  of its standard input `repl` reads empty lines for ever, which no state shows.
- **`arc_protocol`**: another repository. Its reliable endpoint is modelled as
  external from how `Node` and the hub use it.
- **Hub display, name tables, data radio, serial bridge**: drawing and copying;
  that drawing holds the loop up is in `HubSpoke`.
- **`setup.sh`, `setup_wizard.py`**: edit one machine, once.
- Inside modelled components: the stop of UART links and of a Sender, COBS
  and CRC, the hub's SESSION_RESET, vitals and frame records, GStreamer launch
  text, and the wording of what is printed.
