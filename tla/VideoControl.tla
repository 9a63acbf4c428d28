---------------------------- MODULE VideoControl ----------------------------
(***************************************************************************)
(* From a slot of the Controller to a stream of a Sender: SourceSwitcher   *)
(* composed with the reliable delivery of its commands (the Controller's   *)
(* ReliableEndpoint and its QueuedTcpLink), the Sender that obeys them and *)
(* the acknowledgements on the way back.                                   *)
(*                                                                         *)
(* The queue of a QueuedTcpLink outlives its connections, so a broken link *)
(* only loses what the dead connection's transmit loop had already taken   *)
(* off the head.  Both processes use session 1 in every life, so a restart *)
(* is invisible to PeerHealth.observe and to the duplicate filter.  A node *)
(* numbers everything it sends with one counter; one destination sees an   *)
(* increasing subsequence of it, hence a counter per sender and MaxSkip.   *)
(***************************************************************************)
EXTENDS SourceSwitcher

CONSTANTS
  MaxTries,       \* max_retries of the Controller's ReliableEndpoint
  MaxSeq,         \* bound: no request and no timeout past this many numbers
  MaxSkip,        \* bound: numbers other frames use up between two commands
  MaxFaults,      \* bound: broken connections and restarts
  Faults,         \* which of "break", "sender", "controller" happen
  BootStream      \* start_stream_on_boot

ASSUME VideoAssumption ==
  /\ MaxTries \in Nat /\ MaxSeq \in Nat /\ MaxSkip \in Nat /\ MaxFaults \in Nat
  /\ Faults \subseteq {"break", "sender", "controller"}
  /\ BootStream \in BOOLEAN

VARIABLES
  nextSeq,       \* the last sequence number used towards each sender
  pending,       \* ReliableEndpoint: unacknowledged commands by number
  failed,        \* Node.failed: commands given up after the last retry
  downlink,      \* QueuedTcpLink.queue and the wire, Controller to Sender
  uplink,        \* acknowledgements on their way back
  linked,        \* the connection is up
  seen,          \* numbers in the Sender's duplicate filter
  transmitting,  \* Sender.transmitting
  applied,       \* history: what each sender obeyed in this life, in order
  issued,        \* history: numbers given to commands in the Controller's life
  faults,        \* bound: how many faults have happened
  spent          \* bound: numbers used in earlier lives of the Controller

channelVars == <<nextSeq, pending, failed, downlink, issued>>
senderVars == <<seen, transmitting, applied>>
videoVars == <<vars, channelVars, uplink, linked, senderVars, faults, spent>>

-----------------------------------------------------------------------------
(* The Controller's ReliableEndpoint.                                      *)

NothingPending == [n \in {} |-> [cmd |-> "STOP", tries |-> 0]]

\* The numbers in S as the dictionary holds them: in the order of their issue.
InOrder(S) ==
  CHOOSE s \in [1..Cardinality(S) -> S] :
    \A i, j \in 1..Cardinality(S) : i < j => s[i] < s[j]

\* tick: a pending command that is due goes out again with its number, or is
\* dropped into Node.failed when it has no retry left.
Exhausted(a, due) ==
  {n \in DOMAIN pending[a] \cap due : pending[a][n].tries = MaxTries}
Resent(a, due) ==
  LET again == InOrder((DOMAIN pending[a] \cap due) \ Exhausted(a, due))
  IN  [i \in DOMAIN again |->
        [seq |-> again[i], cmd |-> pending[a][again[i]].cmd]]
KeepsExhausted(a, due) ==
  [n \in DOMAIN pending[a] |->
    IF n \in due \ Exhausted(a, due) THEN [pending[a][n] EXCEPT !.tries = @ + 1]
    ELSE pending[a][n]]
StillPending(a, due) ==
  [n \in DOMAIN pending[a] \ Exhausted(a, due) |->
    IF n \in due THEN [pending[a][n] EXCEPT !.tries = @ + 1]
    ELSE pending[a][n]]

\* send: the commands of this step get the next numbers, queue up behind
\* everything else the link has to send, and stay pending until acknowledged.
Numbers(a, skip) == {nextSeq[a] + skip + i : i \in DOMAIN sent'[a]}
Issued(a, skip) ==
  [i \in DOMAIN sent'[a] |->
    [seq |-> nextSeq[a] + skip + i, cmd |-> sent'[a][i]]]
Awaited(a, skip) ==
  [n \in Numbers(a, skip) |->
    [cmd |-> sent'[a][n - nextSeq[a] - skip], tries |-> 0]]
Issue(due, skip) ==
  /\ nextSeq' = [a \in Senders |->
       IF sent'[a] = <<>> THEN nextSeq[a]
       ELSE nextSeq[a] + skip + Len(sent'[a])]
  /\ downlink' = [a \in Senders |->
       downlink[a] \o Resent(a, due[a]) \o Issued(a, skip)]
  /\ pending' = [a \in Senders |->
       [n \in DOMAIN StillPending(a, due[a]) \cup Numbers(a, skip) |->
         IF n \in Numbers(a, skip) THEN Awaited(a, skip)[n]
         ELSE StillPending(a, due[a])[n]]]
  /\ failed' = [a \in Senders |-> failed[a] \cup Exhausted(a, due[a])]
  /\ issued' = [a \in Senders |-> issued[a] \cup Numbers(a, skip)]

-----------------------------------------------------------------------------
(* The Controller process: the tick first runs the endpoint's retries and  *)
(* then the switcher; FC_VIDEO and bench requests only issue commands.     *)

Room == \A a \in Senders : spent[a] + nextSeq[a] < MaxSeq

ControllerTick ==
  \E lost \in SUBSET online, skip \in 0..MaxSkip :
    \E due \in [Senders -> SUBSET UNION {DOMAIN pending[a] : a \in Senders}] :
      /\ lost = {} \/ Room
      /\ Tick(lost)
      /\ Issue(due, skip)
      /\ UNCHANGED <<uplink, linked, senderVars, faults, spent>>

Request ==
  \E skip \in 0..MaxSkip :
    /\ Room
    /\ \/ \E slot \in Slots, src \in Sources : SetSource(slot, src)
       \/ \E requested \in [Slots -> Sources] : SetSources(requested)
    /\ Issue([a \in Senders |-> {}], skip)
    /\ UNCHANGED <<uplink, linked, senderVars, faults, spent>>

\* A heartbeat or status report of the sender arrives; the first frame of a
\* connection that is not bound to a configured address registers it.
Arrive(a) ==
  /\ linked[a]
  /\ Hear(a) \/ Connect(a)
  /\ UNCHANGED <<channelVars, uplink, linked, senderVars, faults, spent>>

\* An acknowledgement arrives: it names the command only by its number.
ReceiveAck(a) ==
  /\ linked[a] /\ uplink[a] # <<>>
  /\ pending' = [pending EXCEPT ![a] =
                    [n \in DOMAIN @ \ {Head(uplink[a])} |-> @[n]]]
  /\ uplink' = [uplink EXCEPT ![a] = Tail(@)]
  /\ Hear(a)
  /\ UNCHANGED <<nextSeq, failed, downlink, issued, linked, senderVars,
                 faults, spent>>

-----------------------------------------------------------------------------
(* The Sender process: ReliableEndpoint.receive always acknowledges, the   *)
(* command is obeyed (_apply_video_command) when its number is new.        *)

Obey(a, frame) ==
  /\ seen' = [seen EXCEPT ![a] = @ \cup {frame.seq}]
  /\ applied' = [applied EXCEPT ![a] = Append(@, frame.seq)]
  /\ transmitting' = [transmitting EXCEPT ![a] = frame.cmd = "START"]

DeliverUnfiltered(a) ==
  /\ linked[a] /\ downlink[a] # <<>>
  /\ downlink' = [downlink EXCEPT ![a] = Tail(@)]
  /\ uplink' = [uplink EXCEPT ![a] = Append(@, Head(downlink[a]).seq)]
  /\ Obey(a, Head(downlink[a]))
  /\ UNCHANGED <<vars, nextSeq, pending, failed, issued, linked, faults, spent>>
DeliverNewestOnly(a) ==
  /\ linked[a] /\ downlink[a] # <<>>
  /\ downlink' = [downlink EXCEPT ![a] = Tail(@)]
  /\ uplink' = [uplink EXCEPT ![a] = Append(@, Head(downlink[a]).seq)]
  /\ IF seen[a] # {} THEN UNCHANGED senderVars
     ELSE Obey(a, Head(downlink[a]))
  /\ UNCHANGED <<vars, nextSeq, pending, failed, issued, linked, faults, spent>>
Deliver(a) ==
  /\ linked[a] /\ downlink[a] # <<>>
  /\ downlink' = [downlink EXCEPT ![a] = Tail(@)]
  /\ uplink' = [uplink EXCEPT ![a] = Append(@, Head(downlink[a]).seq)]
  /\ IF Head(downlink[a]).seq \in seen[a] THEN UNCHANGED senderVars
     ELSE Obey(a, Head(downlink[a]))
  /\ UNCHANGED <<vars, nextSeq, pending, failed, issued, linked, faults, spent>>

-----------------------------------------------------------------------------
(* Faults.                                                                 *)

Fault(kind) ==
  /\ kind \in Faults /\ faults < MaxFaults
  /\ faults' = faults + 1

\* The connection breaks: run_connected returns on both sides.
Break(a) ==
  /\ Fault("break")
  /\ linked[a]
  /\ linked' = [linked EXCEPT ![a] = FALSE]
  /\ UNCHANGED <<vars, channelVars, uplink, senderVars, spent>>

\* What the transmit loop of the dead connection had taken is lost.
Swallow(a) ==
  /\ ~linked[a]
  /\ \/ /\ downlink[a] # <<>>
        /\ downlink' = [downlink EXCEPT ![a] = Tail(@)]
        /\ UNCHANGED uplink
     \/ /\ uplink[a] # <<>>
        /\ uplink' = [uplink EXCEPT ![a] = Tail(@)]
        /\ UNCHANGED downlink
  /\ UNCHANGED <<vars, nextSeq, pending, failed, issued, linked, senderVars,
                 faults, spent>>

\* run_client connects again.
Relink(a) ==
  /\ ~linked[a]
  /\ linked' = [linked EXCEPT ![a] = TRUE]
  /\ UNCHANGED <<vars, channelVars, uplink, senderVars, faults, spent>>

\* The Sender process restarts: a new endpoint, a new pipeline, and possibly
\* start_stream_on_boot; the Controller keeps its queue for it.  Of the ACKs on
\* their way those that the Controller still reads from the old connection are
\* read before this step: they change nothing at the Sender, which takes nothing
\* from the Controller before Relink.
RestartSender(a) ==
  /\ Fault("sender")
  /\ linked' = [linked EXCEPT ![a] = FALSE]
  /\ seen' = [seen EXCEPT ![a] = {}]
  /\ transmitting' = [transmitting EXCEPT ![a] = BootStream]
  /\ applied' = [applied EXCEPT ![a] = <<>>]
  /\ uplink' = [uplink EXCEPT ![a] = <<>>]
  /\ UNCHANGED <<vars, channelVars, spent>>

\* The Controller process restarts: run() builds everything anew and numbers
\* from the start, the senders keep what they have.
RestartController ==
  /\ Fault("controller")
  /\ sources' = FirstSources
  /\ active' = FirstActive
  /\ registered' = Configured \cup ({FirstSources[s] : s \in Slots} \cap Senders)
  /\ streaming' = {} /\ stopped' = {}
  /\ known' = Configured /\ online' = {}
  /\ lastCmd' = [a \in Senders |-> "none"] /\ sent' = NoCommands
  /\ shown' = FirstShown /\ playing' \in BOOLEAN
  /\ nextSeq' = [a \in Senders |-> 0]
  /\ pending' = [a \in Senders |-> NothingPending]
  /\ failed' = [a \in Senders |-> {}] /\ issued' = [a \in Senders |-> {}]
  /\ downlink' = [a \in Senders |-> <<>>]
  /\ linked' = [a \in Senders |-> FALSE]
  /\ spent' = [a \in Senders |-> spent[a] + nextSeq[a]]
  /\ UNCHANGED <<uplink, senderVars>>

-----------------------------------------------------------------------------

ChannelInit ==
  /\ nextSeq = [a \in Senders |-> 0]
  /\ pending = [a \in Senders |-> NothingPending]
  /\ failed = [a \in Senders |-> {}] /\ issued = [a \in Senders |-> {}]
  /\ downlink = [a \in Senders |-> <<>>]
  /\ uplink = [a \in Senders |-> <<>>]
  /\ linked = [a \in Senders |-> FALSE]
  /\ seen = [a \in Senders |-> {}]
  /\ transmitting = [a \in Senders |-> BootStream]
  /\ applied = [a \in Senders |-> <<>>]
  /\ faults = 0 /\ spent = [a \in Senders |-> 0]
VideoInit == Init /\ ChannelInit

Link(a) == Deliver(a) \/ ReceiveAck(a) \/ Relink(a)

VideoNext ==
  \/ ControllerTick \/ Request \/ RestartController
  \/ \E a \in Senders : \/ Link(a) \/ Arrive(a)
                        \/ Break(a) \/ Swallow(a) \/ RestartSender(a)

VideoSpec == VideoInit /\ [][VideoNext]_videoVars

\* run_client reconnects for ever, both receive loops take what arrives, and
\* the tick loop retries whatever is due (a tick that also issues commands is
\* followed by one that does not).
AllDue ==
  pending' = [a \in Senders |-> StillPending(a, DOMAIN pending[a])]
VideoFairness ==
  /\ WF_pending(AllDue)
  /\ \A a \in Senders : WF_videoVars(Link(a))
FairVideoSpec == VideoSpec /\ VideoFairness

-----------------------------------------------------------------------------
(* Properties.                                                             *)

Frames == [seq : Nat, cmd : Commands]
Entries == [cmd : Commands, tries : 0..MaxTries]

\* The numbers of one sender's channel belong together: a number is pending
\* only if it was issued, not acknowledged and not given up, with the retries
\* the endpoint allows; the sender's duplicate filter holds exactly the numbers
\* it obeyed, and it acknowledges no others.
ChannelOK(a) ==
  /\ \A n \in issued[a] : n \in 1..nextSeq[a]
  /\ pending[a] \in [DOMAIN pending[a] -> Entries]
  /\ DOMAIN pending[a] \subseteq issued[a] \ failed[a]
  /\ failed[a] \subseteq issued[a]
  /\ \A i \in DOMAIN downlink[a] : downlink[a][i].seq \in issued[a]
  /\ \A i \in DOMAIN uplink[a] : uplink[a][i] \in seen[a]
  /\ seen[a] = {applied[a][i] : i \in DOMAIN applied[a]}

\* Every channel variable has its type, and every channel is consistent.
VideoTypeOK ==
  /\ nextSeq \in [Senders -> Nat]
  /\ issued \in [Senders -> SUBSET Nat] /\ failed \in [Senders -> SUBSET Nat]
  /\ downlink \in [Senders -> Seq(Frames)] /\ uplink \in [Senders -> Seq(Nat)]
  /\ applied \in [Senders -> Seq(Nat)]
  /\ DOMAIN pending = Senders /\ DOMAIN seen = Senders
  /\ \A a \in Senders : ChannelOK(a)
  /\ linked \in [Senders -> BOOLEAN] /\ transmitting \in [Senders -> BOOLEAN]
  /\ faults \in 0..MaxFaults /\ spent \in [Senders -> Nat]

\* Nothing is on its way to or from the sender and the switcher, having heard
\* of it, has nothing more to tell it.
Settled(a) ==
  /\ DOMAIN pending[a] = {} /\ downlink[a] = <<>> /\ uplink[a] = <<>> /\ linked[a]
  /\ a \in online \cap registered
  /\ a \in streaming \cup stopped
  /\ a \in streaming <=> a \in {sources[s] : s \in Slots}

\* "In the default cold mode, the Controller sends STOP_STREAM to online
\* senders that are not visible so boot-started sender streams do not consume
\* controller decode time": once everything has settled, a sender in no slot
\* does not transmit.
HiddenIsStopped ==
  \A a \in Senders :
    ~Warm /\ Settled(a) /\ a \notin VisibleSenders => ~transmitting[a]

\* "Once the Sender does connect, the next reconcile drives the slot to it
\* and issues a START_STREAM": once everything has settled, a sender in a slot
\* transmits.
VisibleTransmits ==
  \A a \in Senders :
    Settled(a) /\ a \in VisibleSenders => transmitting[a]

\* Over an unbroken connection a sender obeys its commands in the order the
\* switcher gave them, however often they are retried.
AppliedInOrder ==
  \A a \in Senders : \A i, j \in DOMAIN applied[a] :
    i < j => applied[a][i] < applied[a][j]

\* As long as no connection has broken and no process was restarted, what the
\* channel settles to is what the slots ask for, and nothing is obeyed out of
\* order.
UnbrokenObeys ==
  faults = 0 => HiddenIsStopped /\ VisibleTransmits /\ AppliedInOrder

\* A command is acknowledged or given up: no number stays pending for ever,
\* whatever happens to the connection.
CommandsResolve ==
  \A a \in Senders, n \in 1..MaxSeq :
    n \in DOMAIN pending[a] ~> n \notin DOMAIN pending[a]

\* The number of every command and what has become of it.
Delivery == INSTANCE CommandDelivery WITH
  open <- [a \in Senders |-> DOMAIN pending[a]],
  obeyed <- applied

\* The endpoints implement the abstract delivery, through broken connections
\* and restarts of either process: a sender obeys a number at most once in
\* its life, and a command that is closed was obeyed, was given up, or was
\* forgotten by a Controller that restarted.
DeliversOnce == Delivery!Spec

=============================================================================
