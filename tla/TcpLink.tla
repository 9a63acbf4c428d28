------------------------------ MODULE TcpLink ------------------------------
(***************************************************************************)
(* One Sender's TCP session with the Controller: run_client at the Sender, *)
(* TcpServer._handle and one shared QueuedTcpLink at the Controller        *)
(* (arc/tcp_link.py, arc/runtime.py).  The network may break a connection  *)
(* without either end seeing it at once, so the Sender may be back on a    *)
(* new connection while the Controller still serves the old one, both      *)
(* handlers sharing one queue, one online flag and one _writer.            *)
(*                                                                         *)
(* Frames to the Sender are numbered in the order they are sent.  Of those *)
(* to the Controller only what they may do to a handler is kept: name the  *)
(* sender of an unknown address, or make the handler raise.  A connection  *)
(* is one of a few ends that are used again once closed.  The end of run   *)
(* stops every link and then the server, which since Python 3.12 waits     *)
(* for all its connections.                                                *)
(***************************************************************************)
EXTENDS Naturals, Sequences

CONSTANTS
  Conns,      \* connections, numbers above 0
  Unknown,    \* the peer's IP is not configured: its first frame names it
  Refused,    \* the frames that make the Sender's handler raise
  Refuses,    \* the Controller's handler may raise
  Stops,      \* the Controller may be stopped
  MaxQueue,   \* max_queue
  MaxFrames,  \* bound: frames sent to the Sender
  MaxFaults   \* bound: connections the network breaks

TcpLinkAssumption ==
  /\ Conns \subseteq Nat \ {0} /\ Conns # {}
  /\ {Unknown, Refuses, Stops} \subseteq BOOLEAN /\ Refused \subseteq Nat
  /\ MaxQueue \in Nat \ {0} /\ MaxFrames \in Nat /\ MaxFaults \in Nat

VARIABLES
  client,   \* the Sender's run_client: "waiting", "connected" or "ended"
  current,  \* the connection it holds, 0 when none
  serving,  \* what the Controller's _handle does with each connection
  online,   \* the Controller's link.online
  writer,   \* the Controller's link._writer, 0 when None
  queue,    \* the Controller's link.queue
  wire,     \* frames on their way to the Sender in each connection
  cut,      \* connections whose path is gone
  sent,     \* frames sent so far
  last,     \* the last frame the Sender received
  stop,     \* the end of the Controller's run: "no", "links" while it stops
            \* its links, "server" while that waits for its connections, "done"
  shut,     \* connections that the link's stop has closed
  faults

linkVars == <<online, writer>>
countVars == <<sent, last, faults>>
stopVars == <<stop, shut>>
tcpVars == <<client, current, serving, linkVars, queue, wire, cut, countVars, stopVars>>

Init ==
  /\ client = "waiting" /\ current = 0
  /\ serving = [c \in Conns |-> "closed"]
  /\ online = FALSE /\ writer = 0 /\ queue = <<>>
  /\ wire = [c \in Conns |-> <<>>] /\ cut = {}
  /\ sent = 0 /\ last = 0 /\ faults = 0
  /\ stop = "no" /\ shut = {}

Gone(c) == c # current \/ c \in cut
Dead(c) == Gone(c) \/ c \in shut

-----------------------------------------------------------------------------
(* The Controller: send, then _handle and the link's two loops.            *)

Send ==
  /\ stop = "no" /\ sent < MaxFrames /\ sent' = sent + 1
  /\ queue' = IF Len(queue) < MaxQueue THEN Append(queue, sent') ELSE queue
  /\ UNCHANGED <<client, current, serving, linkVars, wire, cut, last, faults, stopVars>>

StartsRun(c) ==
  /\ serving' = [serving EXCEPT ![c] = "running"]
  /\ online' = TRUE /\ writer' = c

\* _handle on a new connection: the configured address of its peer, or else
\* its first frame, says whose link it is for.
Accept(c) ==
  IF Unknown
    THEN serving' = [serving EXCEPT ![c] = "identifying"] /\ UNCHANGED linkVars
    ELSE StartsRun(c)

\* The first frame names the sender and is handled before the link runs; it
\* is waited for 3 seconds, longer than a live Sender is ever silent.
Identify(c) ==
  /\ serving[c] = "identifying"
  /\ \/ StartsRun(c)
     \/ /\ Refuses
        /\ serving' = [serving EXCEPT ![c] = "leaked"]
        /\ UNCHANGED linkVars
     \/ /\ Gone(c)
        /\ serving' = [serving EXCEPT ![c] = "closed"]
        /\ UNCHANGED linkVars
  /\ UNCHANGED <<client, current, queue, wire, cut, countVars, stopVars>>

\* _tx_loop: a frame leaves the queue before it is written.
TransmitRequeues(c) ==
  /\ serving[c] = "running" /\ queue # <<>>
  /\ IF Dead(c)
       THEN queue' = Append(Tail(queue), Head(queue)) /\ UNCHANGED wire
       ELSE queue' = Tail(queue) /\ wire' = [wire EXCEPT ![c] = Append(@, Head(queue))]
  /\ UNCHANGED <<client, current, serving, linkVars, cut, countVars, stopVars>>
Transmit(c) ==
  /\ serving[c] = "running" /\ queue # <<>>
  /\ queue' = Tail(queue)
  /\ wire' = IF Dead(c) THEN wire ELSE [wire EXCEPT ![c] = Append(@, Head(queue))]
  /\ UNCHANGED <<client, current, serving, linkVars, cut, countVars, stopVars>>

\* run_connected's finally, in two steps: it sets online, waits for its tasks
\* and for the transport to close, and only then clears _writer.  A failed
\* write has cost its frame.
EndRunBoth(c) ==
  /\ serving[c] = "running" /\ Dead(c) /\ queue # <<>>
  /\ serving' = [serving EXCEPT ![c] = "cleaning"]
  /\ online' = FALSE /\ queue' = Tail(queue)
  /\ UNCHANGED <<client, current, writer, wire, cut, countVars, stopVars>>
EndRun(c) ==
  /\ serving[c] = "running" /\ Dead(c)
  /\ serving' = [serving EXCEPT ![c] = "cleaning"]
  /\ online' = FALSE
  /\ \/ UNCHANGED queue
     \/ queue # <<>> /\ queue' = Tail(queue)
  /\ UNCHANGED <<client, current, writer, wire, cut, countVars, stopVars>>
FinishRun(c) ==
  /\ serving[c] = "cleaning"
  /\ serving' = [serving EXCEPT ![c] = "closed"]
  /\ writer' = 0
  /\ UNCHANGED <<client, current, online, queue, wire, cut, countVars, stopVars>>

\* An exception that run_connected does not suppress leaves its finally at the
\* await, before the writer is closed; the transport may be reclaimed later.
HandlerRaises(c) ==
  /\ Refuses /\ serving[c] = "running"
  /\ serving' = [serving EXCEPT ![c] = "leaked"]
  /\ online' = FALSE
  /\ UNCHANGED <<client, current, writer, queue, wire, cut, countVars, stopVars>>
Reclaim(c) ==
  /\ serving[c] = "leaked"
  /\ serving' = [serving EXCEPT ![c] = "closed"]
  /\ UNCHANGED <<client, current, linkVars, queue, wire, cut, countVars, stopVars>>

\* The end of run: link.stop closes the connection in _writer and no other,
\* the other links take their time, and server.stop takes no more connections
\* and waits for those there are.
StopLink ==
  /\ Stops /\ stop = "no" /\ stop' = "links"
  /\ shut' = IF writer = 0 THEN {} ELSE {writer}
  /\ UNCHANGED <<client, current, serving, linkVars, queue, wire, cut, countVars>>
LinksStopped ==
  /\ stop = "links" /\ stop' = "server"
  /\ UNCHANGED <<client, current, serving, linkVars, queue, wire, cut, countVars, shut>>
ServerStopped ==
  /\ stop = "server" /\ stop' = "done"
  /\ \A c \in Conns : serving[c] = "closed"
  /\ UNCHANGED <<client, current, serving, linkVars, queue, wire, cut, countVars, shut>>

-----------------------------------------------------------------------------
(* The Sender: run_client and its link.                                    *)

Connect ==
  /\ client = "waiting" /\ client' = "connected"
  /\ stop \in {"no", "links"}
  /\ \E c \in Conns :
       /\ serving[c] = "closed"
       /\ current' = c
       /\ Accept(c)
       /\ wire' = [wire EXCEPT ![c] = <<>>]
       /\ cut' = cut \ {c} /\ shut' = shut \ {c}
  /\ UNCHANGED <<queue, countVars, stop>>

Receive ==
  /\ client = "connected" /\ current \notin cut /\ wire[current] # <<>>
  /\ wire' = [wire EXCEPT ![current] = Tail(@)]
  /\ last' = Head(wire[current])
  /\ client' = IF last' \in Refused THEN "ended" ELSE client
  /\ UNCHANGED <<current, serving, linkVars, queue, cut, sent, faults, stopVars>>

\* The connection ends: run_connected returns, and run_client waits to try
\* again.
Leaves ==
  /\ client' = "waiting" /\ current' = 0
  /\ UNCHANGED <<serving, linkVars, queue, wire, cut, sent, last, stopVars>>
Drop ==
  /\ client = "connected"
  /\ current \in cut \/ serving[current] = "closed"
  /\ Leaves /\ UNCHANGED faults

-----------------------------------------------------------------------------
(* The network and the Sender's service.                                   *)

\* The path breaks with neither end noticing.
Cut ==
  /\ client = "connected" /\ current \notin cut /\ faults < MaxFaults
  /\ cut' = cut \cup {current} /\ faults' = faults + 1
  /\ UNCHANGED <<client, current, serving, linkVars, queue, wire, sent, last, stopVars>>

\* The Sender restarts, in whatever state its client is.
Restart ==
  /\ client # "waiting" /\ faults < MaxFaults
  /\ faults' = faults + 1
  /\ Leaves

Next ==
  \/ Send \/ Connect \/ Receive \/ Drop \/ Cut \/ Restart
  \/ StopLink \/ LinksStopped \/ ServerStopped
  \/ \E c \in Conns :
       \/ Identify(c) \/ Transmit(c)
       \/ EndRun(c) \/ FinishRun(c)
       \/ HandlerRaises(c) \/ Reclaim(c)

TcpSpec == Init /\ [][Next]_tcpVars

\* Both event loops run; a dead connection is noticed in the end, because
\* heartbeats keep being written to it from both sides until the Controller
\* stops, and one that was closed ends.  Nothing obliges a leaked transport to
\* be reclaimed.
TcpFairness ==
  /\ WF_tcpVars(Connect) /\ WF_tcpVars(Receive) /\ WF_tcpVars(Drop)
  /\ WF_tcpVars(LinksStopped) /\ WF_tcpVars(ServerStopped)
  /\ \A c \in Conns :
       /\ WF_tcpVars(Identify(c)) /\ WF_tcpVars(Transmit(c))
       /\ WF_tcpVars((stop = "no" \/ c \in shut) /\ EndRun(c))
       /\ WF_tcpVars(FinishRun(c)) /\ WF_tcpVars(c \in shut /\ Reclaim(c))
FairTcpSpec == TcpSpec /\ TcpFairness

-----------------------------------------------------------------------------
(* Properties.                                                             *)

\* Types; the queue keeps its bound.
TcpTypeOK ==
  /\ client \in {"waiting", "connected", "ended"}
  /\ current \in Conns \cup {0} /\ (client = "connected" => current # 0)
  /\ serving \in
       [Conns -> {"closed", "identifying", "running", "cleaning", "leaked"}]
  /\ online \in BOOLEAN /\ writer \in Conns \cup {0}
  /\ Len(queue) <= MaxQueue
  /\ stop \in {"no", "links", "server", "done"} /\ shut \subseteq Conns

\* Frames reach the Sender in the order they were sent and never twice, over
\* however many connections and with two handlers draining one queue.
ArriveInOrder == [][last' # last => last' > last]_tcpVars

\* The link is shown online only while some handler serves it.
OnlineIsServed == online => \E c \in Conns : serving[c] = "running"

\* A Sender always comes back to a connection the Controller serves, for as
\* long as that is not stopped.
Reattached ==
  []<>(\/ stop # "no"
       \/ client = "connected" /\ current \notin cut /\ serving[current] = "running")

\* The Controller's shutdown ends once no connection is open but the one that
\* its link closed, in whatever state that is.
ClosedByStop == \A c \in Conns : serving[c] = "closed" \/ c \in shut
StopEnds == (stop = "server" /\ ClosedByStop) ~> (stop = "done")

\* "Trigger a clean shutdown": it ends.  It does not hold: a connection that the
\* link's _writer is not about is waited for for as long as its Sender lives.
StopAlwaysEnds == (stop = "server") ~> (stop = "done")

\* "A TCP client that maintains a connection to the Controller and reconnects
\* on drop".
Reconnects == []<>(client = "connected")

\* "A background client or accepted-server task owns connection lifetime": an
\* open connection has a task at the Controller.
ConnectionOwned == \A c \in Conns : serving[c] # "leaked"

\* "... and marks the link online/offline": a served connection is online and
\* is the one stop would close.
LinkTracksConnection ==
  client = "connected" /\ serving[current] = "running" =>
    online /\ writer = current

=============================================================================
