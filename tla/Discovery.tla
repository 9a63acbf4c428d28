----------------------------- MODULE Discovery -----------------------------
(***************************************************************************)
(* How the Controller learns that a sender is there, who it is, and that   *)
(* it has gone: PeerHealth with its timeout, SenderLink's last_status,     *)
(* name and info_requested, and the GET_INFO / INFO_REPORT exchange with   *)
(* one sender address over a connection that may break.                    *)
(*                                                                         *)
(* Time counts in heartbeat intervals since the last frame of the sender   *)
(* and saturates at the timeout.  GET_INFO is sent unreliably, INFO_REPORT *)
(* reliably; both ends keep their queue over a broken connection.  Each    *)
(* end sends heartbeats to a peer that is away too, so its queue may be    *)
(* full.  The transmit loop of a new connection empties it in one go, as   *)
(* 100 frames are less than the transport takes before drain waits, and    *)
(* does so before the receive loop first runs.  The handler that clears    *)
(* info_requested when a query finds no route is left out: receive has     *)
(* just given the address the ingress link as its route.                   *)
(***************************************************************************)
EXTENDS Naturals, Sequences

CONSTANTS
  Units,     \* the names of the units that may be plugged in at this address
  Listed,    \* those whose IP controller.toml has for it
  None,      \* no name learned yet
  Timeout,   \* peer_timeout_s in heartbeat intervals
  MaxTries,  \* max_retries of the sender's ReliableEndpoint
  MaxQueue,  \* max_queue of a QueuedTcpLink; bound: frames on the wire
  MaxFaults  \* bound: broken connections

ASSUME DiscoveryAssumption ==
  /\ Units # {} /\ None \notin Units /\ Listed \subseteq Units
  /\ Timeout \in Nat \ {0} /\ MaxTries \in Nat
  /\ MaxQueue \in Nat /\ MaxFaults \in Nat

VARIABLES
  online,         \* _PeerState.online
  silent,         \* time since _PeerState.last_seen, up to Timeout
  hasStatus,      \* SenderLink.last_status is not None
  name,           \* SenderLink.name
  infoRequested,  \* SenderLink.info_requested
  queries,        \* history: GET_INFOs since the sender was last offline
  unit,           \* the unit at the address
  owed,           \* sends its ReliableEndpoint has left for an INFO_REPORT
  linked,         \* the connection is up
  up, down,       \* frames queued or on the wire in either direction
  faults          \* how many connections have broken

healthVars == <<online, silent, hasStatus>>
identityVars == <<name, infoRequested, queries>>
unitVars == <<unit, owed>>
discoveryVars ==
  <<healthVars, identityVars, unitVars, linked, up, down, faults>>

Frame(kind) == [kind |-> kind, from |-> unit]
DownKinds == {"GET_INFO", "ACK", "OTHER"}

\* QueuedTcpLink.send: dropped when the queue is full.  While there is a
\* connection its transmit loop has taken what was queued.
Put(q, frame) == IF linked \/ Len(q) < MaxQueue THEN Append(q, frame) ELSE q

Init ==
  /\ online = FALSE /\ silent = Timeout /\ hasStatus = FALSE
  /\ name = None /\ infoRequested = FALSE /\ queries = 0
  /\ unit \in Units /\ owed = 0
  /\ linked = FALSE /\ up = <<>> /\ down = <<>> /\ faults = 0

-----------------------------------------------------------------------------
(* The Controller.                                                         *)

\* receive: a sender without a name is asked for it, once until it goes
\* offline; any frame keeps it online; then the frame is handled.
AsksAlways == name = None
Asks == name = None /\ ~infoRequested

Handle ==
  /\ up # <<>>
  /\ up' = Tail(up)
  /\ infoRequested' = (infoRequested \/ Asks)
  /\ queries' = IF Asks THEN queries + 1 ELSE queries
  /\ online' = TRUE /\ silent' = 0
  /\ hasStatus' = (hasStatus \/ Head(up).kind = "STATUS_REPORT")
  /\ name' = IF Head(up).kind = "INFO_REPORT" THEN Head(up).from ELSE name
  /\ down' = LET asked == IF Asks THEN Put(down, "GET_INFO") ELSE down
             IN  IF Head(up).kind = "INFO_REPORT" THEN Put(asked, "ACK") ELSE asked
  /\ UNCHANGED <<unitVars, faults>>

\* The receive loop of the connection.
Receive ==
  /\ linked /\ Len(down) < MaxQueue
  /\ Handle
  /\ UNCHANGED linked

\* TcpServer._handle: a connection from an IP that controller.toml does not have
\* is known by its first frame, which is handled before the transmit loop runs.
FirstFrame ==
  /\ ~linked /\ unit \notin Listed
  /\ Handle
  /\ linked' = TRUE

\* Heartbeats and other frames for a peer that is away.  A link exists from the
\* start for an address in controller.toml, else from the first connection on.
QueueOther ==
  /\ ~linked /\ Len(down) < MaxQueue
  /\ Listed # {} \/ faults > 0
  /\ down' = Append(down, "OTHER")
  /\ UNCHANGED <<healthVars, identityVars, unitVars, linked, up, faults>>

\* tick: offline_peers, and mark_offline for a sender that just went silent.
TickForgetsLink ==
  /\ online /\ silent = Timeout
  /\ online' = FALSE
  /\ queries' = 0
  /\ UNCHANGED <<silent, hasStatus, name, infoRequested, unitVars, linked, up,
                 down, faults>>
TickWithStatus ==
  /\ online /\ hasStatus /\ silent = Timeout
  /\ online' = FALSE /\ hasStatus' = FALSE /\ infoRequested' = FALSE
  /\ queries' = 0
  /\ UNCHANGED <<silent, name, unitVars, linked, up, down, faults>>
Tick ==
  /\ online /\ silent = Timeout
  /\ online' = FALSE /\ hasStatus' = FALSE /\ infoRequested' = FALSE
  /\ queries' = 0
  /\ UNCHANGED <<silent, name, unitVars, linked, up, down, faults>>

Pass ==
  /\ silent < Timeout
  /\ silent' = silent + 1
  /\ UNCHANGED <<online, hasStatus, identityVars, unitVars, linked, up, down,
                 faults>>

-----------------------------------------------------------------------------
(* The sender.                                                             *)

\* Heartbeat.tick and _status_loop, whether or not there is a connection.
Emit ==
  /\ Len(up) < MaxQueue
  /\ \E kind \in {"HEARTBEAT", "STATUS_REPORT"} : up' = Append(up, Frame(kind))
  /\ UNCHANGED <<healthVars, identityVars, unitVars, linked, down, faults>>

\* GET_INFO is answered with report_info; an acknowledgement closes it; other
\* frames are nothing to it.
Answer ==
  /\ linked /\ down # <<>> /\ Head(down) = "GET_INFO"
  /\ down' = Tail(down)
  /\ up' = Append(up, Frame("INFO_REPORT"))
  /\ owed' = MaxTries
  /\ UNCHANGED <<healthVars, identityVars, unit, linked, faults>>
Take ==
  /\ linked /\ down # <<>> /\ Head(down) \in {"ACK", "OTHER"}
  /\ down' = Tail(down)
  /\ owed' = IF Head(down) = "ACK" THEN 0 ELSE owed
  /\ UNCHANGED <<healthVars, identityVars, unit, linked, up, faults>>

\* ReliableEndpoint.tick: the report goes out again, or has no retry left.
Retry ==
  /\ owed > 0
  /\ owed' = owed - 1
  /\ up' = Put(up, Frame("INFO_REPORT"))
  /\ UNCHANGED <<healthVars, identityVars, unit, linked, down, faults>>

-----------------------------------------------------------------------------
(* The connection and the unit behind it.                                  *)

Break ==
  /\ linked /\ faults < MaxFaults
  /\ linked' = FALSE /\ faults' = faults + 1
  /\ UNCHANGED <<healthVars, identityVars, unitVars, up, down>>

\* A frame the dead connection had already taken is lost.
Swallow ==
  /\ ~linked
  /\ \/ up # <<>> /\ up' = Tail(up) /\ UNCHANGED down
     \/ down # <<>> /\ down' = Tail(down) /\ UNCHANGED up
  /\ UNCHANGED <<healthVars, identityVars, unitVars, linked, faults>>

\* A connection from an IP that controller.toml has.
Relink ==
  /\ ~linked /\ unit \in Listed
  /\ linked' = TRUE
  /\ UNCHANGED <<healthVars, identityVars, unitVars, up, down, faults>>

\* Another unit is plugged in at the address; its queue starts empty.
Swap ==
  /\ ~linked
  /\ unit' \in Units \ {unit}
  /\ owed' = 0 /\ up' = <<>>
  /\ UNCHANGED <<healthVars, identityVars, linked, down, faults>>

Next ==
  \/ Receive \/ FirstFrame \/ QueueOther \/ Tick \/ Pass
  \/ Emit \/ Answer \/ Take \/ Retry
  \/ Break \/ Swallow \/ Relink \/ Swap

Spec == Init /\ [][Next]_discoveryVars

\* Both event loops and the sender's heartbeat run for ever.  Nothing obliges
\* a connection to break, or a unit to be plugged in and connect again.
DiscoveryFairness ==
  /\ WF_discoveryVars(Receive) /\ WF_discoveryVars(Tick) /\ WF_discoveryVars(Pass)
  /\ WF_discoveryVars(Emit) /\ WF_discoveryVars(Answer) /\ WF_discoveryVars(Take)
FairSpec == Spec /\ DiscoveryFairness

-----------------------------------------------------------------------------
(* Properties.                                                             *)

\* Types; a status is kept and a query counts as asked only while the sender
\* is online, so an offline sender reports no vitals and can be asked again.
DiscoveryTypeOK ==
  /\ silent \in 0..Timeout /\ online \in BOOLEAN /\ linked \in BOOLEAN
  /\ name \in Units \cup {None} /\ unit \in Units
  /\ owed \in 0..MaxTries /\ faults \in 0..MaxFaults
  /\ \A i \in DOMAIN down : down[i] \in DownKinds
  /\ hasStatus => online
  /\ infoRequested => online

\* "``info_requested`` gates re-sending the request so discovery only costs
\* one query per online session", however often the connection breaks.
OneQueryPerSession == queries <= 1

\* A sender that stays unreachable is taken offline.
UnreachableGoesOffline == <>[]~linked => <>[]~online

\* A nameless sender that was taken offline is identified once it is heard again
\* over its connection, unless that breaks.
Rediscovered == (~online /\ name = None) ~> (name # None \/ ~linked)

\* "a lost query is simply re-asked on the next frame": a sender that stays
\* connected is identified.
Identified == <>[]linked => <>(name # None)

\* "a swapped-in unit at the same address gets a fresh GET_INFO and can report
\* a new name": once it stays connected, the name is that of the unit.
NameIsCurrent == <>[]linked => <>[](name = unit)

=============================================================================
