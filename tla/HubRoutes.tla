------------------------------ MODULE HubRoutes ------------------------------
(***************************************************************************)
(* The Teensy hub by itself (tools/teensy-hub/src/main.cpp, hub_store.cpp):*)
(* its table of learned routes with a fixed number of slots, the           *)
(* heartbeats it absorbs and names in its own, its discovery heartbeats,   *)
(* its answers to frames addressed to it and its table of peers.           *)
(*                                                                         *)
(* One step handles one decoded frame, as an iteration of pump_links does. *)
(* A step of the clock is HUB_HEARTBEAT_MS, which is also the period of    *)
(* the status line on the console; ages count such steps.                  *)
(***************************************************************************)
EXTENDS Naturals, FiniteSets

CONSTANTS
  Addrs,      \* addresses of nodes, without the hub's own
  Spokes,     \* HubLinkId
  Hub, All,   \* HUB_ADDR, ARC_ADDR_BROADCAST
  Nobody,     \* no address, no spoke
  Slots,      \* 1..HUB_LEARNED_ROUTE_MAX
  Peers,      \* HUB_PEER_MAX
  SeenMax,    \* HUB_HEARTBEAT_SEEN_MAX
  Timeout,    \* HUB_LEARNED_ROUTE_TIMEOUT_MS and HUB_PEER_TIMEOUT_MS
  Chatty,     \* the addresses that never fall silent
  Home,       \* Home[a]: the spoke a chatty address is on
  MaxOthers   \* bound: frames that the other addresses send

HubRoutesAssumption ==
  /\ Slots \subseteq Nat /\ IsFiniteSet(Slots) /\ IsFiniteSet(Addrs)
  /\ {Hub, All, Nobody} \cap Addrs = {} /\ Nobody \notin Spokes
  /\ Hub # All /\ Hub # Nobody /\ All # Nobody
  /\ Timeout \in Nat \ {0} /\ {Peers, SeenMax, MaxOthers} \subseteq Nat

VARIABLES
  learned,    \* g_learned: a route or Free in each slot
  seen,       \* g_heartbeat_seen
  peers,      \* g_peers: the age of each peer tracked
  hushed,     \* g_last_discovery_ms lies within HUB_DISCOVERY_THROTTLE_MS
  beatDue,    \* g_last_heartbeat_ms lies HUB_HEARTBEAT_MS back
  statusDue,  \* g_last_status_print_ms lies 5 seconds back
  input,      \* history: the frame just handled
  out,        \* history: what that step sent, pairs of spoke and frame
  heard,      \* history: the spoke each address was last heard on, and its age
  others

hubVars == <<learned, seen, peers, hushed, beatDue, statusDue, input, out, heard, others>>

Free == [addr |-> Nobody, link |-> Nobody, age |-> 0]
Frame(a, b, kind) == [src |-> a, dst |-> b, kind |-> kind, names |-> {}]
NoFrame == Frame(Nobody, Nobody, "none")

Init ==
  /\ learned = [s \in Slots |-> Free]
  /\ seen = {} /\ peers = [a \in {} |-> 0]
  /\ hushed \in BOOLEAN /\ beatDue = FALSE /\ statusDue = FALSE
  /\ input = NoFrame /\ out = {}
  /\ heard = [a \in Addrs |-> [link |-> Nobody, age |-> Timeout]]
  /\ others = 0

-----------------------------------------------------------------------------
(* The table of routes.                                                    *)

Active(r) == r.addr # Nobody /\ r.age < Timeout
SlotsOf(table, a) == {s \in DOMAIN table : table[s].addr = a}
First(ss) == CHOOSE s \in ss : \A r \in ss : s <= r

\* expire_learned
ExpireKeepsAll(table) == table
Expire(table) == [s \in Slots |-> IF Active(table[s]) THEN table[s] ELSE Free]

\* learn_source_route: the slot of the address, whatever its age, or else the
\* first free one, or else nothing.
LearnKeepsLink(table, a, x) ==
  LET mine == SlotsOf(table, a)
      free == SlotsOf(table, Nobody)
  IN IF mine # {} THEN [table EXCEPT ![First(mine)].age = 0]
     ELSE IF free # {}
     THEN [table EXCEPT ![First(free)] = [addr |-> a, link |-> x, age |-> 0]]
     ELSE table
Learn(table, a, x) ==
  LET mine == SlotsOf(table, a)
      free == SlotsOf(table, Nobody)
      use == IF mine # {} THEN mine ELSE free
  IN IF use = {} THEN table
     ELSE [table EXCEPT ![First(use)] = [addr |-> a, link |-> x, age |-> 0]]

\* route_for_dst on a table that was just expired.
RouteTo(table, a) ==
  IF SlotsOf(table, a) = {} THEN Nobody ELSE table[First(SlotsOf(table, a))].link

-----------------------------------------------------------------------------
(* Frames.                                                                 *)

\* note_peer: the peers are never dropped, so that a full table stays full.
NotePeer(a) ==
  IF a \in DOMAIN peers \/ Cardinality(DOMAIN peers) < Peers
  THEN [p \in DOMAIN peers \cup {a} |-> IF p = a THEN 0 ELSE peers[p]]
  ELSE peers

NoteSeen(a) ==
  IF Cardinality(seen) < SeenMax THEN seen \cup {a} ELSE seen

Discovery == {<<x, Frame(Hub, All, "beat")>> : x \in Spokes}

\* The end of route_frame: a frame to one address goes out on its route, or
\* else, unless it is hushed, the hub asks with a heartbeat.
Forward(table, f) ==
  LET routes == Expire(table)
      via == RouteTo(routes, f.dst)
  IN /\ learned' = routes
     /\ IF via # Nobody THEN out' = {<<via, f>>} /\ UNCHANGED hushed
        ELSE IF hushed THEN out' = {} /\ UNCHANGED hushed
        ELSE out' = Discovery /\ hushed' = TRUE

\* pump_links and route_frame for a frame a node sends to the hub, a peer or all
\* of them.  Of what is addressed to the hub arc_reliable_receive acknowledges the
\* reliable, through route_frame again: here a "ping", while "data" is what is
\* sent once, a status report or an ACK.  No node sends under the addresses that
\* learnable_addr excludes.
Get(f, x) ==
  /\ f.src \in Chatty \/ others < MaxOthers
  /\ others' = IF f.src \in Chatty THEN others ELSE others + 1
  /\ input' = f
  /\ heard' = [heard EXCEPT ![f.src] = [link |-> x, age |-> 0]]
  /\ peers' = NotePeer(f.src)
  /\ LET table == Learn(learned, f.src, x)
     IN \/ /\ f.dst = Hub /\ f.kind = "ping"
           /\ Forward(table, Frame(Hub, f.src, "ack"))
           /\ UNCHANGED seen
        \/ /\ f.dst = Hub /\ f.kind # "ping"
           /\ learned' = table /\ out' = {} /\ UNCHANGED <<hushed, seen>>
        \/ /\ f.dst # Hub /\ f.kind \in {"beat", "ping"}
           /\ seen' = NoteSeen(f.src)
           /\ learned' = table /\ out' = {} /\ UNCHANGED hushed
        \/ /\ f.dst = All /\ f.kind \notin {"beat", "ping"}
           /\ learned' = table /\ out' = {<<y, f>> : y \in Spokes \ {x}}
           /\ UNCHANGED <<hushed, seen>>
        \/ /\ f.dst \in Addrs /\ f.kind \notin {"beat", "ping"}
           /\ Forward(table, f)
           /\ UNCHANGED seen
  /\ UNCHANGED <<beatDue, statusDue>>

\* One of the hub's own frames comes back from a spoke: it is no peer's, teaches
\* no route and is not sent again.
Echo(f) ==
  /\ f.src = Hub
  /\ input' = f /\ out' = {}
  /\ UNCHANGED <<learned, seen, peers, hushed, beatDue, statusDue, heard, others>>

\* maybe_heartbeat
Heartbeat ==
  /\ beatDue /\ beatDue' = FALSE
  /\ out' = {<<x, [Frame(Hub, All, "beat") EXCEPT !.names = seen]>> : x \in Spokes}
  /\ seen' = {} /\ input' = NoFrame
  /\ UNCHANGED <<learned, peers, hushed, statusDue, heard, others>>

\* print_status every 5 seconds, which expires the table.
Status ==
  /\ statusDue /\ statusDue' = FALSE
  /\ learned' = Expire(learned) /\ input' = NoFrame /\ out' = {}
  /\ UNCHANGED <<seen, peers, hushed, beatDue, heard, others>>

-----------------------------------------------------------------------------
(* Time.                                                                   *)

Older(n) == IF n < Timeout THEN n + 1 ELSE n

\* One turn of loop comes to the heartbeat and the status line long before
\* either is due again.
Tick ==
  /\ ~beatDue /\ ~statusDue
  /\ beatDue' = TRUE /\ statusDue' = TRUE
  /\ learned' = [s \in Slots |->
       IF learned[s] = Free THEN Free ELSE [learned[s] EXCEPT !.age = Older(@)]]
  /\ peers' = [a \in DOMAIN peers |-> Older(peers[a])]
  /\ heard' = [a \in Addrs |-> [heard[a] EXCEPT !.age = Older(@)]]
  /\ input' = NoFrame /\ out' = {}
  /\ UNCHANGED <<seen, hushed, others>>

ThrottleEnds ==
  /\ hushed /\ hushed' = FALSE
  /\ input' = NoFrame /\ out' = {}
  /\ UNCHANGED <<learned, seen, peers, beatDue, statusDue, heard, others>>

Frames == [src : Addrs, dst : Addrs \cup {Hub, All}, kind : {"beat", "ping", "data"}, names : {{}}]

Next ==
  \/ \E f \in Frames, x \in Spokes :
       /\ f.src # f.dst /\ (f.kind = "beat" => f.dst = All) /\ (f.kind = "ping" => f.dst # All)
       /\ Get(f, x)
  \/ \E a \in Addrs : Echo(Frame(Hub, a, "ack"))
  \/ Echo(Frame(Hub, All, "beat"))
  \/ Heartbeat \/ Status \/ Tick \/ ThrottleEnds

HubSpec == Init /\ [][Next]_hubVars

\* loop turns for ever, the clock runs, and the chatty nodes go on with their
\* heartbeats, each on one spoke.
HubFairness ==
  /\ WF_hubVars(Heartbeat) /\ WF_hubVars(Status) /\ WF_hubVars(Tick)
  /\ \A a \in Chatty : WF_hubVars(Get(Frame(a, All, "beat"), Home[a]))
FairHubSpec == HubSpec /\ HubFairness

-----------------------------------------------------------------------------
(* Properties.                                                             *)

\* Types: slots hold addresses of nodes with a spoke, never the hub's own.
HubTypeOK ==
  /\ \A s \in Slots : learned[s] = Free \/
       learned[s] \in [addr : Addrs, link : Spokes, age : 0..Timeout]
  /\ seen \subseteq Addrs /\ Cardinality(seen) <= SeenMax
  /\ DOMAIN peers \subseteq Addrs /\ Cardinality(DOMAIN peers) <= Peers

\* No address holds two slots, however long it was silent: find_learned looks at
\* expired slots too, so that a node that comes back takes its old one.
OneSlotPerAddr == \A a \in Addrs : Cardinality(SlotsOf(learned, a)) <= 1

\* "any valid source address observed on a spoke becomes address -> spoke": with
\* a slot for each, a frame to an address heard within the timeout goes where it
\* was heard last, and nowhere else.
SentWhereHeard ==
  \A a \in Addrs :
    input.kind = "data" /\ input.dst = a /\ heard[a].age < Timeout =>
      out = {<<heard[a].link, input>>}

\* With fewer slots than nodes a route may be missing, but a frame never goes to
\* a spoke its destination has left.
NeverWrongSpoke ==
  \A o \in out : o[2].dst \in Addrs => o[1] = heard[o[2].dst].link

\* With a slot for each node, what is addressed to the hub and wants an answer is
\* answered on the spoke it came by, which the hub has to learn first.
AnsweredWhereAsked ==
  input.dst = Hub /\ input.kind = "ping" => out = {<<heard[input.src].link, Frame(Hub, input.src, "ack")>>}

\* The peers shown online are those a frame of which was handled within the
\* timeout, as long as there is room for every node.
OnlineIsHeard ==
  \A a \in Addrs : (a \in DOMAIN peers /\ peers[a] < Timeout) <=> heard[a].age < Timeout

\* All of these together; when nodes outnumber the slots, those that need a slot
\* are not asked for.
RoomForAll ==
  Cardinality(Addrs) <= Cardinality(DOMAIN learned) /\ Cardinality(Addrs) <= Peers
RoutesRight ==
  /\ OneSlotPerAddr /\ NeverWrongSpoke
  /\ RoomForAll => SentWhereHeard /\ AnsweredWhereAsked /\ OnlineIsHeard

\* A node that keeps sending gets a route again and again once the nodes that
\* fill the table fall silent: the status line frees their slots.
Admitted == \A a \in Chatty : []<>(SlotsOf(learned, a) # {})

\* "Routes by destination", and the ground station's "ping <addr|name>": a ping
\* addressed to a node the hub has a route for is sent there.
PingRouted ==
  \A a \in Addrs :
    input.kind = "ping" /\ input.dst = a /\ RouteTo(Expire(learned), a) # Nobody =>
      out = {<<RouteTo(Expire(learned), a), input>>}

=============================================================================
