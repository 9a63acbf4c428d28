-------------------------------- MODULE Mesh --------------------------------
(***************************************************************************)
(* Routing across the whole rocket: the Controller and the Senders, each a *)
(* Node with a LearnedRouter (arc/learned_router.py, arc/node.py), and the *)
(* Teensy hub (tools/teensy-hub/src/main.cpp), whose table is taken to     *)
(* have room (HubRoutes models it when it has not).  Leaves, the flight    *)
(* computers and the ground, only send and consume.                        *)
(*                                                                         *)
(* A link is named after the node at its other end.  Frames carry where    *)
(* they come from and go to, whether they are heartbeats, and, as history, *)
(* the nodes they have passed.  Ages count in steps of the clock since an  *)
(* address was last heard; a heartbeat may stay on a link for any time.    *)
(***************************************************************************)
EXTENDS Naturals, Sequences, FiniteSets

CONSTANTS
  Hub, Controller, Senders,
  Leaves,
  Mover,      \* a leaf that may be plugged in elsewhere
  Places,     \* the nodes it may be plugged into
  Paired,     \* the one of them that is configured for it, its paired_fc
  Trunk,      \* the links of all other nodes, as pairs in both directions
  Static,     \* Static[n][a]: the link of routes or default_route, or None
  None, All,  \* All is ADDR_BROADCAST
  Ttl,        \* Ttl[n]: learned_ttl_s or HUB_LEARNED_ROUTE_TIMEOUT_MS
  Beaters,    \* the nodes whose heartbeats are modelled
  Talks,      \* pairs of leaves: who sends frames to whom
  MaxTalk,    \* bound: such frames
  MaxBeats,   \* bound: copies of a node's heartbeats in flight when it sends another
  MaxMoves    \* bound: times the mover is moved

Routers == {Controller} \cup Senders
Learners == Routers \cup {Hub}
Nodes == Learners \cup Leaves
MaxAge == Ttl[Hub] + 1
Links == Trunk \cup {<<Mover, p>> : p \in Places} \cup {<<p, Mover>> : p \in Places}

\* As configured the links form a tree and the static routes lead along it:
\* Side(x, n) is what x can reach without its link to n.
Wired == Trunk \cup {<<Mover, Paired>>, <<Paired, Mover>>}
Side(x, n) ==
  {m \in Nodes : \A S \in SUBSET Nodes :
     /\ x \in S
     /\ \A p \in S, q \in Nodes : <<p, q>> \in Wired /\ {p, q} # {x, n} => q \in S
     => m \in S}

MeshAssumption ==
  /\ Wired \subseteq Nodes \X Nodes
  /\ \A l \in Wired : <<l[2], l[1]>> \in Wired /\ l[2] \notin Side(l[1], l[2])
  /\ Paired \in Places /\ Places \subseteq Nodes \ {Mover}
  /\ Mover \in Leaves /\ \A l \in Trunk : Mover \notin {l[1], l[2]}
  /\ Hub \notin Routers /\ Leaves \cap Learners = {}
  /\ \A a \in Leaves, m, n \in Nodes : {<<a, m>>, <<a, n>>} \subseteq Wired => m = n
  /\ \A n \in Routers : \A a \in Nodes \ {n} :
       <<n, Static[n][a]>> \in Wired => a \in Side(Static[n][a], n)
  /\ All \notin Nodes /\ Beaters \subseteq Nodes
  /\ Talks \subseteq Leaves \X Nodes /\ \A t \in Talks : t[1] # t[2]

VARIABLES
  at,      \* where the mover is plugged in
  heard,   \* LearnedRouter.learned, g_learned
  wire,    \* frames on each link
  raised,  \* the routers where a frame had no route: RouteError
  talked, moved

meshVars == <<at, heard, wire, raised, talked, moved>>

Frame(a, b, beat) == [src |-> a, dst |-> b, beat |-> beat, trail |-> {a}]

\* Nodes and links may have no one at the other end.
Plugged(x, y) ==
  /\ x = Mover => y = at
  /\ y = Mover => x = at
LinksOf(n) == {m \in Nodes : <<n, m>> \in Links}

\* Frame f leaves x on its links to ys.
Sent(w, x, ys, f) ==
  [l \in Links |->
     IF l[1] = x /\ l[2] \in ys /\ Plugged(x, l[2])
     THEN Append(w[l], [f EXCEPT !.trail = @ \cup {x}])
     ELSE w[l]]

Init ==
  /\ at \in Places
  /\ heard = [n \in Learners |-> [a \in Nodes |-> None]]
  /\ wire = [l \in Links |-> <<>>]
  /\ raised = {} /\ talked = 0 /\ moved = 0

-----------------------------------------------------------------------------
(* The tables.  The static route of a sender is the link it connects over, *)
(* which ensure_sender keeps so.                                           *)

\* LearnedRouter._learn, learn_source_route; a node does not learn itself.
LearnOnce(n, f, x) ==
  IF f.src = n \/ heard[n][f.src] # None
  THEN heard ELSE [heard EXCEPT ![n][f.src] = [via |-> x, age |-> 0]]
Learn(n, f, x) ==
  IF f.src = n
  THEN heard ELSE [heard EXCEPT ![n][f.src] = [via |-> x, age |-> 0]]

\* LearnedRouter._link_name_for: a learned route within its time, or else the
\* static one, the expired entry deleted.
Fresh(n, a) == heard[n][a] # None /\ heard[n][a].age <= Ttl[n]
LinkNameStaticFirst(n, a) ==
  IF Static[n][a] # None THEN Static[n][a]
  ELSE IF Fresh(n, a) THEN heard[n][a].via ELSE None
LinkName(n, a) == IF Fresh(n, a) THEN heard[n][a].via ELSE Static[n][a]
Deleted(h, n, a) ==
  IF a \in Nodes /\ h[n][a] # None /\ h[n][a].age > Ttl[n] THEN [h EXCEPT ![n][a] = None] ELSE h

-----------------------------------------------------------------------------
(* A frame at the head of a link arrives.                                  *)

\* LearnedRouter.route at a Controller or a Sender.
RouterGets(n, x, f, w) ==
  /\ heard' = Deleted(Learn(n, f, x), n, f.dst)
  /\ \/ f.dst = n /\ wire' = w /\ UNCHANGED raised
     \/ f.dst = All /\ wire' = Sent(w, n, LinksOf(n) \ {x}, f) /\ UNCHANGED raised
     \/ /\ f.dst \notin {n, All} /\ LinkName(n, f.dst) # None
        /\ wire' = Sent(w, n, {LinkName(n, f.dst)}, f)
        /\ UNCHANGED raised
     \/ /\ f.dst \notin {n, All} /\ LinkName(n, f.dst) = None
        /\ wire' = w /\ raised' = raised \cup {n}

\* route_frame at the hub: its own frames are absorbed, heartbeats kept for the
\* next of its own, so nothing is broadcast on; the rest goes where its
\* destination was heard, and if it was not the hub sends a heartbeat of its
\* own, unless it did so a moment ago.  Looking a route up expires the table.
Active(r) == r # None /\ r.age < Ttl[Hub]
Expired(routes) == [a \in Nodes |-> IF Active(routes[a]) THEN routes[a] ELSE None]

HubForwardsBeats(x, f, w) ==
  /\ heard' = Learn(Hub, f, x)
  /\ wire' = IF f.src # Hub /\ f.dst = All THEN Sent(w, Hub, LinksOf(Hub), f) ELSE w
  /\ UNCHANGED raised
HubGets(x, f, w) ==
  /\ UNCHANGED raised
  /\ LET learned == Learn(Hub, f, x)
         absorbed == f.src = Hub \/ f.dst = Hub \/ f.beat
         routes == Expired(learned[Hub])
     IN \/ absorbed /\ heard' = learned /\ wire' = w
        \/ /\ ~absorbed
           /\ heard' = [learned EXCEPT ![Hub] = routes]
           /\ IF routes[f.dst] # None
              THEN wire' = Sent(w, Hub, {routes[f.dst].via}, f)
              ELSE wire' \in {w, Sent(w, Hub, LinksOf(Hub), Frame(Hub, All, TRUE))}

Arrive(x, n) ==
  /\ wire[<<x, n>>] # <<>>
  /\ LET f == Head(wire[<<x, n>>])
         w == [wire EXCEPT ![<<x, n>>] = Tail(@)]
     IN IF n \in Leaves THEN wire' = w /\ UNCHANGED <<heard, raised>>
        ELSE IF n = Hub THEN HubGets(x, f, w)
        ELSE RouterGets(n, x, f, w)
  /\ UNCHANGED <<at, talked, moved>>

-----------------------------------------------------------------------------
(* What the nodes send, time and moves.                                    *)

Beating(a) ==
  UNION {{l} \X {i \in DOMAIN wire[l] : wire[l][i].beat /\ wire[l][i].src = a} : l \in Links}

\* Heartbeat.tick, maybe_heartbeat: a broadcast on every link.
Beat(a) ==
  /\ Cardinality(Beating(a)) < MaxBeats
  /\ wire' = Sent(wire, a, LinksOf(a), Frame(a, All, TRUE))
  /\ UNCHANGED <<at, heard, raised, talked, moved>>

\* A leaf sends a frame to another on its only link.
Talk(a, b) ==
  /\ talked < MaxTalk /\ talked' = talked + 1
  /\ wire' = Sent(wire, a, LinksOf(a), Frame(a, b, FALSE))
  /\ UNCHANGED <<at, heard, raised, moved>>

\* A step is seconds long, so that an addressed frame arrives within one; a
\* heartbeat may be late.
Pass ==
  /\ \A l \in Links : \A i \in DOMAIN wire[l] : wire[l][i].beat
  /\ heard' = [n \in Learners |-> [a \in Nodes |->
       IF heard[n][a] = None \/ heard[n][a].age = MaxAge THEN heard[n][a]
       ELSE [heard[n][a] EXCEPT !.age = @ + 1]]]
  /\ UNCHANGED <<at, wire, raised, talked, moved>>

\* What the mover had on its links is lost.
Move ==
  /\ moved < MaxMoves /\ moved' = moved + 1
  /\ at' \in Places \ {at}
  /\ wire' = [l \in Links |-> IF Mover \in {l[1], l[2]} THEN <<>> ELSE wire[l]]
  /\ UNCHANGED <<heard, raised, talked>>

Next ==
  \/ \E l \in Links : Arrive(l[1], l[2])
  \/ \E a \in Beaters : Beat(a)
  \/ \E t \in Talks : Talk(t[1], t[2])
  \/ Pass \/ Move

MeshSpec == Init /\ [][Next]_meshVars

\* Every link delivers and the leaves keep sending heartbeats; clocks may run
\* as they like and nobody need be moved.
MeshFairness ==
  /\ \A l \in Links : WF_meshVars(Arrive(l[1], l[2]))
  /\ \A a \in Beaters : WF_meshVars(Beat(a))
FairMeshSpec == MeshSpec /\ MeshFairness

-----------------------------------------------------------------------------
(* Properties.                                                             *)

\* Types: what is learned names a link, and every frame on a link was sent by
\* the node at its near end.
MeshTypeOK ==
  /\ \A n \in Learners, a \in Nodes :
       heard[n][a] # None =>
         heard[n][a].via \in LinksOf(n) /\ heard[n][a].age \in 0..MaxAge
  /\ \A l \in Links : \A i \in DOMAIN wire[l] : l[1] \in wire[l][i].trail
  /\ raised \subseteq Routers

\* No frame, broadcast or addressed, comes back to a node that has forwarded
\* it: there is no hop limit that would stop it.
NoRevisit ==
  \A l \in Links : l[2] \in Learners =>
    \A i \in DOMAIN wire[l] : l[2] \notin wire[l][i].trail

\* While the mover has always been where it is configured to be, that is so.  (A
\* sender that learned the mover and forgets it sends frames for it back to the
\* Controller, its default route.)
PairedNoRevisit == moved = 0 /\ at = Paired => NoRevisit

\* A flight computer moved to another sender is found there by the Controller
\* in the end, whatever stale frames of it arrive late.
MoverFound ==
  <>[](heard[Controller][Mover] # None /\ heard[Controller][Mover].via = at)

\* Even while tables disagree after a move, no addressed frame goes round for
\* ever as long as the destination keeps sending heartbeats.
TalkEnds ==
  []<>(\A l \in Links : \A i \in DOMAIN wire[l] : wire[l][i].beat)

\* "live traffic now learns source routes the same way the Teensy hub does":
\* a frame the hub has a route for is one the Controller has a route for.
NeverUnroutable == raised = {}

=============================================================================
