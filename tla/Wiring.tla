------------------------------- MODULE Wiring -------------------------------
(***************************************************************************)
(* How the Controller ties addresses, routes, links and TCP connections    *)
(* together: what load_controller_config lets through (arc/config.py), the *)
(* tables that run builds from it and from first frames                    *)
(* (arc/controller_main.py), the link TcpServer gives a connection         *)
(* (arc/runtime.py), and the routes that frames teach (Controller.receive, *)
(* LearnedRouter).                                                         *)
(*                                                                         *)
(* A link is named by its route: there is one QueuedTcpLink per route.  A  *)
(* unit is a process at the far end of a connection, a Sender or a HITL    *)
(* bridge, and has the name of its address.                                *)
(***************************************************************************)
EXTENDS Sequences, FiniteSets, SequencesExt

CONSTANTS
  Units, Others,  \* addresses of units, and of what sits behind them
  SenderAddrs,    \* is_sender_addr
  Host,           \* Host[u]: the IP address of a unit
  Relays,         \* Relays[u]: the addresses whose frames a unit forwards
  SafeName,       \* what _hitl_route_name makes of a peer's name
  Static,         \* controller_routes(), external: routes of Others
  Configs,        \* the configurations to be loaded
  None

\* Each of Others is behind one unit at most, and only Senders forward frames;
\* Static names serial links.
WiringAssumption ==
  /\ SenderAddrs \subseteq Units \cup Others /\ Units \cap Others = {}
  /\ Relays \in [Units -> SUBSET Others]
  /\ \A u, v \in Units : u # v => Relays[u] \cap Relays[v] = {}
  /\ \A u \in Units : Relays[u] # {} => u \in SenderAddrs
  /\ DOMAIN Static \subseteq Others
  /\ \A a \in DOMAIN Static : Static[a][1] \notin {"sender", "hitl", "first frame"}
  /\ None # <<"first frame">>
  /\ \A c \in Configs : \A list \in {c.senders, c.peers} : list \in Seq(Range(list))

VARIABLES
  cfg,      \* senders: entries of addr and ip; peers: of addr, name and ip
  phase,    \* run: "loaded", "running", or "failed" before it listens
  routes,   \* node.router.routes
  linkOf,   \* tcp_links_by_addr
  byIp,     \* ip_to_link
  conn,     \* what _handle does with each unit's connection: None, Waits for
            \* the first frame, or the link it runs
  learned,  \* node.router.learned
  queue,    \* destinations of the frames queued on each link
  spoke     \* history: units heard over the connection they have

tableVars == <<routes, linkOf>>
wiringVars == <<cfg, phase, tableVars, byIp, conn, learned, queue, spoke>>

Addrs == Units \cup Others
Entries(s) == Range(s)

-----------------------------------------------------------------------------
(* Building the tables: later entries replace earlier ones, peers senders. *)

Waits == <<"first frame">>
SenderRoute(a) == <<"sender", a>>
HitlRoute(name) == <<"hitl", SafeName[name]>>
Put(table, key, value) == [k \in DOMAIN table \cup {key} |-> IF k = key THEN value ELSE table[k]]
Updated(table, new) ==
  [k \in DOMAIN table \cup DOMAIN new |-> IF k \in DOMAIN new THEN new[k] ELSE table[k]]
EmptyTable == [k \in {} |-> None]

PeersAt(a) == {i \in DOMAIN cfg.peers : cfg.peers[i].addr = a}
PeerRoutes ==
  [a \in {p.addr : p \in Entries(cfg.peers)} |-> HitlRoute(cfg.peers[Max(PeersAt(a))].name)]
SenderRoutes == [a \in {s.addr : s \in Entries(cfg.senders)} |-> SenderRoute(a)]

\* The last entry of a list for a host.
Hosted(list, ip) == list[Max({i \in DOMAIN list : list[i].ip = ip})]
PeersByIp ==
  [ip \in {p.ip : p \in Entries(cfg.peers)} \ {None} |-> PeerRoutes[Hosted(cfg.peers, ip).addr]]
SendersByIp ==
  [ip \in {s.ip : s \in Entries(cfg.senders)} |-> SenderRoute(Hosted(cfg.senders, ip).addr)]

\* Any integer is taken for the id of a sender; one that is not a sender's has
\* no link for ip_to_link.
SendersLinked == \A s \in Entries(cfg.senders) : s.addr \in SenderAddrs

Init ==
  /\ cfg \in Configs /\ phase = "loaded"
  /\ routes = Static /\ linkOf = EmptyTable /\ byIp = EmptyTable
  /\ conn = [u \in Units |-> None]
  /\ learned = [a \in Addrs |-> None]
  /\ queue = {} /\ spoke = {}

Start ==
  /\ phase = "loaded"
  /\ IF ~SendersLinked
       THEN phase' = "failed" /\ UNCHANGED <<tableVars, byIp>>
       ELSE
         /\ phase' = "running"
         /\ linkOf' = Updated(SenderRoutes, PeerRoutes)
         /\ routes' = Updated(Static, linkOf')
         /\ byIp' = Updated(SendersByIp, PeersByIp)
  /\ UNCHANGED <<cfg, conn, learned, queue, spoke>>

-----------------------------------------------------------------------------
(* Connections and the frames they bring.                                  *)

ConnectByFrame(u) ==
  /\ phase = "running" /\ conn[u] = None
  /\ conn' = [conn EXCEPT ![u] = Waits]
  /\ spoke' = spoke \ {u}
  /\ UNCHANGED <<cfg, phase, tableVars, byIp, learned, queue>>
Connect(u) ==
  /\ phase = "running" /\ conn[u] = None
  /\ conn' = [conn EXCEPT ![u] =
       IF Host[u] \in DOMAIN byIp THEN byIp[Host[u]] ELSE Waits]
  /\ spoke' = spoke \ {u}
  /\ UNCHANGED <<cfg, phase, tableVars, byIp, learned, queue>>
Drop(u) ==
  /\ conn[u] # None
  /\ conn' = [conn EXCEPT ![u] = None] /\ spoke' = spoke \ {u}
  /\ UNCHANGED <<cfg, phase, tableVars, byIp, learned, queue>>

\* Controller.receive of a frame from a over u's connection, on link l: a sender
\* gets the link for its route (ensure_sender), anyone is learned.
HearsOnly(u, a, l, table) ==
  /\ routes' = table
  /\ learned' = [learned EXCEPT ![a] = l]
  /\ spoke' = IF a = u THEN spoke \cup {u} ELSE spoke
Hears(u, a, l, table) ==
  /\ routes' = IF a \in SenderAddrs THEN Put(table, a, l) ELSE table
  /\ learned' = [learned EXCEPT ![a] = l]
  /\ spoke' = IF a = u THEN spoke \cup {u} ELSE spoke

Speakers(u) == {u} \cup Relays[u]

\* link_for_frame: the first frame of a connection names it by its source, a
\* sender's also if nobody listed it, and is handled; the source may be
\* somebody whose frame the unit relays, and the connection is closed.
FirstFrame(u, a) ==
  /\ conn[u] = Waits /\ a \in Speakers(u)
  /\ \/ /\ a \in DOMAIN linkOf
        /\ conn' = [conn EXCEPT ![u] = linkOf[a]]
        /\ Hears(u, a, linkOf[a], routes)
        /\ UNCHANGED linkOf
     \/ /\ a \notin DOMAIN linkOf /\ a \in SenderAddrs
        /\ conn' = [conn EXCEPT ![u] = SenderRoute(a)]
        /\ linkOf' = Put(linkOf, a, SenderRoute(a))
        /\ Hears(u, a, SenderRoute(a), routes)
     \/ /\ a \notin DOMAIN linkOf /\ a \notin SenderAddrs
        /\ conn' = [conn EXCEPT ![u] = None]
        /\ UNCHANGED <<tableVars, learned, spoke>>
  /\ UNCHANGED <<cfg, phase, byIp, queue>>

Frame(u, a) ==
  /\ conn[u] \notin {None, Waits} /\ a \in Speakers(u)
  /\ Hears(u, a, conn[u], routes)
  /\ UNCHANGED <<cfg, phase, linkOf, byIp, conn, queue>>

\* learned_ttl_s without a frame from a.
Forget(a) ==
  /\ learned[a] # None /\ learned' = [learned EXCEPT ![a] = None]
  /\ UNCHANGED <<cfg, phase, tableVars, byIp, conn, queue, spoke>>

-----------------------------------------------------------------------------
(* Frames for the units.                                                   *)

\* _link_name_for
LinkFor(a) ==
  IF learned[a] # None THEN learned[a]
  ELSE IF a \in DOMAIN routes THEN routes[a] ELSE None

Send(a) ==
  /\ phase = "running" /\ LinkFor(a) # None
  /\ queue' = queue \cup {<<LinkFor(a), a>>}
  /\ UNCHANGED <<cfg, phase, tableVars, byIp, conn, learned, spoke>>
Take(u, a) ==
  /\ <<conn[u], a>> \in queue /\ queue' = queue \ {<<conn[u], a>>}
  /\ UNCHANGED <<cfg, phase, tableVars, byIp, conn, learned, spoke>>

Next ==
  \/ Start
  \/ \E u \in Units : Connect(u) \/ Drop(u)
  \/ \E u \in Units, a \in Addrs : FirstFrame(u, a) \/ Frame(u, a) \/ Take(u, a)
  \/ \E a \in Addrs : Forget(a) \/ Send(a)

WiringSpec == Init /\ [][Next]_wiringVars

\* The process starts; units connect again and again and say something before
\* the connection breaks, often enough.
WiringFairness ==
  /\ WF_wiringVars(Start)
  /\ \A u \in Units :
       WF_wiringVars(Connect(u)) /\ SF_wiringVars(\E a \in Addrs : FirstFrame(u, a))
FairWiringSpec == WiringSpec /\ WiringFairness

-----------------------------------------------------------------------------
(* Properties.                                                             *)

\* Nothing is listed twice, under names that become one or at the wrong host.
Sound ==
  LET all == cfg.senders \o cfg.peers
  IN  /\ \A i, j \in DOMAIN all :
           i # j => /\ all[i].addr # all[j].addr
                    /\ all[i].ip # None => all[i].ip # all[j].ip
      /\ \A p, q \in Entries(cfg.peers) : p # q => SafeName[p.name] # SafeName[q.name]
      /\ \A e \in Entries(all), u \in Units : e.ip = Host[u] => e.addr = u

\* "The Pi will know which link to use for replies": whoever was heard over the
\* connection it has is answered on the link of that connection, listed or not,
\* also when the learned route has gone.
RepliesFollow ==
  Sound => \A u \in spoke : LinkFor(u) = conn[u]

\* With a sound configuration a connection gets only the frames of its unit and
\* of those behind it, however units come, go and are discovered: no two units
\* share a link.
OwnFramesOnly ==
  Sound => \A u \in Units, q \in queue : q[1] = conn[u] => q[2] \in Speakers(u)

\* No two units ever share a link, and each is answered on its own.
LinksRight == RepliesFollow /\ OwnFramesOnly

\* Whoever is at a listed host gets a link again and again, and so does every
\* sender and listed peer that speaks for nobody else.
GetsLinked ==
  Sound =>
    \A u \in Units :
      \/ Host[u] \in {e.ip : e \in Entries(cfg.senders \o cfg.peers)}
      \/ Relays[u] = {}
           /\ u \in SenderAddrs \cup {e.addr : e \in Entries(cfg.peers)}
      => (<>(phase = "failed") \/ []<>(conn[u] \notin {None, Waits}))

\* "A node can announce itself with a heartbeat/status frame first ... even if it
\* was not listed": so does every sender.  It does not hold: as long as the
\* first frame of each connection is one it relays, the connection is closed.
UnlistedGetsLinked ==
  Sound => \A u \in Units \cap SenderAddrs :
             <>(phase = "failed") \/ []<>(conn[u] \notin {None, Waits})

\* A configuration that loads starts.  It does not hold for a sender's id that
\* is no sender's address.
LoadedStarts == phase # "failed"

=============================================================================
