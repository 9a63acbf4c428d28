------------------------------ MODULE MCRouting ------------------------------
(* How frames find their way, for TLC, one part at a time:                   *)
(*   mesh    ground G, hub H, Controller C, Senders S1 and S2 and a flight   *)
(*           computer F that is moved from one to the other (Mesh)           *)
(*   room    the hub's own tables (HubRoutes) with a slot for each address   *)
(*   scarce  the hub's tables with one slot for two addresses                *)
(* The variables of the parts that do not run stay as they are.              *)
EXTENDS Routing

CONSTANTS
  G, H, C, S1, S2, F,
  A, B, X, Y             \* two addresses and two spokes of the hub

VARIABLE part

hubVars == <<learned, seen, peers, hushed, beatDue, statusDue, input, out, met, others>>
routingVars == <<part, meshVars, hubVars>>

Scarce == INSTANCE HubRoutes WITH
  Slots <- {1}, Peers <- 3, SeenMax <- 3, Chatty <- {A}, MaxOthers <- 2, heard <- met

ASSUME RoutingAssumed ==
  /\ MeshAssumption
  /\ Table!HubRoutesAssumption /\ Scarce!HubRoutesAssumption
  /\ Cardinality(Addrs) <= Cardinality(Slots) /\ Cardinality(Addrs) <= Peers

RoutingInit ==
  /\ part \in {"mesh", "room", "scarce"}
  /\ Init /\ (part # "mesh" => at = S1)
  /\ IF part = "scarce" THEN Scarce!Init ELSE Table!Init /\ (part = "mesh" => hushed)

MeshStep == part = "mesh" /\ Next /\ UNCHANGED <<part, hubVars>>
RoomStep == part = "room" /\ Table!Next /\ UNCHANGED <<part, meshVars>>
ScarceStep == part = "scarce" /\ Scarce!Next /\ UNCHANGED <<part, meshVars>>

RoutingNext == MeshStep \/ RoomStep \/ ScarceStep

\* The fairness of FairMeshSpec and FairHubSpec, for the part that runs.
RoutingSpec ==
  /\ RoutingInit /\ [][RoutingNext]_routingVars
  /\ \A l \in Links : WF_meshVars(part = "mesh" /\ Arrive(l[1], l[2]))
  /\ \A a \in Beaters : WF_meshVars(part = "mesh" /\ Beat(a))
  /\ WF_hubVars(part = "scarce" /\ Scarce!Heartbeat)
  /\ WF_hubVars(part = "scarce" /\ Scarce!Status)
  /\ WF_hubVars(part = "scarce" /\ Scarce!Tick)
  /\ WF_hubVars(part = "scarce" /\ Scarce!Get(Scarce!Frame(A, All, "beat"), Home[A]))

Both(ps) == ps \cup {<<p[2], p[1]>> : p \in ps}
MCSenders == {S1, S2}
MCLeaves == {G, F}
MCPlaces == {S1, S2}
MCTrunk == Both({<<G, H>>, <<H, C>>, <<C, S1>>, <<C, S2>>})
FBeats == {F}
GTalksToF == {<<G, F>>}

\* controller_routes with the hub on the UART; sender_routes(paired_fc).
MCStatic ==
  [n \in {C, S1, S2} |-> [a \in {G, H, C, S1, S2, F} |->
     IF n = C THEN (IF a \in {G, H} THEN H ELSE IF a \in {S1, S2} THEN a ELSE None)
     ELSE IF n = S1 /\ a = F THEN F ELSE C]]
MCTtl == [n \in {C, S1, S2, H} |-> 1]

MCAddrs == {A, B}
MCSpokes == {X, Y}
MCSlots == {1, 2}
MCHome == [a \in MCAddrs |-> X]

\* A flight computer moved to another sender is found there in the end, and no
\* frame on its way to it goes round for ever.
MoverIsFound == part = "mesh" => MoverFound
MovedTalkEnds == part = "mesh" => TalkEnds

\* With one slot for two, a node that keeps sending gets it again and again.
ScarceServed == part = "scarce" => Scarce!Admitted

=============================================================================
