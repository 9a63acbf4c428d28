---------------------------- MODULE RoutingProofs ----------------------------
(***************************************************************************)
(* The hub's tables (HubRoutes) for any addresses, spokes, number of slots *)
(* and timeout, and the routing across nodes (Mesh) in any tree of them.   *)
(***************************************************************************)
EXTENDS Routing, FiniteSetTheorems, WellFoundedInduction, TLAPS

-----------------------------------------------------------------------------
(* The hub's tables.                                                       *)

Route == [addr : Addrs, link : Spokes, age : 0 .. Timeout]
Contact == [link : Spokes \cup {Nobody}, age : 0 .. Timeout]

\* A table t is right about who was heard where, h, when it says of those it has
\* what h says of them, once each.
TableRight(t, h) ==
  /\ h \in [Addrs -> Contact]
  /\ t \in [Slots -> Route \cup {Table!Free}]
  /\ \A r, s \in Slots : t[r].addr = t[s].addr /\ t[r].addr # Nobody => r = s
  /\ \A s \in Slots : t[s] # Table!Free =>
       h[t[s].addr].link = t[s].link /\ h[t[s].addr].age = t[s].age

\* Whoever was heard within the timeout has a slot.
Serves(t, h) == \A a \in Addrs : h[a].age < Timeout => Table!SlotsOf(t, a) # {}

\* The peers, p, are as old as they were heard, and nobody that was heard is
\* missing as long as there is room.
PeersRight(p, h) ==
  /\ DOMAIN p \subseteq Addrs /\ Cardinality(DOMAIN p) <= Peers
  /\ \A a \in DOMAIN p : p[a] = h[a].age
  /\ Cardinality(Addrs) <= Peers =>
       \A a \in Addrs : h[a].age < Timeout => a \in DOMAIN p

\* A slot for each address, and room for it among the peers.
Enough == Cardinality(Addrs) <= Cardinality(Slots) /\ Cardinality(Addrs) <= Peers

LEMMA SameCount == \A S : Table!Cardinality(S) = Cardinality(S)
  BY DEF Table!Cardinality, Cardinality
LEMMA SameFinite == \A S : Table!IsFiniteSet(S) <=> IsFiniteSet(S)
  BY DEF Table!IsFiniteSet, IsFiniteSet

LEMMA FiniteParts ==
  Table!HubRoutesAssumption => IsFiniteSet(Slots) /\ IsFiniteSet(Addrs)
  BY SameFinite DEF Table!HubRoutesAssumption

\* The slots of an address in a table of routes.
LEMMA SlotsIn ==
  ASSUME NEW t, NEW h, TableRight(t, h)
  PROVE  \A a : Table!SlotsOf(t, a) = {s \in Slots : t[s].addr = a}
  BY DEF TableRight, Table!SlotsOf

\* A set of slots has a first one.
LEMMA FirstIn ==
  ASSUME NEW ss \in SUBSET Nat, ss # {}
  PROVE  Table!First(ss) \in ss
<1>1. PICK s \in ss : \A r \in ss : ~(<<r, s>> \in OpToRel(<, Nat))
  BY NatLessThanWellFounded, WFMin
<1>2. \A r \in ss : s <= r
  <2>1. \A r \in ss : ~(r < s)
    BY <1>1 DEF OpToRel
  <2>2. QED BY <2>1
<1>3. QED BY <1>2 DEF Table!First

\* What a slot holds decides what address it has.
LEMMA SlotKinds ==
  ASSUME Table!HubRoutesAssumption, NEW t \in [Slots -> Route \cup {Table!Free}], NEW s \in Slots
  PROVE  /\ t[s] = Table!Free \/ t[s] \in Route
         /\ t[s] = Table!Free <=> t[s].addr = Nobody
         /\ t[s] # Table!Free =>
              t[s].addr \in Addrs /\ t[s].link \in Spokes /\ t[s].age \in 0 .. Timeout
  BY DEF Table!HubRoutesAssumption, Route, Table!Free

\* With as many slots as addresses, a table without a free slot has one for each.
LEMMA FullServesAll ==
  ASSUME Table!HubRoutesAssumption, Enough,
         NEW t, NEW h, TableRight(t, h), Table!SlotsOf(t, Nobody) = {}, NEW a \in Addrs
  PROVE  Table!SlotsOf(t, a) # {}
<1> SUFFICES ASSUME Table!SlotsOf(t, a) = {} PROVE FALSE
  OBVIOUS
<1>1. t \in [Slots -> Route \cup {Table!Free}]
  BY DEF TableRight
<1>2. \A s \in Slots : t[s].addr \in Addrs \ {a} /\ t[s].addr # Nobody
  BY <1>1, SlotKinds DEF Table!SlotsOf
<1>3. PICK f \in [Slots -> Addrs \ {a}] : \A s \in Slots : f[s] = t[s].addr
  <2>1. [s \in Slots |-> t[s].addr] \in [Slots -> Addrs \ {a}]
    BY <1>2
  <2>2. QED BY <2>1
<1>4. /\ IsFiniteSet(Slots) /\ IsFiniteSet(Addrs \ {a})
      /\ Cardinality(Addrs \ {a}) = Cardinality(Addrs) - 1
      /\ Cardinality(Addrs) \in Nat /\ Cardinality(Slots) \in Nat
  BY FiniteParts, FS_RemoveElement, FS_CardinalityType
<1>5. Cardinality(Addrs \ {a}) < Cardinality(Slots)
  BY <1>4 DEF Enough
<1>6. \E r, s \in Slots : r # s /\ f[r] = f[s]
  BY ONLY <1>4, <1>5, f \in [Slots -> Addrs \ {a}], FS_PigeonHole, Zenon
<1>7. QED BY <1>2, <1>3, <1>6 DEF TableRight

\* Expiring frees slots and leaves those that are younger than the timeout.
LEMMA ExpireRight ==
  ASSUME Table!HubRoutesAssumption, NEW t, NEW h, TableRight(t, h)
  PROVE  TableRight(Table!Expire(t), h) /\ (Serves(t, h) => Serves(Table!Expire(t), h))
<1>1. PICK e : e = Table!Expire(t)
  OBVIOUS
<1>2. t \in [Slots -> Route \cup {Table!Free}] /\ h \in [Addrs -> Contact]
  BY DEF TableRight
<1>3. /\ e \in [Slots -> Route \cup {Table!Free}]
      /\ \A s \in Slots : e[s] = t[s] \/ e[s] = Table!Free
  BY <1>1, <1>2 DEF Table!Expire
<1>4. \A s \in Slots : e[s].addr # Nobody => e[s] = t[s]
  BY <1>3 DEF Table!Free
<1>5. TableRight(e, h)
  BY <1>2, <1>3, <1>4 DEF TableRight
<1>6. ASSUME Serves(t, h) PROVE Serves(e, h)
  <2> SUFFICES ASSUME NEW a \in Addrs, h[a].age < Timeout PROVE Table!SlotsOf(e, a) # {}
    BY DEF Serves
  <2>1. PICK s \in Slots : t[s].addr = a
    BY <1>6, SlotsIn DEF Serves
  <2>2. t[s] # Table!Free /\ a # Nobody
    BY <2>1 DEF Table!HubRoutesAssumption, Table!Free
  <2>3. h[a].age = t[s].age
    BY <2>1, <2>2 DEF TableRight
  <2>4. e[s] = t[s]
    BY <1>1, <2>1, <2>2, <2>3 DEF Table!Expire, Table!Active
  <2>5. QED BY <1>5, <2>1, <2>4, SlotsIn
<1>7. QED BY <1>1, <1>5, <1>6

\* A route is to the spoke where its address was last heard.
LEMMA RouteRight ==
  ASSUME Table!HubRoutesAssumption, NEW t, NEW h, TableRight(t, h), NEW a \in Addrs
  PROVE  /\ Table!RouteTo(t, a) # Nobody => Table!RouteTo(t, a) = h[a].link
         /\ Table!SlotsOf(t, a) # {} => Table!RouteTo(t, a) # Nobody
<1>1. CASE Table!SlotsOf(t, a) = {}
  BY <1>1 DEF Table!RouteTo
<1>2. CASE Table!SlotsOf(t, a) # {}
  <2>1. PICK s \in Slots : s = Table!First(Table!SlotsOf(t, a)) /\ t[s].addr = a
    <3>1. PICK ss \in SUBSET Nat : ss = Table!SlotsOf(t, a) /\ ss = {s \in Slots : t[s].addr = a}
      BY SlotsIn DEF Table!HubRoutesAssumption
    <3>2. Table!First(ss) \in ss
      BY <1>2, <3>1, FirstIn
    <3>3. QED BY <3>1, <3>2
  <2>2. t[s] # Table!Free /\ t \in [Slots -> Route \cup {Table!Free}]
    BY <2>1 DEF Table!HubRoutesAssumption, Table!Free, TableRight
  <2>3. t[s].link = h[a].link /\ t[s].link \in Spokes
    BY <2>1, <2>2, SlotKinds DEF TableRight
  <2>4. Table!RouteTo(t, a) = t[s].link
    BY <1>2, <2>1 DEF Table!RouteTo
  <2>5. QED BY <2>3, <2>4 DEF Table!HubRoutesAssumption
<1>3. QED BY <1>1, <1>2

\* Who was heard where, once a is heard on x.
HeardOn(h, a, x) == [h EXCEPT ![a] = [link |-> x, age |-> 0]]

\* Learning takes the one slot of the address or a free one, so that no address
\* gets a second; with room for all there is one to take.
LEMMA LearnRight ==
  ASSUME Table!HubRoutesAssumption, NEW t, NEW h, TableRight(t, h), NEW a \in Addrs,
         NEW x \in Spokes
  PROVE  /\ TableRight(Table!Learn(t, a, x), HeardOn(h, a, x))
         /\ Enough => Table!SlotsOf(Table!Learn(t, a, x), a) # {}
         /\ Enough /\ Serves(t, h) => Serves(Table!Learn(t, a, x), HeardOn(h, a, x))
<1>1. PICK use : use = IF Table!SlotsOf(t, a) # {} THEN Table!SlotsOf(t, a)
                       ELSE Table!SlotsOf(t, Nobody)
  OBVIOUS
<1>2. PICK e, g : e = Table!Learn(t, a, x) /\ g = HeardOn(h, a, x)
  OBVIOUS
<1>3. t \in [Slots -> Route \cup {Table!Free}] /\ h \in [Addrs -> Contact]
  BY DEF TableRight
<1>4. /\ g \in [Addrs -> Contact] /\ g[a] = [link |-> x, age |-> 0]
      /\ \A b \in Addrs : b # a => g[b] = h[b]
  <2>1. [link |-> x, age |-> 0] \in Contact
    BY DEF Contact, Table!HubRoutesAssumption
  <2>2. QED BY <1>2, <1>3, <2>1 DEF HeardOn
<1>5. CASE use = {}
  <2>1. e = t /\ Table!SlotsOf(t, a) = {} /\ Table!SlotsOf(t, Nobody) = {}
    BY <1>1, <1>2, <1>5 DEF Table!Learn
  <2>2. ~Enough
    BY <2>1, FullServesAll
  <2>3. \A s \in Slots : t[s] # Table!Free => t[s].addr \in Addrs /\ t[s].addr # a
    BY <1>3, <2>1, SlotKinds DEF Table!SlotsOf
  <2>4. TableRight(e, g)
    BY <1>3, <1>4, <2>1, <2>3 DEF TableRight
  <2>5. QED BY <1>2, <2>2, <2>4
<1>6. CASE use # {}
  <2>1. PICK s \in Slots : s = Table!First(use) /\ s \in use
    <3>1. use \subseteq Slots
      BY <1>1, SlotsIn
    <3>2. use \in SUBSET Nat
      BY <3>1 DEF Table!HubRoutesAssumption
    <3>3. QED BY <1>6, <3>1, <3>2, FirstIn
  <2>2. e = [t EXCEPT ![s] = [addr |-> a, link |-> x, age |-> 0]]
    BY <1>1, <1>2, <1>6, <2>1 DEF Table!Learn
  <2>3. [addr |-> a, link |-> x, age |-> 0] \in Route
    BY DEF Route, Table!HubRoutesAssumption
  <2>4. /\ e \in [Slots -> Route \cup {Table!Free}]
        /\ e[s] = [addr |-> a, link |-> x, age |-> 0]
        /\ \A r \in Slots : r # s => e[r] = t[r]
    BY <1>3, <2>2, <2>3
  \* No other slot has the address: this one had it, or none did.
  <2>5. \A r \in Slots : r # s => t[r].addr # a
    <3>1. CASE t[s].addr = a
      BY <3>1 DEF TableRight, Table!HubRoutesAssumption
    <3>2. CASE t[s].addr # a
      BY <1>1, <2>1, <3>2, SlotsIn
    <3>3. QED BY <3>1, <3>2
  <2>6. \A r, q \in Slots : e[r].addr = e[q].addr /\ e[r].addr # Nobody => r = q
    BY <2>4, <2>5 DEF TableRight
  <2>7. \A r \in Slots : e[r] # Table!Free =>
          g[e[r].addr].link = e[r].link /\ g[e[r].addr].age = e[r].age
    <3>1. \A r \in Slots : r # s /\ t[r] # Table!Free => t[r].addr \in Addrs
      BY <1>3, SlotKinds
    <3>2. QED BY <1>4, <2>4, <2>5, <3>1 DEF TableRight
  <2>8. TableRight(e, g)
    BY <1>4, <2>4, <2>6, <2>7 DEF TableRight
  <2>9. Table!SlotsOf(e, a) # {}
    BY <2>4 DEF Table!SlotsOf
  <2>10. ASSUME Serves(t, h) PROVE Serves(e, g)
    <3> SUFFICES ASSUME NEW b \in Addrs, b # a, g[b].age < Timeout PROVE Table!SlotsOf(e, b) # {}
      BY <2>9 DEF Serves
    <3>1. PICK r \in Slots : t[r].addr = b
      BY <1>4, <2>10, SlotsIn DEF Serves
    <3>2. r # s
      BY <1>1, <2>1, <3>1 DEF Table!SlotsOf, Table!HubRoutesAssumption
    <3>3. QED BY <2>4, <3>1, <3>2 DEF Table!SlotsOf
  <2>11. QED BY <1>2, <2>8, <2>9, <2>10
<1>7. QED BY <1>5, <1>6

\* A frame that is forwarded goes where its destination was heard, and it does go
\* if the destination has a slot; what the hub asks goes to everyone.
LEMMA ForwardRight ==
  ASSUME Table!HubRoutesAssumption, NEW t, NEW h, TableRight(t, h), NEW f, f.dst \in Addrs,
         Table!Forward(t, f)
  PROVE  /\ learned' = Table!Expire(t)
         /\ \A o \in out' : o[2].dst \in Addrs => o[1] = h[o[2].dst].link
         /\ Table!SlotsOf(Table!Expire(t), f.dst) # {} => out' = {<<h[f.dst].link, f>>}
<1>1. PICK via : via = Table!RouteTo(Table!Expire(t), f.dst)
  OBVIOUS
<1>2. /\ via # Nobody => via = h[f.dst].link
      /\ Table!SlotsOf(Table!Expire(t), f.dst) # {} => via # Nobody
  <2>1. PICK e, d : e = Table!Expire(t) /\ d = f.dst /\ d \in Addrs
    OBVIOUS
  <2>2. TableRight(e, h)
    BY <2>1, ExpireRight
  <2>3. QED BY <1>1, <2>1, <2>2, RouteRight
<1>3. /\ learned' = Table!Expire(t)
      /\ \/ via # Nobody /\ out' = {<<via, f>>}
         \/ via = Nobody /\ (out' = {} \/ out' = Table!Discovery)
  BY <1>1 DEF Table!Forward
<1>4. \A o \in Table!Discovery : o[2].dst \notin Addrs
  BY DEF Table!Discovery, Table!Frame, Table!HubRoutesAssumption
<1>5. QED BY <1>2, <1>3, <1>4

\* A frame's source becomes a peer that was heard just now, if there is room.
LEMMA NotePeerRight ==
  ASSUME Table!HubRoutesAssumption, NEW h \in [Addrs -> Contact], PeersRight(peers, h),
         NEW a \in Addrs, NEW x \in Spokes
  PROVE  PeersRight(Table!NotePeer(a), HeardOn(h, a, x))
<1>1. PICK g, p : g = HeardOn(h, a, x) /\ p = Table!NotePeer(a)
  OBVIOUS
<1>2. g[a].age = 0 /\ \A b \in Addrs : b # a => g[b] = h[b]
  BY <1>1 DEF HeardOn
<1>3. /\ DOMAIN peers \subseteq Addrs /\ IsFiniteSet(DOMAIN peers) /\ Peers \in Nat
      /\ Cardinality(DOMAIN peers) \in Nat /\ Cardinality(DOMAIN peers) <= Peers
      /\ IsFiniteSet(Addrs) /\ Cardinality(Addrs) \in Nat
  <2>1. DOMAIN peers \subseteq Addrs /\ IsFiniteSet(Addrs) /\ Peers \in Nat
    BY FiniteParts DEF PeersRight, Table!HubRoutesAssumption
  <2>2. IsFiniteSet(DOMAIN peers)
    BY <2>1, FS_Subset
  <2>3. Cardinality(DOMAIN peers) \in Nat /\ Cardinality(Addrs) \in Nat
    BY <2>1, <2>2, FS_CardinalityType
  <2>4. QED BY <2>1, <2>2, <2>3 DEF PeersRight
<1>4. CASE a \in DOMAIN peers \/ Cardinality(DOMAIN peers) < Peers
  <2>1. p = [b \in DOMAIN peers \cup {a} |-> IF b = a THEN 0 ELSE peers[b]]
    BY <1>1, <1>4, SameCount DEF Table!NotePeer
  <2>2. Cardinality(DOMAIN peers \cup {a}) =
          IF a \in DOMAIN peers THEN Cardinality(DOMAIN peers)
          ELSE Cardinality(DOMAIN peers) + 1
    BY <1>3, FS_AddElement
  <2>3. DOMAIN p \subseteq Addrs /\ Cardinality(DOMAIN p) <= Peers
    BY <1>3, <1>4, <2>1, <2>2
  <2>4. \A b \in DOMAIN p : p[b] = g[b].age
    BY <1>2, <1>3, <2>1 DEF PeersRight
  <2>5. Cardinality(Addrs) <= Peers =>
          \A b \in Addrs : g[b].age < Timeout => b \in DOMAIN p
    BY <1>2, <2>1 DEF PeersRight
  <2>6. QED BY <1>1, <2>3, <2>4, <2>5 DEF PeersRight
<1>5. CASE a \notin DOMAIN peers /\ ~(Cardinality(DOMAIN peers) < Peers)
  <2>1. p = peers
    BY <1>1, <1>5, SameCount DEF Table!NotePeer
  \* The table is full and a is not in it: there are more addresses than room.
  <2>2. ~(Cardinality(Addrs) <= Peers)
    <3>1. /\ IsFiniteSet(Addrs \ {a}) /\ Cardinality(Addrs \ {a}) = Cardinality(Addrs) - 1
          /\ DOMAIN peers \subseteq Addrs \ {a}
      BY <1>3, <1>5, FS_RemoveElement
    <3>2. Cardinality(DOMAIN peers) <= Cardinality(Addrs \ {a})
      BY <3>1, FS_Subset
    <3>3. QED BY <1>3, <1>5, <3>1, <3>2
  <2>3. \A b \in DOMAIN p : p[b] = g[b].age
    BY <1>2, <1>3, <1>5, <2>1 DEF PeersRight
  <2>4. QED BY <1>1, <1>3, <2>1, <2>2, <2>3 DEF PeersRight
<1>6. QED BY <1>4, <1>5

\* The tables with what was heard, and what the last step sent.
SentRight ==
  /\ Table!NeverWrongSpoke
  /\ Enough => Table!SentWhereHeard /\ Table!AnsweredWhereAsked

HubInv ==
  /\ TableRight(learned, met) /\ (Enough => Serves(learned, met))
  /\ PeersRight(peers, met)
  /\ seen \subseteq Addrs /\ IsFiniteSet(seen) /\ Cardinality(seen) <= SeenMax
  /\ SentRight

\* A step that handles no frame sends what concerns no address.
LEMMA NothingSent ==
  ASSUME Table!HubRoutesAssumption, input' = Table!NoFrame,
         \A o \in out' : o[2].dst \notin Addrs
  PROVE  SentRight'
  BY DEF SentRight, Table!NeverWrongSpoke, Table!SentWhereHeard, Table!AnsweredWhereAsked,
         Table!NoFrame, Table!Frame,
         Table!HubRoutesAssumption

\* Nothing is known and nothing was sent at the start.
LEMMA HubInvInit == Table!HubRoutesAssumption /\ Table!Init => HubInv
<1> SUFFICES ASSUME Table!HubRoutesAssumption, Table!Init PROVE HubInv
  OBVIOUS
<1>1. TableRight(learned, met)
  BY SlotKinds DEF Table!Init, TableRight, Contact, Table!Free, Table!HubRoutesAssumption
<1>2. Serves(learned, met)
  BY DEF Table!Init, Serves, Table!HubRoutesAssumption
<1>3. PeersRight(peers, met)
  <2>1. Cardinality({}) = 0 /\ 0 <= Peers /\ ~(Timeout < Timeout)
    BY FS_EmptySet DEF Table!HubRoutesAssumption
  <2>2. DOMAIN peers = {} /\ \A a \in Addrs : met[a].age = Timeout
    BY DEF Table!Init
  <2>3. QED BY <2>1, <2>2 DEF PeersRight
<1>4. IsFiniteSet(seen) /\ Cardinality(seen) <= SeenMax /\ seen = {}
  BY FS_EmptySet DEF Table!Init, Table!HubRoutesAssumption
<1>5. SentRight
  BY DEF Table!Init, SentRight, Table!NeverWrongSpoke, Table!SentWhereHeard,
         Table!AnsweredWhereAsked, Table!NoFrame,
         Table!Frame, Table!HubRoutesAssumption
<1>6. QED BY <1>1, <1>2, <1>3, <1>4, <1>5 DEF HubInv

\* A frame is handled: its source is learned before it is routed, so that what
\* the handler sends goes by the tables as they then are.
LEMMA GetKeeps ==
  ASSUME Table!HubRoutesAssumption, HubInv, NEW f \in Table!Frames, f.src # f.dst,
         NEW x \in Spokes,
         Table!Get(f, x)
  PROVE  HubInv'
<1>0. /\ f.src \in Addrs /\ f.dst \in Addrs \cup {Hub, All}
      /\ f.kind \in {"beat", "ping", "data"}
  BY DEF Table!Frames
<1>1. PICK t, g : t = Table!Learn(learned, f.src, x) /\ g = HeardOn(met, f.src, x)
  OBVIOUS
<1>2. /\ TableRight(t, g) /\ (Enough => Serves(t, g))
      /\ TableRight(Table!Expire(t), g) /\ (Enough => Serves(Table!Expire(t), g))
  <2>1. TableRight(t, g) /\ (Enough => Serves(t, g))
    BY <1>0, <1>1, LearnRight DEF HubInv
  <2>2. QED BY <2>1, ExpireRight
<1>3. met' = g /\ input' = f /\ peers' = Table!NotePeer(f.src)
  BY <1>1 DEF Table!Get, HeardOn
<1>4. PeersRight(peers', met')
  BY <1>0, <1>1, <1>3, NotePeerRight DEF HubInv, TableRight
<1>5. g[f.src].age = 0 /\ 0 < Timeout
  BY <1>0, <1>1 DEF HeardOn, HubInv, TableRight, Table!HubRoutesAssumption
<1>6. seen' \subseteq Addrs /\ IsFiniteSet(seen') /\ Cardinality(seen') <= SeenMax
  <2>1. seen' = seen \/ seen' = Table!NoteSeen(f.src)
    BY DEF Table!Get
  <2>2. /\ IsFiniteSet(seen) /\ seen \subseteq Addrs /\ Cardinality(seen) <= SeenMax
        /\ Cardinality(seen) \in Nat /\ SeenMax \in Nat
    BY FS_CardinalityType DEF HubInv, Table!HubRoutesAssumption
  <2>3. /\ IsFiniteSet(seen \cup {f.src})
        /\ Cardinality(seen \cup {f.src}) \in {Cardinality(seen), Cardinality(seen) + 1}
    BY <2>2, FS_AddElement
  <2>4. QED BY <1>0, <2>1, <2>2, <2>3, SameCount DEF Table!NoteSeen
<1>7. ASSUME TableRight(learned', met'), Enough => Serves(learned', met'), SentRight'
      PROVE  HubInv'
  BY <1>4, <1>6, <1>7 DEF HubInv
\* Addressed to the hub and reliable.
<1>8. CASE f.dst = Hub /\ f.kind = "ping" /\ Table!Forward(t, Table!Frame(Hub, f.src, "ack"))
  <2>0. Table!Frame(Hub, f.src, "ack").dst = f.src
    BY DEF Table!Frame
  <2>1. PICK a : a = Table!Frame(Hub, f.src, "ack") /\ a.dst = f.src
    BY <2>0
  <2>2. /\ learned' = Table!Expire(t)
        /\ \A o \in out' : o[2].dst \in Addrs => o[1] = g[o[2].dst].link
        /\ Table!SlotsOf(Table!Expire(t), f.src) # {} => out' = {<<g[f.src].link, a>>}
    BY <1>0, <1>2, <1>8, <2>1, ForwardRight
  <2>3. Enough => out' = {<<g[f.src].link, a>>}
    BY <1>0, <1>2, <1>5, <2>2 DEF Serves
  <2>4. SentRight'
    BY <1>3, <1>8, <2>1, <2>2, <2>3
       DEF SentRight, Table!NeverWrongSpoke, Table!SentWhereHeard, Table!AnsweredWhereAsked,
           Table!HubRoutesAssumption
  <2>5. QED BY <1>2, <1>3, <1>7, <2>2, <2>4
\* A heartbeat, which is absorbed, or what is for the hub and wants no answer.
<1>9. CASE /\ \/ f.dst # Hub /\ f.kind \in {"beat", "ping"}
              \/ f.dst = Hub /\ f.kind # "ping"
           /\ learned' = t /\ out' = {}
  <2>1. SentRight'
    BY <1>3, <1>9 DEF SentRight, Table!NeverWrongSpoke, Table!SentWhereHeard,
                      Table!AnsweredWhereAsked, Table!HubRoutesAssumption
  <2>2. QED BY <1>2, <1>3, <1>7, <1>9, <2>1
\* To everyone.
<1>10. CASE /\ f.dst = All /\ learned' = t
            /\ out' = {<<y, f>> : y \in Spokes \ {x}}
  <2>1. SentRight'
    BY <1>3, <1>10
       DEF SentRight, Table!NeverWrongSpoke, Table!SentWhereHeard, Table!AnsweredWhereAsked,
           Table!HubRoutesAssumption
  <2>2. QED BY <1>2, <1>3, <1>7, <1>10, <2>1
\* To one node.
<1>11. CASE f.dst \in Addrs /\ Table!Forward(t, f)
  <2>1. /\ learned' = Table!Expire(t)
        /\ \A o \in out' : o[2].dst \in Addrs => o[1] = g[o[2].dst].link
        /\ Table!SlotsOf(Table!Expire(t), f.dst) # {} => out' = {<<g[f.dst].link, f>>}
    BY <1>2, <1>11, ForwardRight
  <2>2. Enough /\ g[f.dst].age < Timeout => out' = {<<g[f.dst].link, f>>}
    BY <1>2, <1>11, <2>1 DEF Serves
  <2>3. SentRight'
    BY <1>3, <1>11, <2>1, <2>2
       DEF SentRight, Table!NeverWrongSpoke, Table!SentWhereHeard, Table!AnsweredWhereAsked,
           Table!HubRoutesAssumption
  <2>4. QED BY <1>2, <1>3, <1>7, <2>1, <2>3
<1>12. QED BY <1>1, <1>8, <1>9, <1>10, <1>11 DEF Table!Get

\* Time passes for a table and for what it is about alike.
LEMMA TickRight ==
  ASSUME Table!HubRoutesAssumption, TableRight(learned, met), PeersRight(peers, met), Table!Tick
  PROVE  /\ TableRight(learned', met') /\ PeersRight(peers', met')
         /\ Serves(learned, met) => Serves(learned', met')
<1>1. /\ \A n \in 0 .. Timeout : Table!Older(n) \in 0 .. Timeout
      /\ \A n \in 0 .. Timeout : Table!Older(n) < Timeout => n < Timeout
  BY DEF Table!Older, Table!HubRoutesAssumption
<1>2. /\ met \in [Addrs -> Contact] /\ learned \in [Slots -> Route \cup {Table!Free}]
      /\ \A a \in Addrs : met[a].age \in 0 .. Timeout
  BY DEF TableRight, Contact
<1>3. /\ met' \in [Addrs -> Contact]
      /\ \A a \in Addrs : met'[a].link = met[a].link /\ met'[a].age = Table!Older(met[a].age)
  <2>1. met' = [a \in Addrs |-> [met[a] EXCEPT !.age = Table!Older(@)]]
    BY DEF Table!Tick
  <2>2. \A c \in Contact : Table!Older(c.age) \in 0 .. Timeout =>
          /\ [c EXCEPT !.age = Table!Older(@)] \in Contact
          /\ [c EXCEPT !.age = Table!Older(@)].link = c.link
          /\ [c EXCEPT !.age = Table!Older(@)].age = Table!Older(c.age)
    BY DEF Contact
  <2>3. QED BY <1>1, <1>2, <2>1, <2>2
<1>4. \A s \in Slots :
        /\ learned[s] = Table!Free => learned'[s] = Table!Free
        /\ learned[s] # Table!Free =>
             /\ learned'[s] \in Route
             /\ learned'[s].addr = learned[s].addr /\ learned'[s].link = learned[s].link
             /\ learned'[s].age = Table!Older(learned[s].age)
  <2>1. learned' = [s \in Slots |->
          IF learned[s] = Table!Free THEN Table!Free
          ELSE [learned[s] EXCEPT !.age = Table!Older(@)]]
    BY DEF Table!Tick
  <2>2. \A r \in Route : Table!Older(r.age) \in 0 .. Timeout =>
          /\ [r EXCEPT !.age = Table!Older(@)] \in Route
          /\ [r EXCEPT !.age = Table!Older(@)].addr = r.addr
          /\ [r EXCEPT !.age = Table!Older(@)].link = r.link
          /\ [r EXCEPT !.age = Table!Older(@)].age = Table!Older(r.age)
    BY DEF Route
  <2>3. \A r \in Route : r.age \in 0 .. Timeout
    BY DEF Route
  <2>4. QED BY <1>1, <1>2, <2>1, <2>2, <2>3
<1>5. learned' \in [Slots -> Route \cup {Table!Free}]
  <2>1. learned' = [s \in Slots |-> learned'[s]]
    BY DEF Table!Tick
  <2>2. QED BY <1>4, <2>1
<1>6. \A s \in Slots : /\ learned'[s].addr = learned[s].addr
                       /\ learned'[s] = Table!Free <=> learned[s] = Table!Free
  BY <1>2, <1>4, <1>5, SlotKinds
<1>7. TableRight(learned', met')
  <2>1. \A s \in Slots : learned[s] # Table!Free => learned[s].addr \in Addrs
    BY <1>2, SlotKinds
  <2>2. \A s \in Slots : learned'[s] # Table!Free =>
          /\ met'[learned'[s].addr].link = learned'[s].link
          /\ met'[learned'[s].addr].age = learned'[s].age
    BY <1>3, <1>4, <1>6, <2>1 DEF TableRight
  <2>3. \A r, s \in Slots :
          learned'[r].addr = learned'[s].addr /\ learned'[r].addr # Nobody => r = s
    BY <1>6 DEF TableRight
  <2>4. QED BY <1>3, <1>5, <2>2, <2>3 DEF TableRight
<1>8. PeersRight(peers', met')
  <2>1. peers' = [a \in DOMAIN peers |-> Table!Older(peers[a])]
    BY DEF Table!Tick
  <2>2. \A a \in Addrs : met'[a].age < Timeout => met[a].age < Timeout
    BY <1>1, <1>2, <1>3
  <2>3. QED BY <1>3, <2>1, <2>2 DEF PeersRight
<1>9. ASSUME Serves(learned, met) PROVE Serves(learned', met')
  BY <1>1, <1>2, <1>3, <1>5, <1>6, <1>9 DEF Serves, Table!SlotsOf
<1>10. QED BY <1>7, <1>8, <1>9

\* Every step of the hub keeps its tables and what it sends right.
LEMMA HubInvNext == Table!HubRoutesAssumption /\ HubInv /\ [Table!Next]_(Table!hubVars) => HubInv'
<1> SUFFICES ASSUME Table!HubRoutesAssumption, HubInv, [Table!Next]_(Table!hubVars) PROVE HubInv'
  OBVIOUS
<1>1. ASSUME NEW f \in Table!Frames, NEW x \in Spokes, f.src # f.dst, Table!Get(f, x) PROVE HubInv'
  BY <1>1, GetKeeps
<1>2. CASE Table!Heartbeat
  <2>1. \A o \in out' : o[2].dst \notin Addrs
    BY <1>2 DEF Table!Heartbeat, Table!Frame, Table!HubRoutesAssumption
  <2>2. UNCHANGED <<learned, peers, met>> /\ seen' = {} /\ input' = Table!NoFrame
    BY <1>2 DEF Table!Heartbeat
  <2>3. IsFiniteSet(seen') /\ Cardinality(seen') <= SeenMax
    BY <2>2, FS_EmptySet DEF Table!HubRoutesAssumption
  <2>4. SentRight'
    BY <2>1, <2>2, NothingSent
  <2>5. QED BY <2>2, <2>3, <2>4 DEF HubInv
<1>3. CASE Table!Status
  <2>1. /\ learned' = Table!Expire(learned) /\ UNCHANGED <<seen, peers, met>>
        /\ input' = Table!NoFrame /\ out' = {}
    BY <1>3 DEF Table!Status
  <2>2. TableRight(learned', met') /\ (Enough => Serves(learned', met'))
    BY <2>1, ExpireRight DEF HubInv
  <2>3. SentRight'
    BY <2>1, NothingSent
  <2>4. QED BY <2>1, <2>2, <2>3 DEF HubInv
<1>4. CASE Table!Tick
  <2>1. UNCHANGED seen /\ input' = Table!NoFrame /\ out' = {}
    BY <1>4 DEF Table!Tick
  <2>2. SentRight'
    BY <2>1, NothingSent
  <2>3. QED BY <1>4, <2>1, <2>2, TickRight DEF HubInv
<1>5. CASE Table!ThrottleEnds
  <2>1. UNCHANGED <<learned, seen, peers, met>> /\ input' = Table!NoFrame /\ out' = {}
    BY <1>5 DEF Table!ThrottleEnds
  <2>2. SentRight'
    BY <2>1, NothingSent
  <2>3. QED BY <2>1, <2>2 DEF HubInv
<1>6. ASSUME NEW f \in {Table!Frame(Hub, All, "beat")} \cup {Table!Frame(Hub, a, "ack") : a \in Addrs},
             Table!Echo(f)
      PROVE  HubInv'
  <2>1. UNCHANGED <<learned, seen, peers, met>> /\ input' = f /\ out' = {}
    BY <1>6 DEF Table!Echo
  <2>2. f.kind \in {"beat", "ack"} /\ f.dst # Hub
    BY DEF Table!Frame, Table!HubRoutesAssumption
  <2>3. SentRight'
    BY <2>1, <2>2 DEF SentRight, Table!NeverWrongSpoke, Table!SentWhereHeard,
                      Table!AnsweredWhereAsked
  <2>4. QED BY <2>1, <2>3 DEF HubInv
<1>7. CASE UNCHANGED Table!hubVars
  BY <1>7 DEF Table!hubVars, HubInv, SentRight, Table!NeverWrongSpoke, Table!SentWhereHeard,
              Table!AnsweredWhereAsked
<1>8. QED BY <1>1, <1>2, <1>3, <1>4, <1>5, <1>6, <1>7 DEF Table!Next

\* The hub's tables and what it sends by them are right however nodes change
\* spokes, fall silent and crowd its slots.
THEOREM RoutesCorrect ==
  ASSUME Table!HubRoutesAssumption
  PROVE  Table!HubSpec => [](Table!HubTypeOK /\ RoutesRight)
<1>1. HubInv => Table!HubTypeOK /\ RoutesRight
  <2> SUFFICES ASSUME HubInv PROVE Table!HubTypeOK /\ RoutesRight
    OBVIOUS
  <2>1. Table!HubTypeOK
    BY SameCount DEF HubInv, Table!HubTypeOK, TableRight, PeersRight, Route
  <2>2. Table!OneSlotPerAddr
    <3> SUFFICES ASSUME NEW a \in Addrs PROVE Cardinality(Table!SlotsOf(learned, a)) <= 1
      BY SameCount DEF Table!OneSlotPerAddr
    <3>1. CASE Table!SlotsOf(learned, a) = {}
      BY <3>1, FS_EmptySet
    <3>2. CASE Table!SlotsOf(learned, a) # {}
      <4>1. PICK s : s \in Table!SlotsOf(learned, a)
        BY <3>2
      <4>2. \A r \in Table!SlotsOf(learned, a) : r = s
        BY <4>1 DEF Table!SlotsOf, HubInv, TableRight, Table!HubRoutesAssumption
      <4>3. Table!SlotsOf(learned, a) = {s}
        BY <4>1, <4>2
      <4>4. QED BY <4>3, FS_Singleton
    <3>3. QED BY <3>1, <3>2
  <2>3. Table!RoomForAll => Enough
    <3>1. DOMAIN learned = Slots
      BY DEF HubInv, TableRight
    <3>2. QED BY <3>1, SameCount DEF Table!RoomForAll, Enough
  <2>4. Enough => Table!OnlineIsHeard
    BY DEF HubInv, PeersRight, Enough, Table!OnlineIsHeard
  <2>5. QED BY <2>1, <2>2, <2>3, <2>4 DEF RoutesRight, Table!RoutesRight, HubInv, SentRight
<1>2. QED BY <1>1, HubInvInit, HubInvNext, PTL DEF Table!HubSpec

-----------------------------------------------------------------------------
(* The mesh as configured.  A frame only ever moves away from every node   *)
(* it has passed, because the links form a tree and every table entry, be  *)
(* it learned or static, leads towards its address.                        *)

\* What one end of a link can reach without it is closed under all other links,
\* and nothing smaller that has this end is.
LEMMA SideClosed ==
  ASSUME MeshAssumption, NEW x, NEW n, NEW p \in Side(x, n), NEW q,
         <<p, q>> \in Wired, {p, q} # {x, n}
  PROVE  q \in Side(x, n)
  BY DEF Side, MeshAssumption

LEMMA SideLeast ==
  ASSUME MeshAssumption, NEW x, NEW n, NEW S \in SUBSET Nodes, x \in S,
         \A p \in S, q \in Nodes : <<p, q>> \in Wired /\ {p, q} # {x, n} => q \in S
  PROVE  Side(x, n) \subseteq S
  BY DEF Side

\* The two ends of a link, each on its own side.
LEMMA SideEnds ==
  ASSUME MeshAssumption, NEW x, NEW n, <<x, n>> \in Wired
  PROVE  /\ x \in Nodes /\ n \in Nodes /\ <<n, x>> \in Wired /\ x # n
         /\ x \in Side(x, n) /\ n \notin Side(x, n) /\ Side(x, n) \subseteq Nodes
<1>1. x \in Nodes /\ n \in Nodes /\ <<n, x>> \in Wired /\ n \notin Side(x, n)
  BY DEF MeshAssumption
<1>2. x \in Side(x, n) /\ Side(x, n) \subseteq Nodes
  BY <1>1 DEF Side
<1>3. QED BY <1>1, <1>2

\* One link further, more is behind.
LEMMA SideGrows ==
  ASSUME MeshAssumption, NEW x, NEW n, NEW m,
         <<x, n>> \in Wired, <<n, m>> \in Wired, m # x
  PROVE  Side(x, n) \cup {n} \subseteq Side(n, m)
<1> DEFINE S == Side(x, n) \cap Side(n, m)
<1>1. n \in Side(n, m) /\ n \notin Side(x, n) /\ x # n
  BY SideEnds
<1>2. x \in S /\ S \subseteq Nodes
  <2>1. <<n, x>> \in Wired /\ {n, x} # {n, m}
    BY <1>1, SideEnds
  <2>2. x \in Side(n, m)
    BY <1>1, <2>1, SideClosed
  <2>3. QED BY <2>2, SideEnds
<1>3. ASSUME NEW p \in S, NEW q \in Nodes, <<p, q>> \in Wired, {p, q} # {x, n}
      PROVE  q \in S
  <2>1. q \in Side(x, n)
    BY <1>3, SideClosed
  <2>2. {p, q} # {n, m}
    BY <1>1, <2>1
  <2>3. QED BY <1>3, <2>1, <2>2, SideClosed
<1>4. Side(x, n) \subseteq S
  BY <1>2, <1>3, SideLeast
<1>5. QED BY <1>1, <1>4

\* Nothing is on both sides.
LEMMA SidesApart ==
  ASSUME MeshAssumption, NEW x, NEW n, <<x, n>> \in Wired
  PROVE  Side(x, n) \cap Side(n, x) = {}
<1> DEFINE S == Side(x, n) \ Side(n, x)
<1>1. x \in S /\ S \subseteq Nodes
  BY SideEnds
<1>2. ASSUME NEW p \in S, NEW q \in Nodes, <<p, q>> \in Wired, {p, q} # {x, n}
      PROVE  q \in S
  <2>1. q \in Side(x, n)
    BY <1>2, SideClosed
  <2>2. <<q, p>> \in Wired /\ {q, p} # {n, x}
    BY <1>2, SideEnds
  <2>3. q \notin Side(n, x)
    BY <1>2, <2>2, SideClosed
  <2>4. QED BY <2>1, <2>3
<1>3. Side(x, n) \subseteq S
  <2> HIDE DEF S
  <2>1. S \in SUBSET Nodes
    BY <1>1
  <2>2. QED BY <1>1, <1>2, <2>1, SideLeast
<1>4. QED BY <1>3

\* A leaf has nothing behind it.
LEMMA SideOfLeaf ==
  ASSUME MeshAssumption, NEW a \in Leaves, NEW m, <<a, m>> \in Wired
  PROVE  Side(a, m) = {a}
<1>1. a \in Side(a, m) /\ m \in Nodes /\ a \in Nodes
  BY SideEnds
<1>2. \A q \in Nodes : <<a, q>> \in Wired => q = m
  BY <1>1 DEF MeshAssumption
<1>3. \A p \in {a}, q \in Nodes : <<p, q>> \in Wired /\ {p, q} # {a, m} => q \in {a}
  BY <1>2
<1>4. PICK S \in SUBSET Nodes : S = {a} /\ a \in S
  BY <1>1
<1>5. Side(a, m) \subseteq S
  BY <1>3, <1>4, SideLeast
<1>6. QED BY <1>1, <1>4, <1>5

Carried == [src : Nodes, dst : Nodes \cup {All}, beat : BOOLEAN,
            trail : SUBSET Nodes]

\* A frame on a link has been on the near side of it only, and is for the far one.
OnCourse(l, f) ==
  /\ f \in Carried /\ l \in Wired
  /\ f.src \in f.trail /\ f.trail \subseteq Side(l[1], l[2])
  /\ f.beat <=> f.dst = All
  /\ f.dst \notin Side(l[1], l[2])

WiresRight(w) ==
  /\ w \in [Links -> Seq(Carried)]
  /\ \A l \in Links : \A i \in DOMAIN w[l] : OnCourse(l, w[l][i])

\* What n learned of a leads to a.
Leads(n, a, r) == r.via \in Nodes /\ <<n, r.via>> \in Wired /\ a \in Side(r.via, n)

TablesRight(t) ==
  /\ t \in [Learners -> [Nodes -> [via : Nodes, age : Nat] \cup {None}]]
  /\ \A n \in Learners, a \in Nodes : t[n][a] # None => Leads(n, a, t[n][a])

OnceConfigured ==
  /\ moved \in Nat
  /\ moved = 0 /\ at = Paired => WiresRight(wire) /\ TablesRight(heard)

\* A link that is plugged in is one of the tree's.
LEMMA PluggedIsLinked ==
  ASSUME MeshAssumption, at = Paired, NEW x, NEW y, <<x, y>> \in Links,
         Plugged(x, y)
  PROVE  <<x, y>> \in Wired
  BY DEF MeshAssumption, Links, Plugged, Wired

\* A frame that leaves x on course for each of ys spoils no wire.
LEMMA SentRightly ==
  ASSUME MeshAssumption, at = Paired, NEW w, WiresRight(w), NEW x, NEW ys, NEW f,
         \A y \in ys : <<x, y>> \in Wired =>
           OnCourse(<<x, y>>, [f EXCEPT !.trail = @ \cup {x}])
  PROVE  WiresRight(Sent(w, x, ys, f))
<1>1. PICK v, g : v = Sent(w, x, ys, f) /\ g = [f EXCEPT !.trail = @ \cup {x}]
  OBVIOUS
<1>2. \A l \in Links :
        v[l] = IF l[1] = x /\ l[2] \in ys /\ Plugged(x, l[2]) THEN Append(w[l], g) ELSE w[l]
  BY <1>1 DEF Sent
<1>3. ASSUME NEW l \in Links
      PROVE  v[l] \in Seq(Carried) /\ \A i \in DOMAIN v[l] : OnCourse(l, v[l][i])
  <2>1. w[l] \in Seq(Carried) /\ \A i \in DOMAIN w[l] : OnCourse(l, w[l][i])
    BY DEF WiresRight
  <2>2. CASE l[1] = x /\ l[2] \in ys /\ Plugged(x, l[2])
    <3>1. v[l] = Append(w[l], g)
      BY <1>2, <2>2
    <3>2. l = <<x, l[2]>>
      BY <2>2 DEF MeshAssumption, Links, Wired
    <3>3. OnCourse(l, g)
      BY <1>1, <2>2, <3>2, PluggedIsLinked
    <3>4. g \in Carried
      BY <3>3 DEF OnCourse
    <3>5. PICK s \in Seq(Carried) : s = w[l]
      BY <2>1
    <3>6. /\ Append(s, g) \in Seq(Carried) /\ DOMAIN Append(s, g) = 1 .. Len(s) + 1
          /\ DOMAIN s = 1 .. Len(s) /\ Len(s) \in Nat
          /\ Append(s, g)[Len(s) + 1] = g
          /\ \A i \in 1 .. Len(s) : Append(s, g)[i] = s[i]
      BY <3>4, <3>5
    <3>7. \A i \in 1 .. Len(s) + 1 : i \in 1 .. Len(s) \/ i = Len(s) + 1
      BY <3>6
    <3>8. QED BY <2>1, <3>1, <3>3, <3>5, <3>6, <3>7
  <2>3. CASE ~(l[1] = x /\ l[2] \in ys /\ Plugged(x, l[2]))
    BY <1>2, <2>1, <2>3
  <2>4. QED BY <2>2, <2>3
<1>4. v = [l \in Links |-> v[l]]
  BY <1>1 DEF Sent
<1>5. QED BY <1>1, <1>3, <1>4 DEF WiresRight

\* The first frame of a link leaves it, on course.
LEMMA TakenRightly ==
  ASSUME NEW w, WiresRight(w), NEW l \in Links, w[l] # <<>>
  PROVE  /\ OnCourse(l, Head(w[l]))
         /\ WiresRight([w EXCEPT ![l] = Tail(@)])
<1>1. PICK s \in Seq(Carried) : s = w[l] /\ s # <<>>
  BY DEF WiresRight
<1>2. /\ Len(s) \in Nat /\ Len(s) > 0 /\ DOMAIN s = 1 .. Len(s)
      /\ Head(s) = s[1] /\ Tail(s) \in Seq(Carried) /\ DOMAIN Tail(s) = 1 .. Len(s) - 1
      /\ \A i \in 1 .. Len(s) - 1 : Tail(s)[i] = s[i + 1]
  BY <1>1
<1>3. 1 \in 1 .. Len(s) /\ \A i \in 1 .. Len(s) - 1 : i + 1 \in 1 .. Len(s)
  BY <1>2
<1>4. OnCourse(l, Head(w[l]))
  BY <1>1, <1>2, <1>3 DEF WiresRight
<1>5. \A i \in DOMAIN Tail(s) : OnCourse(l, Tail(s)[i])
  BY <1>1, <1>2, <1>3 DEF WiresRight
<1>6. WiresRight([w EXCEPT ![l] = Tail(@)])
  BY <1>1, <1>2, <1>5 DEF WiresRight
<1>7. QED BY <1>4, <1>6

\* A frame that came from x has been on its side, and so is on course on every
\* other link of n if it is for everyone, and on the link that leads to its
\* address if it is not; that link is not the one it came by.
LEMMA PassedOn ==
  ASSUME MeshAssumption, NEW x, NEW n, NEW f, OnCourse(<<x, n>>, f), f.dst # n,
         NEW m, <<n, m>> \in Wired,
         (f.dst = All /\ m # x) \/ f.dst \in Side(m, n)
  PROVE  OnCourse(<<n, m>>, [f EXCEPT !.trail = @ \cup {n}])
<1>1. /\ f \in Carried /\ <<x, n>> \in Wired /\ f.src \in f.trail
      /\ f.trail \subseteq Side(x, n) /\ (f.beat <=> f.dst = All) /\ f.dst \notin Side(x, n)
  BY DEF OnCourse
<1>2. n \in Nodes /\ m \in Nodes /\ Side(n, m) \subseteq Nodes /\ All \notin Nodes
  BY SideEnds DEF MeshAssumption
<1>3. m # x
  BY <1>1, <1>2, SideEnds DEF MeshAssumption
<1>4. Side(x, n) \cup {n} \subseteq Side(n, m)
  BY <1>1, <1>3, SideGrows
<1>5. f.dst \notin Side(n, m)
  <2>1. CASE f.dst = All
    BY <1>2, <2>1
  <2>2. CASE f.dst \in Side(m, n)
    BY <2>2, SidesApart
  <2>3. QED BY <2>1, <2>2
<1>6. PICK g : g = [f EXCEPT !.trail = @ \cup {n}]
  OBVIOUS
<1>7. /\ g \in Carried /\ g.src = f.src /\ g.dst = f.dst /\ g.beat = f.beat
      /\ g.trail = f.trail \cup {n}
  BY <1>1, <1>2, <1>6 DEF Carried
<1>8. QED BY <1>1, <1>4, <1>5, <1>6, <1>7 DEF OnCourse

\* A frame of a node's own is on course on every link, if it is for everyone or
\* if the node is a leaf.
LEMMA OwnOnCourse ==
  ASSUME MeshAssumption, NEW a, NEW b \in Nodes \cup {All}, NEW m, <<a, m>> \in Wired,
         NEW beat \in BOOLEAN, beat <=> b = All, b = All \/ (a \in Leaves /\ a # b)
  PROVE  OnCourse(<<a, m>>, [Frame(a, b, beat) EXCEPT !.trail = @ \cup {a}])
<1>1. a \in Nodes /\ a \in Side(a, m) /\ Side(a, m) \subseteq Nodes /\ All \notin Nodes
  BY SideEnds DEF MeshAssumption
<1>2. b \notin Side(a, m)
  BY <1>1, SideOfLeaf
<1>3. PICK g : g = [Frame(a, b, beat) EXCEPT !.trail = @ \cup {a}]
  OBVIOUS
<1>4. g \in Carried /\ g.src = a /\ g.dst = b /\ g.beat = beat /\ g.trail = {a}
  BY <1>1, <1>3 DEF Frame, Carried
<1>5. QED BY <1>1, <1>2, <1>3, <1>4 DEF OnCourse

\* What a frame on course teaches is right, and forgetting spoils nothing.
LEMMA LearnedRightly ==
  ASSUME MeshAssumption, TablesRight(heard), NEW n \in Learners, NEW x, NEW f,
         OnCourse(<<x, n>>, f)
  PROVE  TablesRight(Learn(n, f, x))
<1>1. /\ f.src \in Nodes /\ x \in Nodes /\ <<n, x>> \in Wired
      /\ f.src \in Side(x, n)
  BY SideEnds DEF OnCourse
<1>2. PICK r : r = [via |-> x, age |-> 0]
  OBVIOUS
<1>3. r \in [via : Nodes, age : Nat] /\ Leads(n, f.src, r)
  BY <1>1, <1>2 DEF Leads
<1>4. Learn(n, f, x) \in {heard, [heard EXCEPT ![n][f.src] = r]}
  BY <1>2 DEF Learn
<1>5. TablesRight([heard EXCEPT ![n][f.src] = r])
  BY <1>1, <1>3 DEF TablesRight
<1>6. QED BY <1>4, <1>5

LEMMA ForgottenRightly ==
  ASSUME NEW t, TablesRight(t), NEW n \in Learners
  PROVE  /\ \A a : TablesRight(Deleted(t, n, a))
         /\ TablesRight([t EXCEPT ![n] = Expired(t[n])])
<1>1. ASSUME NEW a PROVE TablesRight(Deleted(t, n, a))
  <2>1. a \in Nodes => TablesRight([t EXCEPT ![n][a] = None])
    BY DEF TablesRight
  <2>2. QED BY <2>1 DEF Deleted
<1>2. PICK e : e = Expired(t[n])
  OBVIOUS
<1>3. e = [a \in Nodes |-> e[a]] /\ \A a \in Nodes : e[a] \in {t[n][a], None}
  BY <1>2 DEF Expired
<1>4. TablesRight([t EXCEPT ![n] = e])
  BY <1>3 DEF TablesRight
<1>5. QED BY <1>1, <1>2, <1>4

LEMMA OnceConfiguredInit == Init => OnceConfigured
<1> SUFFICES ASSUME Init PROVE OnceConfigured
  OBVIOUS
<1>1. wire \in [Links -> Seq(Carried)] /\ \A l \in Links : DOMAIN wire[l] = {}
  BY DEF Init
<1>2. WiresRight(wire)
  BY <1>1 DEF WiresRight
<1>3. TablesRight(heard)
  BY DEF Init, TablesRight
<1>4. QED BY <1>2, <1>3 DEF Init, OnceConfigured

\* A router that gets a frame on course sends it on course: away from where it
\* came if it is for everyone, and where its table or its configuration leads.
LEMMA RouterGetsRightly ==
  ASSUME MeshAssumption, at = Paired, TablesRight(heard), NEW n \in Routers, NEW x,
         NEW f, OnCourse(<<x, n>>, f), NEW w, WiresRight(w), RouterGets(n, x, f, w)
  PROVE  WiresRight(wire') /\ TablesRight(heard')
<1>1. n \in Learners /\ n \in Nodes /\ All \notin Nodes
  BY SideEnds DEF OnCourse, Learners, Nodes, MeshAssumption
<1>2. TablesRight(heard')
  <2>1. heard' = Deleted(Learn(n, f, x), n, f.dst)
    BY DEF RouterGets
  <2>2. QED BY <1>1, <2>1, LearnedRightly, ForgottenRightly
<1>3. CASE wire' = w
  BY <1>2, <1>3
<1>4. CASE f.dst = All /\ wire' = Sent(w, n, LinksOf(n) \ {x}, f)
  <2>1. ASSUME NEW y \in LinksOf(n) \ {x}, <<n, y>> \in Wired
        PROVE  OnCourse(<<n, y>>, [f EXCEPT !.trail = @ \cup {n}])
    BY <1>1, <1>4, <2>1, PassedOn
  <2>2. QED BY <1>2, <1>4, <2>1, SentRightly
<1>5. CASE /\ f.dst \notin {n, All}
           /\ wire' = Sent(w, n, {LinkName(n, f.dst)}, f)
  <2>1. PICK m : m = LinkName(n, f.dst)
    OBVIOUS
  <2>2. f.dst \in Nodes
    BY <1>5 DEF OnCourse, Carried
  <2>3. <<n, m>> \in Wired => f.dst \in Side(m, n)
    <3>1. CASE Fresh(n, f.dst)
      BY <1>1, <2>1, <2>2, <3>1 DEF Fresh, LinkName, TablesRight, Leads
    <3>2. CASE ~Fresh(n, f.dst)
      BY <1>5, <2>1, <2>2, <3>2 DEF LinkName, MeshAssumption
    <3>3. QED BY <3>1, <3>2
  <2>4. ASSUME NEW y \in {m}, <<n, y>> \in Wired
        PROVE  OnCourse(<<n, y>>, [f EXCEPT !.trail = @ \cup {n}])
    BY <1>5, <2>3, <2>4, PassedOn
  <2>5. QED BY <1>2, <1>5, <2>1, <2>4, SentRightly
<1>6. QED BY <1>2, <1>3, <1>4, <1>5 DEF RouterGets

\* So does the hub, whose own question for a way is for everyone.
LEMMA HubGetsRightly ==
  ASSUME MeshAssumption, at = Paired, TablesRight(heard), NEW x, NEW f,
         OnCourse(<<x, Hub>>, f), NEW w, WiresRight(w), HubGets(x, f, w)
  PROVE  WiresRight(wire') /\ TablesRight(heard')
<1>1. Hub \in Learners
  BY DEF Learners
<1>2. PICK known : known = Learn(Hub, f, x)
  OBVIOUS
<1>3. PICK routes : routes = Expired(known[Hub])
  OBVIOUS
<1>4. TablesRight(known)
  BY <1>1, <1>2, LearnedRightly
<1>5. TablesRight([known EXCEPT ![Hub] = routes])
  BY <1>1, <1>3, <1>4, ForgottenRightly
<1>6. CASE heard' = known /\ wire' = w
  BY <1>4, <1>6
<1>7. CASE /\ f.src # Hub /\ f.dst # Hub /\ ~f.beat
           /\ heard' = [known EXCEPT ![Hub] = routes]
           /\ IF routes[f.dst] # None
              THEN wire' = Sent(w, Hub, {routes[f.dst].via}, f)
              ELSE wire' \in {w, Sent(w, Hub, LinksOf(Hub), Frame(Hub, All, TRUE))}
  <2>1. f.dst \in Nodes
    BY <1>7 DEF OnCourse, Carried
  <2>2. CASE routes[f.dst] # None
    <3>1. PICK m : m = routes[f.dst].via
      OBVIOUS
    <3>2. routes[f.dst] = known[Hub][f.dst]
      BY <1>3, <2>1, <2>2 DEF Expired
    <3>3. f.dst \in Side(m, Hub)
      BY <1>1, <1>4, <2>1, <2>2, <3>1, <3>2 DEF TablesRight, Leads
    <3>4. ASSUME NEW y \in {m}, <<Hub, y>> \in Wired
          PROVE  OnCourse(<<Hub, y>>, [f EXCEPT !.trail = @ \cup {Hub}])
      BY <1>7, <3>3, <3>4, PassedOn
    <3>5. WiresRight(wire')
      BY <1>7, <2>2, <3>1, <3>4, SentRightly
    <3>6. QED BY <1>5, <1>7, <3>5
  <2>3. CASE routes[f.dst] = None
    <3>1. ASSUME NEW y \in LinksOf(Hub), <<Hub, y>> \in Wired
          PROVE  OnCourse(<<Hub, y>>, [Frame(Hub, All, TRUE) EXCEPT !.trail = @ \cup {Hub}])
      BY <3>1, OwnOnCourse
    <3>2. WiresRight(Sent(w, Hub, LinksOf(Hub), Frame(Hub, All, TRUE)))
      BY <3>1, SentRightly
    <3>3. QED BY <1>5, <1>7, <2>3, <3>2
  <2>4. QED BY <2>2, <2>3
<1>8. QED BY <1>2, <1>3, <1>6, <1>7 DEF HubGets

LEMMA OnceConfiguredNext ==
  MeshAssumption /\ OnceConfigured /\ [Next]_meshVars => OnceConfigured'
<1> SUFFICES ASSUME MeshAssumption, OnceConfigured, [Next]_meshVars
             PROVE  OnceConfigured'
  OBVIOUS
<1>1. CASE Move
  <2>1. moved \in Nat /\ moved' = moved + 1
    BY <1>1 DEF Move, OnceConfigured
  <2>2. moved' \in Nat /\ moved' # 0
    BY <2>1
  <2>3. QED BY <2>2 DEF OnceConfigured
<1>2. SUFFICES ASSUME moved' = moved, at' = at, moved = 0, at = Paired, Next
               PROVE  WiresRight(wire') /\ TablesRight(heard')
  <2>1. (moved' = moved /\ at' = at) \/ Move
    BY DEF Next, meshVars, Arrive, Beat, Talk, Pass
  <2>2. CASE UNCHANGED meshVars
    BY <2>2 DEF meshVars, OnceConfigured, WiresRight, TablesRight
  <2>3. QED BY <1>1, <1>2, <2>1, <2>2 DEF OnceConfigured
<1>3. WiresRight(wire) /\ TablesRight(heard)
  BY <1>2 DEF OnceConfigured
<1>4. ASSUME NEW l \in Links, Arrive(l[1], l[2])
      PROVE  WiresRight(wire') /\ TablesRight(heard')
  <2>1. PICK x, n : l = <<x, n>> /\ l[1] = x /\ l[2] = n
    BY DEF MeshAssumption, Links, Wired
  <2>2. PICK f, w : f = Head(wire[l]) /\ w = [wire EXCEPT ![l] = Tail(@)]
    OBVIOUS
  <2>3. wire[l] # <<>>
    BY <1>4, <2>1 DEF Arrive
  <2>4. OnCourse(<<x, n>>, f) /\ WiresRight(w)
    BY <1>3, <2>1, <2>2, <2>3, TakenRightly
  <2>5. CASE n \in Leaves
    BY <1>3, <1>4, <2>1, <2>2, <2>4, <2>5 DEF Arrive
  <2>6. CASE n \notin Leaves /\ n = Hub
    <3>1. HubGets(x, f, w)
      BY <1>4, <2>1, <2>2, <2>6 DEF Arrive
    <3>2. QED BY <1>2, <1>3, <2>4, <2>6, <3>1, HubGetsRightly
  <2>7. CASE n \notin Leaves /\ n # Hub
    <3>1. RouterGets(n, x, f, w)
      BY <1>4, <2>1, <2>2, <2>7 DEF Arrive
    <3>2. n \in Routers
      BY <2>4, <2>7, SideEnds DEF OnCourse, Nodes, Learners
    <3>3. QED BY <1>2, <1>3, <2>4, <3>1, <3>2, RouterGetsRightly
  <2>8. QED BY <2>5, <2>6, <2>7
<1>5. ASSUME NEW a \in Beaters, Beat(a)
      PROVE  WiresRight(wire') /\ TablesRight(heard')
  <2>1. ASSUME NEW y \in LinksOf(a), <<a, y>> \in Wired
        PROVE  OnCourse(<<a, y>>, [Frame(a, All, TRUE) EXCEPT !.trail = @ \cup {a}])
    BY <2>1, OwnOnCourse
  <2>2. wire' = Sent(wire, a, LinksOf(a), Frame(a, All, TRUE)) /\ heard' = heard
    BY <1>5 DEF Beat
  <2>3. QED BY <1>2, <1>3, <2>1, <2>2, SentRightly
<1>6. ASSUME NEW t \in Talks, Talk(t[1], t[2])
      PROVE  WiresRight(wire') /\ TablesRight(heard')
  <2>1. PICK a, b : a = t[1] /\ b = t[2]
    OBVIOUS
  <2>2. a \in Leaves /\ b \in Nodes /\ a # b /\ All \notin Nodes
    BY <2>1 DEF MeshAssumption
  <2>3. ASSUME NEW y \in LinksOf(a), <<a, y>> \in Wired
        PROVE  OnCourse(<<a, y>>, [Frame(a, b, FALSE) EXCEPT !.trail = @ \cup {a}])
    BY <2>2, <2>3, OwnOnCourse
  <2>4. wire' = Sent(wire, a, LinksOf(a), Frame(a, b, FALSE)) /\ heard' = heard
    BY <1>6, <2>1 DEF Talk
  <2>5. QED BY <1>2, <1>3, <2>3, <2>4, SentRightly
<1>7. CASE Pass
  <2>1. \A n \in Learners, a \in Nodes :
          heard'[n][a] = heard[n][a] \/
            (heard[n][a] # None /\ heard'[n][a] = [heard[n][a] EXCEPT !.age = @ + 1])
    BY <1>7 DEF Pass
  <2>2. \A n \in Learners, a \in Nodes :
          /\ heard'[n][a] \in [via : Nodes, age : Nat] \cup {None}
          /\ heard'[n][a] # None => Leads(n, a, heard'[n][a])
    <3> SUFFICES ASSUME NEW n \in Learners, NEW a \in Nodes, heard'[n][a] # None
                 PROVE  /\ heard'[n][a] \in [via : Nodes, age : Nat]
                        /\ Leads(n, a, heard'[n][a])
      OBVIOUS
    <3>1. PICK r : r = heard[n][a]
      OBVIOUS
    <3>2. r # None
      BY <2>1, <3>1
    <3>3. r \in [via : Nodes, age : Nat] /\ Leads(n, a, r)
      BY <1>3, <3>1, <3>2 DEF TablesRight
    <3>4. \A k \in Nat : k + 1 \in Nat
      OBVIOUS
    <3>5. PICK u : u = [r EXCEPT !.age = @ + 1]
      OBVIOUS
    <3>6. u \in [via : Nodes, age : Nat] /\ u.via = r.via
      BY <3>3, <3>4, <3>5
    <3>7. Leads(n, a, u)
      BY <3>3, <3>6 DEF Leads
    <3>8. heard'[n][a] \in {r, u}
      BY <2>1, <3>1, <3>5
    <3>9. QED BY <3>3, <3>6, <3>7, <3>8
  <2>3. heard' \in [Learners -> [Nodes -> [via : Nodes, age : Nat] \cup {None}]]
    <3>1. heard' = [n \in Learners |-> [a \in Nodes |-> heard'[n][a]]]
      BY <1>7 DEF Pass
    <3>2. QED BY <2>2, <3>1
  <2>4. QED BY <1>3, <1>7, <2>2, <2>3 DEF Pass, TablesRight
<1>8. ~Move
  BY <1>2 DEF Move
<1>9. QED BY <1>2, <1>4, <1>5, <1>6, <1>7, <1>8 DEF Next

\* While the mover is where it is configured to be, no frame comes back to a
\* node it has passed, in any tree of nodes, with any static routes that lead
\* along it and whatever is learned, forgotten and late.
THEOREM NoRevisitCorrect ==
  ASSUME MeshAssumption
  PROVE  MeshSpec => []PairedNoRevisit
<1>1. OnceConfigured => PairedNoRevisit
  <2> SUFFICES ASSUME OnceConfigured, moved = 0, at = Paired,
                      NEW l \in Links, NEW i \in DOMAIN wire[l]
               PROVE  l[2] \notin wire[l][i].trail
    BY DEF PairedNoRevisit, NoRevisit
  <2>1. OnCourse(l, wire[l][i])
    BY DEF OnceConfigured, WiresRight
  <2>2. PICK x, n : l = <<x, n>> /\ l[1] = x /\ l[2] = n
    BY DEF MeshAssumption, Links, Wired
  <2>3. QED BY <2>1, <2>2, SideEnds DEF OnCourse
<1>2. QED BY <1>1, OnceConfiguredInit, OnceConfiguredNext, PTL DEF MeshSpec

=============================================================================
