------------------------- MODULE VideoControlProofs -------------------------
(***************************************************************************)
(* What holds of VideoControl for any number of senders, retries, faults   *)
(* and skipped numbers: the switcher's invariant inside the composition,   *)
(* that the two endpoints implement CommandDelivery through every fault,   *)
(* and that without faults the stream of a settled sender is what its slot *)
(* asks for.                                                               *)
(***************************************************************************)
EXTENDS VideoControl, SourceSwitcherProofs, FiniteSetTheorems,
        WellFoundedInduction, SequenceTheorems

\* The strengthening of UnbrokenObeys, one part for each thing a fault can
\* break.  A sender that never connected was never told anything.
Untouched(a) ==
  /\ a \notin online /\ nextSeq[a] = 0 /\ lastCmd[a] = "none"
  /\ issued[a] = {} /\ downlink[a] = <<>> /\ uplink[a] = <<>>

\* No command is lost: what was issued was obeyed or is on the way, and the
\* sender obeys nothing that an older command has still to overtake.
NoneLost(a) ==
  /\ seen[a] \subseteq issued[a]
  /\ \A n \in issued[a] \ seen[a] : \E i \in DOMAIN downlink[a] : downlink[a][i].seq = n
OldestFirst(a) ==
  /\ \A n \in seen[a], m \in issued[a] : m < n => m \in seen[a]
  /\ \A i \in DOMAIN downlink[a] : \A m \in issued[a] \ seen[a] :
       m < downlink[a][i].seq => \E j \in 1..(i - 1) : downlink[a][j].seq = m

\* Every copy of the newest command carries what the switcher last said, and
\* the sender does what the newest command says once it has obeyed it.
NewestRules(a) ==
  /\ nextSeq[a] = 0 => lastCmd[a] = "none"
  /\ nextSeq[a] # 0 => nextSeq[a] \in issued[a]
  /\ \A i \in DOMAIN downlink[a] :
       downlink[a][i].seq = nextSeq[a] => downlink[a][i].cmd = lastCmd[a]
  /\ nextSeq[a] \in DOMAIN pending[a] => pending[a][nextSeq[a]].cmd = lastCmd[a]
  /\ nextSeq[a] \in seen[a] => transmitting[a] = (lastCmd[a] = "START")

Increasing(a) ==
  \A i, j \in DOMAIN applied[a] : i < j => applied[a][i] < applied[a][j]

Sound(a) ==
  /\ ~linked[a] => Untouched(a)
  /\ NoneLost(a) /\ OldestFirst(a) /\ NewestRules(a) /\ Increasing(a)

Unbroken == faults = 0 => \A a \in Senders : Sound(a)

-----------------------------------------------------------------------------
(* Listing pending numbers in the order of their issue.                    *)

\* A non-empty set of naturals has a least element.
LEMMA LeastNumber ==
  ASSUME NEW T \in SUBSET Nat, T # {}
  PROVE  \E x \in T : \A y \in T : x <= y
<1>1. PICK R : R = OpToRel(<, Nat)
  OBVIOUS
<1>2. IsWellFoundedOn(R, Nat)
  BY <1>1, NatLessThanWellFounded
<1>3. \E x \in T : \A y \in T : ~ (<<y, x>> \in R)
  BY <1>2, WFMin
<1>4. \A x, y \in Nat : y < x => <<y, x>> \in R
  BY <1>1 DEF OpToRel
<1>5. \A x, y \in Nat : y < x \/ x <= y
  OBVIOUS
<1>6. QED BY <1>3, <1>4, <1>5

\* A finite set of numbers that has a listing in increasing order.
Listable(S) ==
  /\ IsFiniteSet(S)
  /\ \E s \in [1..Cardinality(S) -> S] :
       \A i, j \in 1..Cardinality(S) : i < j => s[i] < s[j]

\* Every bounded set of numbers has one: the least bound without one would have
\* a listed set below it.
LEMMA AllListable ==
  ASSUME NEW S \in SUBSET Nat, NEW top \in Nat, \A x \in S : x <= top
  PROVE  Listable(S)
<1> DEFINE Below(n) == {x \in S : x < n}
           Bad == {n \in Nat : ~Listable(Below(n))}
<1>1. \A x, y \in Nat : /\ ~(x < 0) /\ ~(x < x)
                        /\ x < y + 1 <=> x < y \/ x = y
                        /\ x <= y => x < y + 1
  OBVIOUS
<1>2. ASSUME Bad # {} PROVE FALSE
  <2>1. PICK n \in Bad : \A m \in Bad : n <= m
    BY <1>2, LeastNumber
  <2>2. CASE n = 0
    <3>1. Below(0) = {} BY <1>1
    <3>2. IsFiniteSet({}) /\ Cardinality({}) = 0
      BY FS_EmptySet
    <3>3. <<>> \in [1..0 -> {}]
      OBVIOUS
    <3>4. Listable({})
      BY <3>2, <3>3 DEF Listable
    <3>5. QED BY <2>2, <3>1, <3>4
  <2>3. CASE n # 0
    <3>1. PICK m \in Nat : n = m + 1
      BY <2>3
    <3>2. Listable(Below(m))
      BY <2>1, <3>1
    <3>3. PICK B : B = Below(m)
      OBVIOUS
    <3>4. Below(n) = IF m \in S THEN B \cup {m} ELSE B
      <4>1. \A x \in S : x < n <=> x < m \/ x = m
        BY <1>1, <3>1
      <4>2. QED BY <3>3, <4>1
    <3>5. B \in SUBSET Nat /\ m \notin B /\ \A x \in B : x < m
      BY <1>1, <3>3
    <3>6. Listable(B)
      BY <3>2, <3>3
    <3>7. PICK s \in [1..Cardinality(B) -> B] :
            \A i, j \in 1..Cardinality(B) : i < j => s[i] < s[j]
      BY <3>6 DEF Listable
    <3>8. /\ IsFiniteSet(B \cup {m}) /\ Cardinality(B) \in Nat
          /\ Cardinality(B \cup {m}) = Cardinality(B) + 1
      BY <3>5, <3>6, FS_AddElement, FS_CardinalityType DEF Listable
    <3>9. PICK c \in Nat : c = Cardinality(B)
      BY <3>8
    <3> DEFINE t == [i \in 1..(c + 1) |-> IF i = c + 1 THEN m ELSE s[i]]
    <3>10. t \in [1..(c + 1) -> B \cup {m}]
      BY <3>7, <3>9
    <3>11. \A i, j \in 1..(c + 1) : i < j => t[i] < t[j]
      <4> SUFFICES ASSUME NEW i \in 1..(c + 1), NEW j \in 1..(c + 1), i < j
                   PROVE  t[i] < t[j]
        OBVIOUS
      <4>1. i \in 1..c /\ t[i] = s[i] /\ s[i] \in B
        BY <3>7, <3>9
      <4>2. CASE j = c + 1
        BY <3>5, <4>1, <4>2
      <4>3. CASE j # c + 1
        BY <3>7, <3>9, <4>1, <4>3
      <4>4. QED BY <4>2, <4>3
    <3>12. Listable(B \cup {m})
      <4> HIDE DEF t
      <4>1. QED BY <3>8, <3>9, <3>10, <3>11 DEF Listable
    <3>13. Listable(Below(n))
      BY <3>4, <3>6, <3>12
    <3>14. QED BY <2>1, <3>13
  <2>4. QED BY <2>2, <2>3
<1>3. PICK n \in Nat : n = top + 1
  OBVIOUS
<1>4. \A x \in S : x < n
  BY <1>1, <1>3
<1>5. Below(n) = S
  BY <1>4
<1>6. QED BY <1>2, <1>3, <1>5

\* InOrder lists a bounded set of numbers.
LEMMA InOrderOK ==
  ASSUME NEW S \in SUBSET Nat, NEW top \in Nat, \A x \in S : x <= top
  PROVE  /\ Cardinality(S) \in Nat
         /\ InOrder(S) \in [1..Cardinality(S) -> S]
<1>1. Listable(S)
  BY AllListable
<1>2. QED BY <1>1, FS_CardinalityType DEF Listable, InOrder

-----------------------------------------------------------------------------
(* What the endpoint does with the commands of a step.                     *)

\* What a reconcile step hands to the endpoint: commands for online senders
\* only, of which SenderLink remembers the last.
Commanded ==
  /\ sent' \in [Senders -> Seq(Commands)]
  /\ \A a \in Senders :
       /\ sent'[a] = <<>> => lastCmd'[a] = lastCmd[a]
       /\ sent'[a] # <<>> => a \in online /\ lastCmd'[a] = sent'[a][Len(sent'[a])]

\* Every handler's pass hands over its commands like that.
LEMMA HandlerCommands ==
  ASSUME Inv, NEW slots, HandlerReady(slots)
  PROVE  Commanded
<1>1. PassOK(Ended, registered', online) /\ ToldOK(Ended, Threading, online')
  BY HandlerPass DEF Pass
<1>2. sent' \in [Senders -> Seq(Commands)]
  BY HandlerOK DEF Inv, TypeOK
<1>3. QED BY <1>1, <1>2 DEF Commanded, PassOK, ToldOK, Ended, Threading

\* What a tick puts on the queue again: pending commands under their numbers.
LEMMA ResentOK ==
  ASSUME VideoTypeOK, NEW a \in Senders, NEW due
  PROVE  /\ Resent(a, due) \in Seq(Frames)
         /\ \A i \in DOMAIN Resent(a, due) :
              /\ Resent(a, due)[i].seq \in DOMAIN pending[a]
              /\ Resent(a, due)[i].cmd = pending[a][Resent(a, due)[i].seq].cmd
<1>1. PICK S : S = (DOMAIN pending[a] \cap due) \ Exhausted(a, due)
  OBVIOUS
<1>2. /\ S \subseteq DOMAIN pending[a] /\ nextSeq[a] \in Nat
      /\ \A n \in DOMAIN pending[a] : n \in Nat /\ n <= nextSeq[a]
      /\ \A n \in DOMAIN pending[a] : pending[a][n] \in Entries
  BY <1>1 DEF VideoTypeOK, ChannelOK
<1>3. Cardinality(S) \in Nat /\ InOrder(S) \in [1..Cardinality(S) -> S]
  <2>1. S \in SUBSET Nat /\ \A n \in S : n <= nextSeq[a]
    BY <1>2
  <2>2. QED BY <1>2, <2>1, InOrderOK
<1>4. PICK c \in Nat : \E again \in [1..c -> S] : again = InOrder(S)
  BY <1>3
<1>5. PICK again \in [1..c -> S] : again = InOrder(S)
  BY <1>4
<1>6. Resent(a, due) = [i \in 1..c |->
        [seq |-> again[i], cmd |-> pending[a][again[i]].cmd]]
  BY <1>1, <1>5 DEF Resent
<1>7. \A i \in 1..c : /\ again[i] \in DOMAIN pending[a] /\ again[i] \in Nat
                      /\ pending[a][again[i]].cmd \in Commands
  BY <1>2, <1>5 DEF Entries
<1>8. \A i \in 1..c : /\ Resent(a, due)[i] \in Frames
                      /\ Resent(a, due)[i].seq = again[i]
                      /\ Resent(a, due)[i].cmd = pending[a][again[i]].cmd
  BY <1>6, <1>7 DEF Frames
<1>9. DOMAIN Resent(a, due) = 1..c
  BY <1>6
<1>10. Resent(a, due) \in [1..c -> Frames]
  BY <1>6, <1>7 DEF Frames
<1>11. QED BY <1>7, <1>8, <1>9, <1>10

\* The numbers of the commands in s after n: above n, the last one the highest.
NewNumbers(new, n, skip, s) ==
  /\ new \in SUBSET Nat
  /\ \A k \in new : n < k /\ k <= n + skip + Len(s)
  /\ s = <<>> => new = {}
  /\ s # <<>> => n + skip + Len(s) \in new /\ n < n + skip + Len(s)
  /\ \A k \in new : k - n - skip \in DOMAIN s

\* The numbers of new commands come after every number issued before.
LEMMA NumbersOK ==
  ASSUME NEW n \in Nat, NEW skip \in Nat, NEW s \in Seq(Commands),
         NEW new, new = {n + skip + i : i \in DOMAIN s}
  PROVE  NewNumbers(new, n, skip, s)
<1>1. PICK len \in Nat : len = Len(s) /\ DOMAIN s = 1..len
  OBVIOUS
<1>2. \A i \in 1..len : /\ n + skip + i \in Nat /\ n < n + skip + i
                        /\ n + skip + i <= n + skip + len
                        /\ (n + skip + i) - n - skip = i
  OBVIOUS
<1>3. s # <<>> => len \in 1..len
  BY <1>1
<1>4. s = <<>> => DOMAIN s = {}
  OBVIOUS
<1>5. QED BY <1>1, <1>2, <1>3, <1>4 DEF NewNumbers

\* q is x with y behind it, a being the length of x.
Joined(q, x, y, a) ==
  /\ \A k \in DOMAIN x : k \in DOMAIN q /\ q[k] = x[k]
  /\ \A j \in DOMAIN y : a + j \in DOMAIN q /\ q[a + j] = y[j]
  /\ \A k \in DOMAIN q : k \in DOMAIN x \/ \E j \in DOMAIN y : k = a + j

\* Concatenation puts the second list behind the first.
LEMMA Behind ==
  ASSUME NEW F, NEW x \in Seq(F), NEW y \in Seq(F)
  PROVE  x \o y \in Seq(F) /\ Joined(x \o y, x, y, Len(x))
<1> DEFINE q == x \o y
<1>1. PICK a \in Nat, b \in Nat : a = Len(x) /\ b = Len(y)
  OBVIOUS
<1>2. DOMAIN x = 1..a /\ DOMAIN y = 1..b
  BY <1>1
<1>3. /\ q \in Seq(F) /\ Len(q) = a + b
      /\ \A i \in 1..(a + b) : q[i] = IF i <= a THEN x[i] ELSE y[i - a]
  BY <1>1, ConcatProperties
<1>4. DOMAIN q = 1..(a + b)
  BY <1>3
<1>5. /\ \A k \in 1..a : k \in 1..(a + b) /\ k <= a
      /\ \A j \in 1..b : a + j \in 1..(a + b) /\ ~(a + j <= a) /\ a + j - a = j
  OBVIOUS
<1>6. \A k \in 1..(a + b) : k \in 1..a \/ \E j \in 1..b : k = a + j
  <2> SUFFICES ASSUME NEW k \in 1..(a + b), k \notin 1..a PROVE \E j \in 1..b : k = a + j
    OBVIOUS
  <2>1. k - a \in 1..b /\ k = a + (k - a)
    OBVIOUS
  <2>2. QED BY <2>1
<1>7. \A k \in DOMAIN x : k \in DOMAIN q /\ q[k] = x[k]
  BY <1>2, <1>3, <1>4, <1>5
<1>8. \A j \in DOMAIN y : a + j \in DOMAIN q /\ q[a + j] = y[j]
  <2> SUFFICES ASSUME NEW j \in 1..b PROVE a + j \in 1..(a + b) /\ q[a + j] = y[j]
    BY <1>2, <1>4
  <2>1. a + j \in 1..(a + b) /\ ~(a + j <= a) /\ a + j - a = j
    BY <1>5
  <2>2. QED BY <1>3, <2>1
<1>9. \A k \in DOMAIN q : k \in DOMAIN x \/ \E j \in DOMAIN y : k = a + j
  BY <1>2, <1>4, <1>6
<1>10. q \in Seq(F)
  BY <1>3
<1>11. QED BY <1>1, <1>7, <1>8, <1>9, <1>10 DEF Joined

\* q is x with y and z behind it: where its elements come from, and that what
\* comes before an element of z in z comes before it in q.
Stacked(q, x, y, z) ==
  /\ \A k \in DOMAIN x : k \in DOMAIN q /\ q[k] = x[k]
  /\ \A k \in DOMAIN z : \E j \in DOMAIN q : q[j] = z[k]
  /\ \A k \in DOMAIN q :
       \/ k \in DOMAIN x /\ q[k] = x[k]
       \/ k > Len(x) /\ \E j \in DOMAIN y : q[k] = y[j]
       \/ /\ k > Len(x)
          /\ \E j \in DOMAIN z :
               /\ q[k] = z[j]
               /\ \A i \in 1..(j - 1) : \E l \in 1..(k - 1) : q[l] = z[i]

\* A queue with two more lists behind it: what is at its positions.
LEMMA ThreeParts ==
  ASSUME NEW F, NEW x \in Seq(F), NEW y \in Seq(F), NEW z \in Seq(F),
         NEW q, q = x \o y \o z
  PROVE  q \in Seq(F) /\ Stacked(q, x, y, z)
<1>1. PICK a \in Nat, b \in Nat, c \in Nat : a = Len(x) /\ b = Len(y) /\ c = Len(z)
  OBVIOUS
<1>2. /\ DOMAIN x = 1..a /\ DOMAIN y = 1..b /\ DOMAIN z = 1..c
  BY <1>1
<1>3. PICK xy : xy = x \o y
  OBVIOUS
<1>4. xy \in Seq(F) /\ Joined(xy, x, y, a)
  BY <1>1, <1>3, Behind
<1>5. /\ xy \in Seq(F)
      /\ \A k \in DOMAIN x : k \in DOMAIN xy /\ xy[k] = x[k]
      /\ \A j \in DOMAIN y : a + j \in DOMAIN xy /\ xy[a + j] = y[j]
      /\ \A k \in DOMAIN xy : k \in DOMAIN x \/ \E j \in DOMAIN y : k = a + j
  BY <1>4 DEF Joined
<1>6. Len(xy) = a + b
  BY <1>1, <1>3, ConcatProperties
<1>7. q = xy \o z
  BY <1>3
<1>8. q \in Seq(F) /\ Joined(q, xy, z, a + b)
  BY <1>4, <1>6, <1>7, Behind
<1>9. /\ q \in Seq(F)
      /\ \A k \in DOMAIN xy : k \in DOMAIN q /\ q[k] = xy[k]
      /\ \A j \in DOMAIN z : a + b + j \in DOMAIN q /\ q[a + b + j] = z[j]
      /\ \A k \in DOMAIN q : k \in DOMAIN xy \/ \E j \in DOMAIN z : k = a + b + j
  BY <1>8 DEF Joined
<1>10. \A k \in DOMAIN x : k \in DOMAIN q /\ q[k] = x[k]
  BY <1>5, <1>9
<1>11. \A k \in DOMAIN z : \E j \in DOMAIN q : q[j] = z[k]
  BY <1>9
<1>12. ASSUME NEW k \in DOMAIN q
       PROVE  \/ k \in DOMAIN x /\ q[k] = x[k]
              \/ k > a /\ \E j \in DOMAIN y : q[k] = y[j]
              \/ /\ k > a
                 /\ \E j \in DOMAIN z : /\ q[k] = z[j]
                                        /\ \A i \in 1..(j - 1) : \E l \in 1..(k - 1) : q[l] = z[i]
  <2>1. CASE k \in DOMAIN x
    BY <1>10, <2>1
  <2>2. ASSUME NEW j \in DOMAIN y, k = a + j
        PROVE  k > a /\ q[k] = y[j]
    <3>1. j \in 1..b
      BY <1>2
    <3>2. k > a
      BY <2>2, <3>1
    <3>3. q[k] = y[j]
      BY <1>5, <1>9, <2>2
    <3>4. QED BY <3>2, <3>3
  <2>3. ASSUME NEW j \in DOMAIN z, k = a + b + j
        PROVE  /\ k > a /\ q[k] = z[j]
               /\ \A i \in 1..(j - 1) : \E l \in 1..(k - 1) : q[l] = z[i]
    <3>1. j \in 1..c
      BY <1>2
    <3>2. k > a /\ \A i \in 1..(j - 1) : i \in 1..c /\ a + b + i \in 1..(k - 1)
      BY <2>3, <3>1
    <3>3. q[k] = z[j]
      BY <1>9, <2>3
    <3>4. \A i \in 1..(j - 1) : q[a + b + i] = z[i]
      BY <1>2, <1>9, <3>2
    <3>5. QED BY <3>2, <3>3, <3>4
  <2>4. k \in DOMAIN x \/ (\E j \in DOMAIN y : k = a + j) \/ \E j \in DOMAIN z : k = a + b + j
    BY <1>5, <1>9
  <2>5. QED BY <2>1, <2>2, <2>3, <2>4
<1>13. QED BY <1>1, <1>9, <1>10, <1>11, <1>12 DEF Stacked

-----------------------------------------------------------------------------
(* What one step of the endpoint does for a sender: new numbers above all  *)
(* earlier ones, those it gave up, and the commands it puts on the queue.  *)

NumbersGrow(a, new) ==
  /\ nextSeq'[a] \in Nat /\ new \in SUBSET Nat
  /\ \A k \in new : nextSeq[a] < k /\ k <= nextSeq'[a]
  /\ sent'[a] = <<>> => new = {} /\ nextSeq'[a] = nextSeq[a]
  /\ sent'[a] # <<>> => nextSeq'[a] \in new /\ nextSeq[a] < nextSeq'[a]
  /\ issued'[a] = issued[a] \cup new

\* Dictionary: what leaves it, what stays under its command, what comes in.
PendingGrows(a, new, gone) ==
  /\ gone \subseteq DOMAIN pending[a]
  /\ failed'[a] = failed[a] \cup gone
  /\ DOMAIN pending'[a] = (DOMAIN pending[a] \ gone) \cup new
  /\ pending'[a] \in [DOMAIN pending'[a] -> Entries]
  /\ \A n \in DOMAIN pending[a] \ (gone \cup new) :
       pending'[a][n].cmd = pending[a][n].cmd
  /\ sent'[a] # <<>> => pending'[a][nextSeq'[a]].cmd = sent'[a][Len(sent'[a])]

\* Queue: what was on it, pending commands again, and the new ones in order.
QueueGrows(a, new) ==
  /\ downlink'[a] \in Seq(Frames)
  /\ \A k \in DOMAIN downlink[a] :
       k \in DOMAIN downlink'[a] /\ downlink'[a][k] = downlink[a][k]
  /\ \A n \in new : \E j \in DOMAIN downlink'[a] : downlink'[a][j].seq = n
  /\ \A k \in DOMAIN downlink'[a] :
       \/ k \in DOMAIN downlink[a] /\ downlink'[a][k] = downlink[a][k]
       \/ /\ k > Len(downlink[a])
          /\ downlink'[a][k].seq \in DOMAIN pending[a]
          /\ downlink'[a][k].cmd = pending[a][downlink'[a][k].seq].cmd
       \/ /\ k > Len(downlink[a])
          /\ downlink'[a][k].seq \in new
          /\ \A m \in new : m < downlink'[a][k].seq =>
               \E l \in 1..(k - 1) : downlink'[a][l].seq = m
          /\ downlink'[a][k].seq = nextSeq'[a] =>
               downlink'[a][k].cmd = sent'[a][Len(sent'[a])]

Sends(a) ==
  \E new, gone \in SUBSET Nat :
    NumbersGrow(a, new) /\ PendingGrows(a, new, gone) /\ QueueGrows(a, new)

\* The new commands of a step as frames for the queue.
LEMMA IssuedOK ==
  ASSUME NEW a \in Senders, NEW skip \in Nat, nextSeq[a] \in Nat,
         sent'[a] \in Seq(Commands)
  PROVE  /\ Issued(a, skip) \in Seq(Frames)
         /\ DOMAIN Issued(a, skip) = DOMAIN sent'[a]
         /\ \A i \in DOMAIN sent'[a] :
              /\ Issued(a, skip)[i].seq = nextSeq[a] + skip + i
              /\ Issued(a, skip)[i].cmd = sent'[a][i]
<1>1. PICK n \in Nat : n = nextSeq[a]
  OBVIOUS
<1>2. PICK len \in Nat : len = Len(sent'[a]) /\ DOMAIN sent'[a] = 1..len
  OBVIOUS
<1>3. \A i \in 1..len : n + skip + i \in Nat /\ sent'[a][i] \in Commands
  BY <1>2
<1>4. PICK f : f = Issued(a, skip)
  OBVIOUS
<1>5. f = [i \in 1..len |-> [seq |-> n + skip + i, cmd |-> sent'[a][i]]]
  BY <1>1, <1>2, <1>4 DEF Issued
<1>6. f \in [1..len -> Frames]
  BY <1>3, <1>5 DEF Frames
<1>7. f \in Seq(Frames) /\ DOMAIN f = 1..len
  BY <1>6
<1>8. \A i \in 1..len : f[i].seq = n + skip + i /\ f[i].cmd = sent'[a][i]
  BY <1>5
<1>9. QED BY <1>1, <1>2, <1>4, <1>7, <1>8

\* Issue does to every sender what Sends says.
LEMMA IssueOK ==
  ASSUME VideoTypeOK, NEW skip \in Nat, NEW due, Issue(due, skip),
         sent' \in [Senders -> Seq(Commands)]
  PROVE  \A a \in Senders : Sends(a)
<1> SUFFICES ASSUME NEW a \in Senders PROVE Sends(a)
  OBVIOUS
<1>1. PICK n \in Nat, old \in SUBSET Nat : n = nextSeq[a] /\ old = DOMAIN pending[a]
  BY DEF VideoTypeOK, ChannelOK
<1>2. /\ \A k \in old : k \in 1..n
      /\ \A k \in old : pending[a][k] \in Entries
      /\ downlink[a] \in Seq(Frames)
  BY <1>1 DEF VideoTypeOK, ChannelOK
<1>3. sent'[a] \in Seq(Commands)
  OBVIOUS
<1>4. PICK len \in Nat : len = Len(sent'[a]) /\ DOMAIN sent'[a] = 1..len
  BY <1>3
<1>5. PICK new : new = Numbers(a, skip)
  OBVIOUS
<1>6. new = {n + skip + i : i \in DOMAIN sent'[a]}
  BY <1>1, <1>5 DEF Numbers
<1>7. NewNumbers(new, n, skip, sent'[a])
  BY <1>3, <1>6, NumbersOK
<1>8. /\ new \in SUBSET Nat
      /\ \A k \in new : n < k /\ k <= n + skip + len
      /\ sent'[a] = <<>> => new = {}
      /\ sent'[a] # <<>> => n + skip + len \in new /\ n < n + skip + len
      /\ \A k \in new : k - n - skip \in DOMAIN sent'[a]
  BY <1>4, <1>7 DEF NewNumbers
<1>9. PICK gone : gone = Exhausted(a, due[a])
  OBVIOUS
<1>10. gone \subseteq old /\ \A k \in old : k \notin gone /\ k \in due[a] => pending[a][k].tries # MaxTries
  BY <1>1, <1>9 DEF Exhausted
<1>11. /\ nextSeq'[a] = IF sent'[a] = <<>> THEN n ELSE n + skip + len
       /\ downlink'[a] = downlink[a] \o Resent(a, due[a]) \o Issued(a, skip)
       /\ pending'[a] = [k \in DOMAIN StillPending(a, due[a]) \cup new |->
            IF k \in new THEN Awaited(a, skip)[k] ELSE StillPending(a, due[a])[k]]
       /\ failed'[a] = failed[a] \cup gone
       /\ issued'[a] = issued[a] \cup new
  BY <1>1, <1>4, <1>5, <1>9 DEF Issue
<1>12. NumbersGrow(a, new)
  BY <1>1, <1>8, <1>11 DEF NumbersGrow
<1>13. PendingGrows(a, new, gone)
  <2>1. StillPending(a, due[a]) = [k \in old \ gone |->
          IF k \in due[a] THEN [pending[a][k] EXCEPT !.tries = @ + 1] ELSE pending[a][k]]
    BY <1>1, <1>9 DEF StillPending
  <2>2. \A k \in new : Awaited(a, skip)[k] =
          [cmd |-> sent'[a][k - n - skip], tries |-> 0]
    BY <1>1, <1>5 DEF Awaited
  <2>3. DOMAIN pending'[a] = (old \ gone) \cup new
    BY <1>11, <2>1
  <2>4. \A k \in new : /\ pending'[a][k] \in Entries
                       /\ pending'[a][k].cmd = sent'[a][k - n - skip]
    <3> SUFFICES ASSUME NEW k \in new
                 PROVE  /\ pending'[a][k] \in Entries
                        /\ pending'[a][k].cmd = sent'[a][k - n - skip]
      OBVIOUS
    <3>1. PICK c : c = sent'[a][k - n - skip]
      OBVIOUS
    <3>2. pending'[a][k] = [cmd |-> c, tries |-> 0]
      BY <1>11, <2>2, <2>3, <3>1
    <3>3. c \in Commands
      BY <1>3, <1>8, <3>1
    <3>4. 0 \in 0..MaxTries
      BY VideoAssumption
    <3>5. QED BY <3>1, <3>2, <3>3, <3>4 DEF Entries
  <2>5. \A k \in (old \ gone) \ new : /\ pending'[a][k] \in Entries
                                      /\ pending'[a][k].cmd = pending[a][k].cmd
    <3> SUFFICES ASSUME NEW k \in (old \ gone) \ new
                 PROVE  /\ pending'[a][k] \in Entries
                        /\ pending'[a][k].cmd = pending[a][k].cmd
      OBVIOUS
    <3>1. pending'[a][k] = IF k \in due[a] THEN [pending[a][k] EXCEPT !.tries = @ + 1]
                           ELSE pending[a][k]
      BY <1>11, <2>1
    <3>2. pending[a][k] \in Entries /\ MaxTries \in Nat
      BY <1>2, VideoAssumption
    <3>3. k \in due[a] => pending[a][k].tries # MaxTries
      BY <1>10
    <3>4. QED BY <3>1, <3>2, <3>3 DEF Entries
  <2>6. sent'[a] # <<>> => pending'[a][nextSeq'[a]].cmd = sent'[a][len]
    <3>1. (n + skip + len) - n - skip = len
      OBVIOUS
    <3>2. QED BY <1>8, <1>11, <2>4, <3>1
  <2>7. pending'[a] \in [DOMAIN pending'[a] -> Entries]
    <3>1. PICK f : f = pending'[a]
      OBVIOUS
    <3>2. \A k \in DOMAIN f : f[k] \in Entries
      BY <2>3, <2>4, <2>5, <3>1
    <3>3. f = [k \in DOMAIN f |-> f[k]]
      BY <1>11, <3>1
    <3>4. QED BY <3>1, <3>2, <3>3
  <2>8. QED BY <1>1, <1>4, <1>10, <1>11, <2>3, <2>5, <2>6, <2>7 DEF PendingGrows
<1>14. QueueGrows(a, new)
  <2>1. PICK again \in Seq(Frames), fresh \in Seq(Frames) :
          again = Resent(a, due[a]) /\ fresh = Issued(a, skip)
    BY <1>1, <1>3, IssuedOK, ResentOK
  <2>2. \A i \in DOMAIN again : /\ again[i].seq \in DOMAIN pending[a]
                                /\ again[i].cmd = pending[a][again[i].seq].cmd
    BY <2>1, ResentOK
  <2>3. /\ DOMAIN fresh = DOMAIN sent'[a]
         /\ \A i \in DOMAIN sent'[a] : /\ fresh[i].seq = nextSeq[a] + skip + i
                                      /\ fresh[i].cmd = sent'[a][i]
    BY <1>1, <1>3, <2>1, IssuedOK
  <2>4. /\ DOMAIN fresh = 1..len
        /\ \A i \in 1..len : /\ fresh[i].seq = n + skip + i
                             /\ fresh[i].cmd = sent'[a][i]
    BY <1>1, <1>4, <2>3
  <2>5. PICK q : q = downlink'[a]
    OBVIOUS
  <2>6. q = downlink[a] \o again \o fresh
    BY <1>11, <2>1, <2>5
  <2>7. q \in Seq(Frames) /\ Stacked(q, downlink[a], again, fresh)
    BY <1>2, <2>1, <2>6, ThreeParts
  <2>8. /\ q \in Seq(Frames)
        /\ \A k \in DOMAIN downlink[a] : k \in DOMAIN q /\ q[k] = downlink[a][k]
        /\ \A k \in DOMAIN fresh : \E j \in DOMAIN q : q[j] = fresh[k]
        /\ \A k \in DOMAIN q :
             \/ k \in DOMAIN downlink[a] /\ q[k] = downlink[a][k]
             \/ k > Len(downlink[a]) /\ \E j \in DOMAIN again : q[k] = again[j]
             \/ /\ k > Len(downlink[a])
                /\ \E j \in DOMAIN fresh :
                     /\ q[k] = fresh[j]
                     /\ \A i \in 1..(j - 1) : \E l \in 1..(k - 1) : q[l] = fresh[i]
    BY <2>7 DEF Stacked
  <2>9. \A m \in new : \E i \in 1..len : m = n + skip + i
    BY <1>4, <1>6
  <2>10. ASSUME NEW m \in new PROVE \E j \in DOMAIN q : q[j].seq = m
    <3>1. PICK i \in 1..len : m = n + skip + i
      BY <2>9
    <3>2. PICK j \in DOMAIN q : q[j] = fresh[i]
      BY <2>4, <2>8
    <3>3. QED BY <2>4, <3>1, <3>2
  <2>11. ASSUME NEW j \in 1..len, NEW k \in DOMAIN q, q[k] = fresh[j],
               \A i \in 1..(j - 1) : \E l \in 1..(k - 1) : q[l] = fresh[i]
        PROVE  /\ q[k].seq \in new
               /\ \A m \in new : m < q[k].seq => \E l \in 1..(k - 1) : q[l].seq = m
               /\ q[k].seq = nextSeq'[a] => q[k].cmd = sent'[a][len]
    <3>1. q[k].seq = n + skip + j /\ q[k].cmd = sent'[a][j]
      BY <2>4, <2>11
    <3>2. q[k].seq \in new
      BY <1>4, <1>6, <3>1
    <3>3. ASSUME NEW m \in new, m < q[k].seq
          PROVE  \E l \in 1..(k - 1) : q[l].seq = m
      <4>1. PICK i \in 1..len : m = n + skip + i
        BY <2>9
      <4>2. i \in 1..(j - 1)
        BY <3>1, <3>3, <4>1
      <4>3. PICK l \in 1..(k - 1) : q[l] = fresh[i]
        BY <2>11, <4>2
      <4>4. QED BY <2>4, <4>1, <4>3
    <3>4. q[k].seq = nextSeq'[a] => j = len
      <4>1. sent'[a] # <<>>
        BY <1>4
      <4>2. nextSeq'[a] = n + skip + len
        BY <1>11, <4>1
      <4>3. QED BY <3>1, <4>2
    <3>5. QED BY <3>1, <3>2, <3>3, <3>4
  <2>12. ASSUME NEW k \in DOMAIN q
         PROVE
           \/ k \in DOMAIN downlink[a] /\ q[k] = downlink[a][k]
           \/ /\ k > Len(downlink[a])
              /\ q[k].seq \in DOMAIN pending[a]
              /\ q[k].cmd = pending[a][q[k].seq].cmd
           \/ /\ k > Len(downlink[a])
              /\ q[k].seq \in new
              /\ \A m \in new : m < q[k].seq => \E l \in 1..(k - 1) : q[l].seq = m
              /\ q[k].seq = nextSeq'[a] => q[k].cmd = sent'[a][len]
    <3>1. CASE k \in DOMAIN downlink[a] /\ q[k] = downlink[a][k]
      BY <3>1
    <3>2. CASE k > Len(downlink[a]) /\ \E j \in DOMAIN again : q[k] = again[j]
      BY <2>2, <3>2
    <3>3. CASE /\ k > Len(downlink[a])
               /\ \E j \in DOMAIN fresh :
                    /\ q[k] = fresh[j]
                    /\ \A i \in 1..(j - 1) : \E l \in 1..(k - 1) : q[l] = fresh[i]
      <4>1. PICK j \in 1..len :
              /\ q[k] = fresh[j]
              /\ \A i \in 1..(j - 1) : \E l \in 1..(k - 1) : q[l] = fresh[i]
        BY <2>4, <3>3
      <4>2. QED BY <2>11, <3>3, <4>1
    <3>4. QED BY <2>8, <3>1, <3>2, <3>3
  <2>13. QED BY <1>4, <2>5, <2>8, <2>10, <2>12 DEF QueueGrows
<1>15. gone \in SUBSET Nat
  BY <1>1, <1>10
<1>16. QED BY <1>8, <1>12, <1>13, <1>14, <1>15 DEF Sends

-----------------------------------------------------------------------------
(* A step of the Controller that may issue commands.                       *)

SendStep ==
  /\ Commanded /\ \A a \in Senders : Sends(a)
  /\ nextSeq' = [a \in Senders |-> nextSeq'[a]]
  /\ issued' = [a \in Senders |-> issued'[a]]
  /\ failed' = [a \in Senders |-> failed'[a]]
  /\ downlink' = [a \in Senders |-> downlink'[a]]
  /\ pending' = [a \in Senders |-> pending'[a]]
  /\ online' \in SUBSET online
  /\ UNCHANGED <<uplink, linked, senderVars, faults, spent>>

\* Whatever switcher step the commands come from, Issue delivers them so.
LEMMA IssuesSend ==
  ASSUME Inv, VideoTypeOK, NEW slots, HandlerReady(slots),
         NEW skip \in Nat, NEW due, Issue(due, skip),
         UNCHANGED <<uplink, linked, senderVars, faults, spent>>
  PROVE  SendStep
<1>1. Commanded
  BY HandlerCommands
<1>2. \A a \in Senders : Sends(a)
  BY <1>1, IssueOK DEF Commanded
<1>3. /\ nextSeq' = [a \in Senders |-> nextSeq'[a]]
      /\ issued' = [a \in Senders |-> issued'[a]]
      /\ failed' = [a \in Senders |-> failed'[a]]
      /\ downlink' = [a \in Senders |-> downlink'[a]]
      /\ pending' = [a \in Senders |-> pending'[a]]
  BY DEF Issue
<1>4. online' \in SUBSET online
  BY DEF HandlerReady
<1>5. QED BY <1>1, <1>2, <1>3, <1>4 DEF SendStep

\* Ticks and requests are such steps.
LEMMA ControllerSends ==
  ASSUME Inv, VideoTypeOK, ControllerTick \/ Request
  PROVE  SendStep
<1>1. CASE ControllerTick
  <2>1. PICK lost \in SUBSET online, skip \in 0..MaxSkip :
          \E due \in [Senders -> SUBSET UNION {DOMAIN pending[a] : a \in Senders}] :
            /\ Tick(lost) /\ Issue(due, skip)
            /\ UNCHANGED <<uplink, linked, senderVars, faults, spent>>
    BY <1>1 DEF ControllerTick
  <2>2. PICK due : /\ Tick(lost) /\ Issue(due, skip)
                   /\ UNCHANGED <<uplink, linked, senderVars, faults, spent>>
    BY <2>1
  <2>3. skip \in Nat
    BY VideoAssumption
  <2>4. HandlerReady(Slots)
    BY <2>2, TickReady
  <2>5. QED BY <2>2, <2>3, <2>4, IssuesSend
<1>2. CASE Request
  <2>1. PICK skip \in 0..MaxSkip :
          /\ \/ \E slot \in Slots, src \in Sources : SetSource(slot, src)
             \/ \E requested \in [Slots -> Sources] : SetSources(requested)
          /\ Issue([a \in Senders |-> {}], skip)
          /\ UNCHANGED <<uplink, linked, senderVars, faults, spent>>
    BY <1>2 DEF Request
  <2>2. skip \in Nat
    BY VideoAssumption
  <2>3. \E slots : HandlerReady(slots)
    <3>1. CASE \E slot \in Slots, src \in Sources : SetSource(slot, src)
      BY <3>1, SetSourceReady
    <3>2. CASE \E requested \in [Slots -> Sources] : SetSources(requested)
      BY <3>2, SetSourcesReady
    <3>3. QED BY <2>1, <3>1, <3>2
  <2>4. PICK slots : HandlerReady(slots)
    BY <2>3
  <2>5. QED BY <2>1, <2>2, <2>4, IssuesSend
<1>3. QED BY <1>1, <1>2

\* Inside the composition the switcher takes its own steps, or starts anew.
LEMMA SwitcherSteps ==
  ASSUME [VideoNext]_videoVars
  PROVE  [Next]_vars \/ Init'
<1>1. CASE ControllerTick
  BY <1>1 DEF ControllerTick, Next
<1>2. CASE Request
  BY <1>2 DEF Request, Next
<1>3. CASE RestartController
  BY <1>3 DEF RestartController, Init
<1>4. ASSUME NEW a \in Senders, \/ Link(a) \/ Arrive(a)
                                \/ Break(a) \/ Swallow(a) \/ RestartSender(a)
      PROVE  [Next]_vars
  <2>1. CASE Deliver(a) \/ Relink(a) \/ Break(a) \/ Swallow(a) \/ RestartSender(a)
    BY <2>1 DEF Deliver, Relink, Break, Swallow, RestartSender
  <2>2. CASE ReceiveAck(a) \/ Arrive(a)
    BY <2>2 DEF ReceiveAck, Arrive, Next
  <2>3. QED BY <1>4, <2>1, <2>2 DEF Link
<1>5. CASE UNCHANGED videoVars
  BY <1>5 DEF videoVars
<1>6. QED BY <1>1, <1>2, <1>3, <1>4, <1>5 DEF VideoNext

-----------------------------------------------------------------------------
(* The type invariant.                                                     *)

\* What is left of a list without its head: everything else, one place up.
LEMMA TailFacts ==
  ASSUME NEW F, NEW s \in Seq(F), s # <<>>
  PROVE  /\ Head(s) \in F /\ Head(s) = s[1] /\ 1 \in DOMAIN s
         /\ Tail(s) \in Seq(F)
         /\ \A k \in DOMAIN Tail(s) : k + 1 \in DOMAIN s /\ Tail(s)[k] = s[k + 1]
         /\ \A k \in DOMAIN s : k # 1 =>
              k - 1 \in DOMAIN Tail(s) /\ Tail(s)[k - 1] = s[k]
<1>1. PICK n \in Nat : n = Len(s) /\ DOMAIN s = 1..n /\ n # 0
  OBVIOUS
<1>2. Tail(s) \in Seq(F) /\ DOMAIN Tail(s) = 1..(n - 1)
  BY <1>1
<1>3. \A k \in 1..(n - 1) : Tail(s)[k] = s[k + 1]
  BY <1>1
<1>4. /\ \A k \in 1..(n - 1) : k + 1 \in 1..n
      /\ \A k \in 1..n : k # 1 => k - 1 \in 1..(n - 1) /\ (k - 1) + 1 = k
  OBVIOUS
<1>5. Head(s) \in F /\ Head(s) = s[1] /\ 1 \in DOMAIN s
  BY <1>1
<1>6. \A k \in 1..n : k # 1 => Tail(s)[k - 1] = s[k]
  BY <1>3, <1>4
<1>7. QED BY <1>1, <1>2, <1>3, <1>4, <1>5, <1>6

\* t is the list s with x behind it.
Grown(t, s, x) ==
  /\ DOMAIN t = DOMAIN s \cup {Len(s) + 1}
  /\ \A i \in DOMAIN s : t[i] = s[i] /\ i < Len(s) + 1
  /\ t[Len(s) + 1] = x
  /\ {t[i] : i \in DOMAIN t} = {s[i] : i \in DOMAIN s} \cup {x}

\* A list with one more element holds it and what it held before.
LEMMA AppendElements ==
  ASSUME NEW F, NEW s \in Seq(F), NEW x \in F
  PROVE  Append(s, x) \in Seq(F) /\ Grown(Append(s, x), s, x)
<1>1. PICK n \in Nat : n = Len(s) /\ DOMAIN s = 1..n
  OBVIOUS
<1>2. PICK t : t = Append(s, x)
  OBVIOUS
<1>3. t \in Seq(F) /\ DOMAIN t = 1..(n + 1)
  BY <1>1, <1>2
<1>4. 1..(n + 1) = 1..n \cup {n + 1} /\ \A i \in 1..n : i < n + 1
  OBVIOUS
<1>5. \A i \in 1..n : t[i] = s[i]
  BY <1>1, <1>2
<1>6. t[n + 1] = x
  BY <1>1, <1>2
<1>7. {t[i] : i \in 1..n \cup {n + 1}} = {s[i] : i \in 1..n} \cup {x}
  BY <1>5, <1>6
<1>8. QED BY <1>1, <1>2, <1>3, <1>4, <1>5, <1>6, <1>7 DEF Grown

\* A step that issues commands keeps every channel consistent.
LEMMA SendsChannel ==
  ASSUME VideoTypeOK, SendStep, NEW a \in Senders
  PROVE  /\ nextSeq'[a] \in Nat /\ issued'[a] \in SUBSET Nat
         /\ failed'[a] \in SUBSET Nat /\ downlink'[a] \in Seq(Frames)
         /\ ChannelOK(a)'
<1>1. PICK new \in SUBSET Nat, gone \in SUBSET Nat :
        NumbersGrow(a, new) /\ PendingGrows(a, new, gone) /\ QueueGrows(a, new)
  BY DEF SendStep, Sends
<1>2. ChannelOK(a) /\ nextSeq[a] \in Nat /\ issued[a] \in SUBSET Nat
      /\ failed[a] \in SUBSET Nat
  BY DEF VideoTypeOK
<1>3. UNCHANGED <<uplink, seen, applied>>
  BY DEF SendStep, senderVars
<1>4. nextSeq'[a] \in Nat /\ nextSeq[a] <= nextSeq'[a] /\ issued'[a] = issued[a] \cup new
  BY <1>1, <1>2 DEF NumbersGrow
<1>5. \A n \in issued'[a] : n \in 1..nextSeq'[a]
  <2>1. \A n \in new : n \in Nat /\ nextSeq[a] < n /\ n <= nextSeq'[a]
    BY <1>1 DEF NumbersGrow
  <2>2. \A n \in issued[a] : n \in 1..nextSeq[a]
    BY <1>2 DEF ChannelOK
  <2>3. \A n, x, y \in Nat : /\ x < n /\ n <= y => n \in 1..y
                             /\ n \in 1..x /\ x <= y => n \in 1..y
    OBVIOUS
  <2>4. QED BY <1>2, <1>4, <2>1, <2>2, <2>3
<1>6. \A n \in new : n \notin issued[a]
  <2>1. \A n \in new : n \in Nat /\ nextSeq[a] < n
    BY <1>1 DEF NumbersGrow
  <2>2. \A n \in issued[a] : n \in 1..nextSeq[a]
    BY <1>2 DEF ChannelOK
  <2>3. \A n, x \in Nat : x < n => n \notin 1..x
    OBVIOUS
  <2>4. QED BY <1>2, <2>1, <2>2, <2>3
<1>7. /\ gone \subseteq DOMAIN pending[a] /\ failed'[a] = failed[a] \cup gone
      /\ DOMAIN pending'[a] = (DOMAIN pending[a] \ gone) \cup new
      /\ DOMAIN pending[a] \subseteq issued[a] \ failed[a]
      /\ failed[a] \subseteq issued[a]
  BY <1>1, <1>2 DEF PendingGrows, ChannelOK
<1>8. /\ DOMAIN pending'[a] \subseteq issued'[a] \ failed'[a]
      /\ failed'[a] \subseteq issued'[a]
  BY <1>4, <1>6, <1>7
<1>9. pending'[a] \in [DOMAIN pending'[a] -> Entries]
  BY <1>1 DEF PendingGrows
<1>10. downlink'[a] \in Seq(Frames) /\ \A i \in DOMAIN downlink'[a] : downlink'[a][i].seq \in issued'[a]
  BY <1>1, <1>2, <1>4, <1>7 DEF QueueGrows, ChannelOK
<1>11. /\ \A i \in DOMAIN uplink'[a] : uplink'[a][i] \in seen'[a]
       /\ seen'[a] = {applied'[a][i] : i \in DOMAIN applied'[a]}
  BY <1>2, <1>3 DEF ChannelOK
<1>12. issued'[a] \in SUBSET Nat /\ failed'[a] \in SUBSET Nat
  BY <1>1, <1>2, <1>4, <1>7
<1>13. QED BY <1>4, <1>5, <1>8, <1>9, <1>10, <1>11, <1>12 DEF ChannelOK

\* A sender takes the frame at the head of its queue.
LEMMA DeliverChannel ==
  ASSUME VideoTypeOK, NEW a \in Senders, Deliver(a)
  PROVE  VideoTypeOK'
<1>1. PICK q \in Seq(Frames), u \in Seq(Nat), p \in Seq(Nat) :
        q = downlink[a] /\ u = uplink[a] /\ p = applied[a]
  BY DEF VideoTypeOK
<1>2. q # <<>>
  BY <1>1 DEF Deliver
<1>3. /\ Head(q) \in Frames /\ Head(q) = q[1] /\ 1 \in DOMAIN q
      /\ Tail(q) \in Seq(Frames)
      /\ \A k \in DOMAIN Tail(q) : k + 1 \in DOMAIN q /\ Tail(q)[k] = q[k + 1]
  BY <1>2, TailFacts
<1>4. PICK n \in Nat : n = Head(q).seq
  BY <1>3 DEF Frames
<1>5. ChannelOK(a) /\ DOMAIN seen = Senders
  BY DEF VideoTypeOK
<1>6. /\ downlink' = [downlink EXCEPT ![a] = Tail(q)]
      /\ uplink' = [uplink EXCEPT ![a] = Append(u, n)]
      /\ UNCHANGED <<nextSeq, pending, failed, issued, linked, faults, spent>>
      /\ IF n \in seen[a] THEN UNCHANGED senderVars
         ELSE /\ seen' = [seen EXCEPT ![a] = @ \cup {n}]
              /\ applied' = [applied EXCEPT ![a] = Append(p, n)]
              /\ transmitting' = [transmitting EXCEPT ![a] = Head(q).cmd = "START"]
  BY <1>1, <1>4 DEF Deliver, Obey
<1>7. /\ downlink' \in [Senders -> Seq(Frames)] /\ uplink' \in [Senders -> Seq(Nat)]
      /\ applied' \in [Senders -> Seq(Nat)] /\ DOMAIN seen' = Senders
      /\ transmitting' \in [Senders -> BOOLEAN]
  <2>1. Append(u, n) \in Seq(Nat) /\ Append(p, n) \in Seq(Nat)
    OBVIOUS
  <2>2. (Head(q).cmd = "START") \in BOOLEAN
    OBVIOUS
  <2>3. QED BY <1>3, <1>6, <2>1, <2>2 DEF VideoTypeOK, senderVars
<1>8. ASSUME NEW b \in Senders, b # a PROVE ChannelOK(b)'
  <2>1. /\ downlink'[b] = downlink[b] /\ uplink'[b] = uplink[b]
        /\ seen'[b] = seen[b] /\ applied'[b] = applied[b]
    BY <1>6, <1>8 DEF VideoTypeOK, senderVars
  <2>2. ChannelOK(b)
    BY DEF VideoTypeOK
  <2>3. UNCHANGED <<nextSeq, pending, failed, issued>>
    BY <1>6
  <2>4. QED BY <2>1, <2>2, <2>3 DEF ChannelOK
<1>9. ChannelOK(a)'
  <2>1. downlink'[a] = Tail(q) /\ uplink'[a] = Append(u, n)
    BY <1>6 DEF VideoTypeOK
  <2>2. \A i \in DOMAIN downlink'[a] : downlink'[a][i].seq \in issued[a]
    BY <1>1, <1>3, <1>5, <2>1 DEF ChannelOK
  <2>3. /\ seen'[a] = seen[a] \cup {n}
        /\ seen'[a] = {applied'[a][i] : i \in DOMAIN applied'[a]}
    <3>1. CASE n \in seen[a]
      BY <1>5, <1>6, <3>1 DEF ChannelOK, senderVars
    <3>2. CASE n \notin seen[a]
      <4>1. PICK t : t = Append(p, n)
        OBVIOUS
      <4>2. Grown(t, p, n)
        BY <4>1, AppendElements
      <4>3. applied'[a] = t /\ seen'[a] = seen[a] \cup {n}
        BY <1>5, <1>6, <3>2, <4>1 DEF VideoTypeOK
      <4>4. seen[a] = {p[i] : i \in DOMAIN p}
        BY <1>1, <1>5 DEF ChannelOK
      <4>5. QED BY <4>2, <4>3, <4>4 DEF Grown
    <3>3. QED BY <3>1, <3>2
  <2>4. \A i \in DOMAIN uplink'[a] : uplink'[a][i] \in seen'[a]
    <3>1. PICK t : t = Append(u, n)
      OBVIOUS
    <3>2. Grown(t, u, n)
      BY <3>1, AppendElements
    <3>3. \A i \in DOMAIN u : u[i] \in seen[a]
      BY <1>1, <1>5 DEF ChannelOK
    <3>4. QED BY <2>1, <2>3, <3>1, <3>2, <3>3 DEF Grown
  <2>5. QED BY <1>5, <1>6, <2>2, <2>3, <2>4 DEF ChannelOK
<1>10. QED BY <1>6, <1>7, <1>8, <1>9 DEF VideoTypeOK

\* An acknowledgement takes its number off the pending ones.
LEMMA ReceiveAckChannel ==
  ASSUME VideoTypeOK, NEW a \in Senders, ReceiveAck(a)
  PROVE  VideoTypeOK'
<1>1. PICK u \in Seq(Nat) : u = uplink[a]
  BY DEF VideoTypeOK
<1>2. PICK f : f = [n \in DOMAIN pending[a] \ {Head(u)} |-> pending[a][n]]
  OBVIOUS
<1>3. u # <<>>
  BY <1>1 DEF ReceiveAck
<1>4. /\ Tail(u) \in Seq(Nat)
      /\ \A k \in DOMAIN Tail(u) : k + 1 \in DOMAIN u /\ Tail(u)[k] = u[k + 1]
  BY <1>3, TailFacts
<1>5. /\ pending' = [pending EXCEPT ![a] = f]
      /\ uplink' = [uplink EXCEPT ![a] = Tail(u)]
      /\ UNCHANGED <<nextSeq, failed, downlink, issued, linked, senderVars, faults, spent>>
  BY <1>1, <1>2 DEF ReceiveAck
<1>6. DOMAIN pending = Senders /\ uplink \in [Senders -> Seq(Nat)]
      /\ \A b \in Senders : ChannelOK(b)
  BY DEF VideoTypeOK
<1>7. ASSUME NEW b \in Senders, b # a PROVE ChannelOK(b)'
  <2>1. pending'[b] = pending[b] /\ uplink'[b] = uplink[b]
    BY <1>5, <1>6, <1>7
  <2>2. QED BY <1>5, <1>6, <2>1 DEF ChannelOK, senderVars
<1>8. ChannelOK(a)'
  <2>1. pending'[a] = f /\ uplink'[a] = Tail(u)
    BY <1>5, <1>6
  <2>2. f \in [DOMAIN f -> Entries] /\ DOMAIN f \subseteq issued[a] \ failed[a]
    <3>1. \A n \in DOMAIN f : n \in DOMAIN pending[a] /\ f[n] = pending[a][n]
      BY <1>2
    <3>2. f = [n \in DOMAIN f |-> f[n]]
      BY <1>2
    <3>3. \A n \in DOMAIN f : f[n] \in Entries
      BY <1>6, <3>1 DEF ChannelOK
    <3>4. QED BY <1>6, <3>1, <3>2, <3>3 DEF ChannelOK
  <2>3. \A i \in DOMAIN Tail(u) : Tail(u)[i] \in seen[a]
    BY <1>1, <1>4, <1>6 DEF ChannelOK
  <2>4. QED BY <1>5, <1>6, <2>1, <2>2, <2>3 DEF ChannelOK, senderVars
<1>9. DOMAIN pending' = Senders /\ uplink' \in [Senders -> Seq(Nat)]
  BY <1>4, <1>5, <1>6
<1>10. QED BY <1>5, <1>7, <1>8, <1>9 DEF VideoTypeOK, senderVars

\* A broken connection loses the head of a queue.
LEMMA SwallowChannel ==
  ASSUME VideoTypeOK, NEW a \in Senders, Swallow(a)
  PROVE  VideoTypeOK'
<1>1. PICK q \in Seq(Frames), u \in Seq(Nat) : q = downlink[a] /\ u = uplink[a]
  BY DEF VideoTypeOK
<1>2. /\ q # <<>> => /\ Tail(q) \in Seq(Frames)
                     /\ \A k \in DOMAIN Tail(q) : k + 1 \in DOMAIN q /\ Tail(q)[k] = q[k + 1]
      /\ u # <<>> => /\ Tail(u) \in Seq(Nat)
                     /\ \A k \in DOMAIN Tail(u) : k + 1 \in DOMAIN u /\ Tail(u)[k] = u[k + 1]
  BY TailFacts
<1>3. /\ UNCHANGED <<nextSeq, pending, failed, issued, linked, senderVars, faults, spent>>
      /\ \/ q # <<>> /\ downlink' = [downlink EXCEPT ![a] = Tail(q)] /\ uplink' = uplink
         \/ u # <<>> /\ uplink' = [uplink EXCEPT ![a] = Tail(u)] /\ downlink' = downlink
  BY <1>1 DEF Swallow
<1>4. \A b \in Senders : ChannelOK(b)
  BY DEF VideoTypeOK
<1>5. downlink' \in [Senders -> Seq(Frames)] /\ uplink' \in [Senders -> Seq(Nat)]
  BY <1>2, <1>3 DEF VideoTypeOK
<1>6. ASSUME NEW b \in Senders PROVE ChannelOK(b)'
  <2>1. /\ \/ downlink'[b] = downlink[b]
           \/ b = a /\ q # <<>> /\ downlink'[b] = Tail(q)
        /\ \/ uplink'[b] = uplink[b]
           \/ b = a /\ u # <<>> /\ uplink'[b] = Tail(u)
    BY <1>3 DEF VideoTypeOK
  <2>2. \A i \in DOMAIN downlink'[b] : downlink'[b][i].seq \in issued[b]
    <3>1. CASE downlink'[b] = downlink[b]
      BY <1>4, <3>1 DEF ChannelOK
    <3>2. CASE b = a /\ q # <<>> /\ downlink'[b] = Tail(q)
      BY <1>1, <1>2, <1>4, <3>2 DEF ChannelOK
    <3>3. QED BY <2>1, <3>1, <3>2
  <2>3. \A i \in DOMAIN uplink'[b] : uplink'[b][i] \in seen[b]
    <3>1. CASE uplink'[b] = uplink[b]
      BY <1>4, <3>1 DEF ChannelOK
    <3>2. CASE b = a /\ u # <<>> /\ uplink'[b] = Tail(u)
      BY <1>1, <1>2, <1>4, <3>2 DEF ChannelOK
    <3>3. QED BY <2>1, <3>1, <3>2
  <2>4. QED BY <1>3, <1>4, <2>2, <2>3 DEF ChannelOK, senderVars
<1>7. QED BY <1>3, <1>5, <1>6 DEF VideoTypeOK, senderVars

\* A restart of either process leaves its channels empty or consistent.
LEMMA RestartChannel ==
  ASSUME VideoTypeOK, (\E a \in Senders : RestartSender(a)) \/ RestartController
  PROVE  VideoTypeOK'
<1>1. faults' \in 0..MaxFaults
  BY VideoAssumption DEF VideoTypeOK, RestartSender, RestartController, Fault
<1>2. ASSUME NEW a \in Senders, RestartSender(a) PROVE VideoTypeOK'
  <2>1. /\ linked' \in [Senders -> BOOLEAN] /\ transmitting' \in [Senders -> BOOLEAN]
        /\ applied' \in [Senders -> Seq(Nat)] /\ uplink' \in [Senders -> Seq(Nat)]
        /\ DOMAIN seen' = Senders
    BY <1>2, VideoAssumption DEF VideoTypeOK, RestartSender
  <2>2. UNCHANGED <<nextSeq, pending, failed, downlink, issued, spent>>
    BY <1>2 DEF RestartSender, channelVars
  <2>3. ASSUME NEW b \in Senders PROVE ChannelOK(b)'
    <3>1. ChannelOK(b)
      BY DEF VideoTypeOK
    <3>2. CASE b = a
      <4>1. uplink'[b] = <<>> /\ seen'[b] = {} /\ applied'[b] = <<>>
        BY <1>2, <3>2 DEF RestartSender, VideoTypeOK
      <4>2. DOMAIN uplink'[b] = {} /\ DOMAIN applied'[b] = {}
        BY <4>1
      <4>3. QED BY <2>2, <3>1, <4>1, <4>2 DEF ChannelOK
    <3>3. CASE b # a
      <4>1. /\ uplink'[b] = uplink[b] /\ seen'[b] = seen[b]
            /\ applied'[b] = applied[b]
        BY <1>2, <3>3 DEF RestartSender, VideoTypeOK
      <4>2. QED BY <2>2, <3>1, <4>1 DEF ChannelOK
    <3>4. QED BY <3>2, <3>3
  <2>4. QED BY <1>1, <2>1, <2>2, <2>3 DEF VideoTypeOK
<1>3. ASSUME RestartController PROVE VideoTypeOK'
  <2>1. /\ nextSeq' = [a \in Senders |-> 0]
        /\ pending' = [a \in Senders |-> NothingPending]
        /\ failed' = [a \in Senders |-> {}] /\ issued' = [a \in Senders |-> {}]
        /\ downlink' = [a \in Senders |-> <<>>]
        /\ linked' = [a \in Senders |-> FALSE]
        /\ spent' = [a \in Senders |-> spent[a] + nextSeq[a]]
        /\ UNCHANGED <<uplink, seen, transmitting, applied>>
    BY <1>3 DEF RestartController, senderVars
  <2>2. /\ nextSeq' \in [Senders -> Nat] /\ spent' \in [Senders -> Nat]
        /\ issued' \in [Senders -> SUBSET Nat] /\ failed' \in [Senders -> SUBSET Nat]
        /\ downlink' \in [Senders -> Seq(Frames)] /\ DOMAIN pending' = Senders
        /\ linked' \in [Senders -> BOOLEAN]
    BY <2>1 DEF VideoTypeOK
  <2>3. NothingPending \in [{} -> Entries] /\ DOMAIN NothingPending = {}
    BY DEF NothingPending
  <2>4. ASSUME NEW a \in Senders PROVE ChannelOK(a)'
    <3>1. ChannelOK(a)
      BY DEF VideoTypeOK
    <3>2. /\ pending'[a] = NothingPending /\ issued'[a] = {} /\ failed'[a] = {}
          /\ downlink'[a] = <<>>
      BY <2>1
    <3>3. DOMAIN downlink'[a] = {}
      BY <3>2
    <3>4. QED BY <2>1, <2>3, <3>1, <3>2, <3>3 DEF ChannelOK
  <2>5. QED BY <1>1, <2>1, <2>2, <2>4 DEF VideoTypeOK
<1>4. QED BY <1>2, <1>3

\* Every step keeps the type invariant.
LEMMA VideoTypeStep ==
  ASSUME Inv, VideoTypeOK, [VideoNext]_videoVars
  PROVE  VideoTypeOK'
<1>1. CASE ControllerTick \/ Request
  <2>1. SendStep
    BY <1>1, ControllerSends
  <2>2. \A a \in Senders :
          /\ nextSeq'[a] \in Nat /\ issued'[a] \in SUBSET Nat
          /\ failed'[a] \in SUBSET Nat /\ downlink'[a] \in Seq(Frames)
          /\ ChannelOK(a)'
    BY <2>1, SendsChannel
  <2>3. /\ nextSeq' \in [Senders -> Nat] /\ issued' \in [Senders -> SUBSET Nat]
        /\ failed' \in [Senders -> SUBSET Nat]
        /\ downlink' \in [Senders -> Seq(Frames)] /\ DOMAIN pending' = Senders
    BY <2>1, <2>2 DEF SendStep
  <2>4. QED BY <2>1, <2>2, <2>3 DEF SendStep, VideoTypeOK, senderVars
<1>2. CASE RestartController \/ \E a \in Senders : RestartSender(a)
  BY <1>2, RestartChannel
<1>3. ASSUME NEW a \in Senders, Link(a) \/ Arrive(a) \/ Break(a) \/ Swallow(a)
      PROVE  VideoTypeOK'
  <2>1. CASE Deliver(a) \/ ReceiveAck(a) \/ Swallow(a)
    BY <2>1, DeliverChannel, ReceiveAckChannel, SwallowChannel
  <2>2. CASE Relink(a) \/ Arrive(a) \/ Break(a)
    <3>1. UNCHANGED <<channelVars, uplink, senderVars, spent>>
      BY <2>2 DEF Relink, Arrive, Break
    <3>2. linked' \in [Senders -> BOOLEAN]
      BY <2>2 DEF Relink, Arrive, Break, VideoTypeOK
    <3>3. faults' \in 0..MaxFaults
      BY <2>2, VideoAssumption DEF Relink, Arrive, Break, Fault, VideoTypeOK
    <3>4. \A b \in Senders : ChannelOK(b)'
      BY <3>1 DEF VideoTypeOK, ChannelOK, channelVars, senderVars
    <3>5. QED BY <3>1, <3>2, <3>3, <3>4 DEF VideoTypeOK, channelVars, senderVars
  <2>3. QED BY <1>3, <2>1, <2>2 DEF Link
<1>4. CASE UNCHANGED videoVars
  <2>1. UNCHANGED <<nextSeq, pending, failed, downlink, issued, uplink, linked,
                    seen, transmitting, applied, faults, spent>>
    BY <1>4 DEF videoVars, channelVars, senderVars
  <2>2. \A b \in Senders : ChannelOK(b)'
    BY <2>1 DEF VideoTypeOK, ChannelOK
  <2>3. QED BY <2>1, <2>2 DEF VideoTypeOK
<1>5. QED BY <1>1, <1>2, <1>3, <1>4 DEF VideoNext

\* Nothing has been sent when everything starts.
LEMMA VideoInitType == ChannelInit => VideoTypeOK
<1> SUFFICES ASSUME ChannelInit PROVE VideoTypeOK
  OBVIOUS
<1>1. NothingPending \in [{} -> Entries] /\ DOMAIN NothingPending = {}
  BY DEF NothingPending
<1>2. ASSUME NEW a \in Senders PROVE ChannelOK(a)
  <2>1. /\ pending[a] = NothingPending /\ issued[a] = {} /\ failed[a] = {}
        /\ downlink[a] = <<>> /\ uplink[a] = <<>> /\ seen[a] = {} /\ applied[a] = <<>>
    BY DEF ChannelInit
  <2>2. DOMAIN downlink[a] = {} /\ DOMAIN uplink[a] = {} /\ DOMAIN applied[a] = {}
    BY <2>1
  <2>3. QED BY <1>1, <2>1, <2>2 DEF ChannelOK
<1>3. QED BY <1>2, VideoAssumption DEF ChannelInit, VideoTypeOK

\* In the composition, through broken links and restarts of either process,
\* the switcher's invariant and the types hold in every state.
THEOREM VideoInvariant == VideoSpec => [](Inv /\ VideoTypeOK)
<1>1. VideoInit => Init /\ VideoTypeOK
  BY VideoInitType DEF VideoInit
<1>2. Init => Inv
  BY InitInv
<1>3. Inv /\ VideoTypeOK /\ [VideoNext]_videoVars => (Inv \/ Init)' /\ VideoTypeOK'
  <2> SUFFICES ASSUME Inv, VideoTypeOK, [VideoNext]_videoVars
               PROVE  (Inv' \/ Init') /\ VideoTypeOK'
    OBVIOUS
  <2>1. [Next]_vars \/ Init'
    BY SwitcherSteps
  <2>2. QED BY <2>1, NextInv, VideoTypeStep
<1>4. QED BY <1>1, <1>2, <1>3, PTL DEF VideoSpec

\* Every channel variable keeps its type, and the numbers pending, given up,
\* on the wire and obeyed stay consistent with those issued.
THEOREM VideoTypeCorrect == VideoSpec => []VideoTypeOK
  BY VideoInvariant, PTL

-----------------------------------------------------------------------------
(* The two endpoints implement CommandDelivery.                            *)

Open == [a \in Senders |-> DOMAIN pending[a]]

\* New numbers are none of those issued before.
LEMMA NewAreFresh ==
  ASSUME VideoTypeOK, NEW a \in Senders, NEW new, NumbersGrow(a, new)
  PROVE  \A n \in new : n \in Nat /\ n \notin issued[a] /\ nextSeq[a] < n
<1>1. \A n \in new : n \in Nat /\ nextSeq[a] < n
  BY DEF NumbersGrow
<1>2. nextSeq[a] \in Nat /\ \A n \in issued[a] : n \in 1..nextSeq[a]
  BY DEF VideoTypeOK, ChannelOK
<1>3. \A n, x \in Nat : x < n => n \notin 1..x
  OBVIOUS
<1>4. QED BY <1>1, <1>2, <1>3

\* A step of the Controller that issues, retries or gives up commands.
LEMMA SendsCommand ==
  ASSUME VideoTypeOK, SendStep
  PROVE  Delivery!Command
<1>1. ASSUME NEW a \in Senders
      PROVE  /\ issued[a] \subseteq issued'[a]
             /\ Open'[a] \subseteq Open[a] \cup (issued'[a] \ issued[a])
             /\ issued'[a] \ issued[a] \subseteq Open'[a]
             /\ failed'[a] = failed[a] \cup (Open[a] \ Open'[a])
  <2>1. PICK new \in SUBSET Nat, gone \in SUBSET Nat :
          NumbersGrow(a, new) /\ PendingGrows(a, new, gone)
    BY DEF SendStep, Sends
  <2>2. \A n \in new : n \notin issued[a]
    BY <2>1, NewAreFresh
  <2>3. /\ issued'[a] = issued[a] \cup new
        /\ gone \subseteq DOMAIN pending[a] /\ failed'[a] = failed[a] \cup gone
        /\ DOMAIN pending'[a] = (DOMAIN pending[a] \ gone) \cup new
    BY <2>1 DEF NumbersGrow, PendingGrows
  <2>4. DOMAIN pending[a] \subseteq issued[a]
    BY DEF VideoTypeOK, ChannelOK
  <2>5. Open[a] = DOMAIN pending[a] /\ Open'[a] = DOMAIN pending'[a]
    BY DEF Open
  <2>6. QED BY <2>2, <2>3, <2>4, <2>5
<1>2. UNCHANGED applied
  BY DEF SendStep, senderVars
<1>3. QED BY <1>1, <1>2 DEF Delivery!Command, Open

\* A sender that takes a frame obeys it if its number is new to it.
LEMMA DeliverActs ==
  ASSUME VideoTypeOK, NEW a \in Senders, Deliver(a)
  PROVE  \/ \E n \in issued[a] : Delivery!Act(a, n)
         \/ UNCHANGED <<issued, Open, failed, applied>>
<1>1. UNCHANGED <<issued, pending, failed>>
  BY DEF Deliver
<1>2. ChannelOK(a) /\ downlink[a] \in Seq(Frames) /\ downlink[a] # <<>>
  BY DEF VideoTypeOK, Deliver
<1>3. PICK n : n = Head(downlink[a]).seq
  OBVIOUS
<1>4. n \in issued[a]
  <2>1. Head(downlink[a]) = downlink[a][1] /\ 1 \in DOMAIN downlink[a]
    BY <1>2
  <2>2. QED BY <1>2, <1>3, <2>1 DEF ChannelOK
<1>5. CASE n \in seen[a]
  BY <1>1, <1>3, <1>5 DEF Deliver, senderVars, Open
<1>6. CASE n \notin seen[a]
  <2>1. applied' = [applied EXCEPT ![a] = Append(@, n)]
    BY <1>3, <1>6 DEF Deliver, Obey
  <2>2. n \notin Delivery!Obeyed(a)
    BY <1>2, <1>6 DEF ChannelOK, Delivery!Obeyed
  <2>3. Delivery!Act(a, n)
    BY <1>1, <1>4, <2>1, <2>2 DEF Delivery!Act
  <2>4. QED BY <1>4, <2>3
<1>7. QED BY <1>5, <1>6

\* An acknowledgement closes a command that was obeyed, or nothing.
LEMMA AckConfirms ==
  ASSUME VideoTypeOK, NEW a \in Senders, ReceiveAck(a)
  PROVE  \/ \E n \in issued[a] : Delivery!Confirm(a, n)
         \/ UNCHANGED <<issued, Open, failed, applied>>
<1>1. UNCHANGED <<issued, failed, applied>>
  BY DEF ReceiveAck, senderVars
<1>2. ChannelOK(a) /\ uplink[a] \in Seq(Nat) /\ uplink[a] # <<>>
  BY DEF VideoTypeOK, ReceiveAck
<1>3. PICK n : n = Head(uplink[a])
  OBVIOUS
<1>4. n \in seen[a]
  <2>1. Head(uplink[a]) = uplink[a][1] /\ 1 \in DOMAIN uplink[a]
    BY <1>2
  <2>2. QED BY <1>2, <1>3, <2>1 DEF ChannelOK
<1>5. \A b \in Senders : DOMAIN pending'[b] =
        IF b = a THEN DOMAIN pending[a] \ {n} ELSE DOMAIN pending[b]
  BY <1>3 DEF ReceiveAck, VideoTypeOK
<1>6. Open' = [Open EXCEPT ![a] = @ \ {n}]
  BY <1>5 DEF Open
<1>7. CASE n \in DOMAIN pending[a]
  <2>1. n \in Delivery!Obeyed(a) /\ n \in issued[a]
    BY <1>2, <1>4, <1>7 DEF ChannelOK, Delivery!Obeyed
  <2>2. Delivery!Confirm(a, n)
    BY <1>1, <1>6, <1>7, <2>1 DEF Delivery!Confirm, Open
  <2>3. QED BY <2>1, <2>2
<1>8. CASE n \notin DOMAIN pending[a]
  BY <1>1, <1>6, <1>8 DEF Open
<1>9. QED BY <1>7, <1>8

\* Every step of the composition is one of CommandDelivery, or none.
LEMMA DeliveryStep ==
  ASSUME Inv, VideoTypeOK, [VideoNext]_videoVars
  PROVE  Delivery!Next \/ UNCHANGED <<issued, Open, failed, applied>>
<1>1. CASE ControllerTick \/ Request
  BY <1>1, ControllerSends, SendsCommand DEF Delivery!Next
<1>2. CASE RestartController
  <2>1. DOMAIN NothingPending = {}
    BY DEF NothingPending
  <2>2. Delivery!ControllerForgets
    BY <1>2, <2>1 DEF RestartController, Delivery!ControllerForgets, senderVars
  <2>3. QED BY <2>2 DEF Delivery!Next
<1>3. ASSUME NEW a \in Senders, Link(a) \/ Arrive(a) \/ Break(a) \/ Swallow(a)
      PROVE  Delivery!Next \/ UNCHANGED <<issued, Open, failed, applied>>
  <2>1. CASE Deliver(a)
    BY <2>1, DeliverActs DEF Delivery!Next
  <2>2. CASE ReceiveAck(a)
    BY <2>2, AckConfirms DEF Delivery!Next
  <2>3. CASE Relink(a) \/ Arrive(a) \/ Break(a) \/ Swallow(a)
    BY <2>3 DEF Relink, Arrive, Break, Swallow, channelVars, senderVars, Open
  <2>4. QED BY <1>3, <2>1, <2>2, <2>3 DEF Link
<1>4. ASSUME NEW a \in Senders, RestartSender(a) PROVE Delivery!Next
  <2>1. Delivery!SenderForgets(a)
    BY <1>4 DEF RestartSender, Delivery!SenderForgets, channelVars
  <2>2. QED BY <2>1 DEF Delivery!Next
<1>5. CASE UNCHANGED videoVars
  BY <1>5 DEF videoVars, channelVars, senderVars, Open
<1>6. QED BY <1>1, <1>2, <1>3, <1>4, <1>5 DEF VideoNext

\* The endpoints implement the abstract delivery through broken connections
\* and restarts of either process.
THEOREM DeliveryCorrect == VideoSpec => DeliversOnce
<1>1. VideoInit => Delivery!Init
  BY DEF VideoInit, ChannelInit, Delivery!Init, NothingPending
<1>2. Inv /\ VideoTypeOK /\ [VideoNext]_videoVars
        => [Delivery!Next]_(Delivery!deliveryVars)
  BY DeliveryStep DEF Delivery!deliveryVars, Open
<1>3. QED BY <1>1, <1>2, VideoInvariant, PTL
          DEF VideoSpec, DeliversOnce, Delivery!Spec

-----------------------------------------------------------------------------
(* Without faults, what a sender does is what it was told last.            *)

\* Retries and new commands: nothing is overtaken, and a sender that never
\* connected is told nothing.
LEMMA SendsSound ==
  ASSUME VideoTypeOK, SendStep, NEW a \in Senders, Sound(a)
  PROVE  Sound(a)'
<1>1. PICK new \in SUBSET Nat, gone \in SUBSET Nat :
        NumbersGrow(a, new) /\ PendingGrows(a, new, gone) /\ QueueGrows(a, new)
  BY DEF SendStep, Sends
<1>2. \A n \in new : n \in Nat /\ n \notin issued[a] /\ nextSeq[a] < n
  BY <1>1, NewAreFresh
<1>3. /\ seen[a] \subseteq issued[a] /\ DOMAIN pending[a] \subseteq issued[a]
      /\ nextSeq[a] \in Nat
      /\ \A n \in issued[a] : n \in Nat /\ n <= nextSeq[a]
      /\ \A i \in DOMAIN downlink[a] : downlink[a][i].seq \in issued[a]
  BY DEF VideoTypeOK, ChannelOK, Sound, NoneLost
<1>4. issued'[a] = issued[a] \cup new
  BY <1>1 DEF NumbersGrow
<1>5. UNCHANGED <<uplink, linked, seen, transmitting, applied>>
  BY DEF SendStep, senderVars
<1>6. \A m, n \in Nat : /\ nextSeq[a] < m /\ n <= nextSeq[a] => ~(m < n) /\ m # n
                        /\ m < n \/ n < m \/ m = n
  BY <1>3
<1>7. /\ \A k \in DOMAIN downlink[a] :
           k \in DOMAIN downlink'[a] /\ downlink'[a][k] = downlink[a][k]
      /\ \A n \in new : \E j \in DOMAIN downlink'[a] : downlink'[a][j].seq = n
  BY <1>1 DEF QueueGrows
<1>8. ASSUME ~linked[a] PROVE Untouched(a)'
  <2>1. Untouched(a)
    BY <1>8 DEF Sound
  <2>2. sent'[a] = <<>> /\ lastCmd'[a] = lastCmd[a] /\ a \notin online'
    BY <2>1 DEF Untouched, SendStep, Commanded
  <2>3. new = {} /\ nextSeq'[a] = 0 /\ issued'[a] = {}
    BY <1>1, <2>1, <2>2 DEF Untouched, NumbersGrow
  <2>4. DOMAIN downlink'[a] = {}
    <3>1. DOMAIN downlink[a] = {} /\ DOMAIN pending[a] = {}
      BY <1>3, <2>1 DEF Untouched
    <3>2. QED BY <1>1, <2>3, <3>1 DEF QueueGrows
  <2>5. downlink'[a] = <<>>
    <3>1. PICK q \in Seq(Frames) : q = downlink'[a]
      BY <1>1 DEF QueueGrows
    <3>2. Len(q) \in Nat /\ DOMAIN q = 1..Len(q) /\ DOMAIN q = {}
      BY <2>4, <3>1
    <3>3. 1 \notin 1..Len(q)
      BY <3>2
    <3>4. Len(q) = 0
      BY <3>2, <3>3
    <3>5. QED BY <3>1, <3>4
  <2>6. QED BY <1>5, <2>1, <2>2, <2>3, <2>5 DEF Untouched
<1>9. NoneLost(a)'
  <2>1. \A n \in issued[a] \ seen[a] : \E i \in DOMAIN downlink[a] : downlink[a][i].seq = n
    BY DEF Sound, NoneLost
  <2>2. QED BY <1>3, <1>4, <1>5, <1>7, <2>1 DEF NoneLost
<1>10. OldestFirst(a)'
  <2>1. ASSUME NEW n \in seen[a], NEW m \in issued'[a], m < n PROVE m \in seen[a]
    <3>1. CASE m \in issued[a]
      BY <2>1, <3>1 DEF Sound, OldestFirst
    <3>2. CASE m \in new
      BY <1>2, <1>3, <1>6, <2>1, <3>2
    <3>3. QED BY <1>4, <3>1, <3>2
  <2>2. ASSUME NEW k \in DOMAIN downlink'[a], NEW m \in issued'[a] \ seen[a],
               m < downlink'[a][k].seq
        PROVE  \E j \in 1..(k - 1) : downlink'[a][j].seq = m
    <3>1. PICK len \in Nat : len = Len(downlink[a]) /\ DOMAIN downlink[a] = 1..len
      <4>1. downlink[a] \in Seq(Frames)
        BY DEF VideoTypeOK
      <4>2. QED BY <4>1
    <3>2. \A x \in issued[a] : m < x => m \in issued[a]
      BY <1>2, <1>3, <1>4, <1>6
    <3>3. k \in Nat
      BY <1>1 DEF QueueGrows
    <3>4. ASSUME k > len, m \in issued[a]
          PROVE  \E j \in 1..(k - 1) : downlink'[a][j].seq = m
      <4>1. PICK j \in 1..len : downlink[a][j].seq = m
        BY <3>1, <3>4, <2>2 DEF Sound, NoneLost
      <4>2. j \in 1..(k - 1)
        BY <3>3, <3>4
      <4>3. QED BY <1>7, <3>1, <4>1, <4>2
    <3>5. CASE k \in DOMAIN downlink[a] /\ downlink'[a][k] = downlink[a][k]
      <4>1. m \in issued[a]
        BY <1>3, <2>2, <3>5, <3>2
      <4>2. PICK j \in 1..(k - 1) : downlink[a][j].seq = m
        BY <2>2, <3>5, <4>1 DEF Sound, OldestFirst
      <4>3. j \in 1..len
        BY <3>1, <3>5
      <4>4. QED BY <1>7, <3>1, <4>2, <4>3
    <3>6. CASE k > Len(downlink[a]) /\ downlink'[a][k].seq \in DOMAIN pending[a]
      <4>1. m \in issued[a]
        BY <1>3, <2>2, <3>6, <3>2
      <4>2. QED BY <3>1, <3>4, <3>6, <4>1
    <3>7. CASE /\ k > Len(downlink[a])
               /\ \A l \in new : l < downlink'[a][k].seq =>
                    \E j \in 1..(k - 1) : downlink'[a][j].seq = l
      BY <1>4, <2>2, <3>1, <3>4, <3>7
    <3>8. QED BY <1>1, <3>5, <3>6, <3>7 DEF QueueGrows
  <2>3. QED BY <1>5, <2>1, <2>2 DEF OldestFirst
<1>11. NewestRules(a)'
  <2>1. NewestRules(a)
    BY DEF Sound
  <2>2. CASE sent'[a] = <<>>
    <3>1. new = {} /\ nextSeq'[a] = nextSeq[a] /\ lastCmd'[a] = lastCmd[a]
      BY <1>1, <2>2 DEF NumbersGrow, SendStep, Commanded
    <3>2. \A i \in DOMAIN downlink'[a] :
            downlink'[a][i].seq = nextSeq[a] => downlink'[a][i].cmd = lastCmd[a]
      BY <1>1, <2>1, <3>1 DEF QueueGrows, NewestRules
    <3>3. nextSeq[a] \in DOMAIN pending'[a] => pending'[a][nextSeq[a]].cmd = lastCmd[a]
      BY <1>1, <2>1, <3>1 DEF PendingGrows, NewestRules
    <3>4. QED BY <1>4, <1>5, <2>1, <3>1, <3>2, <3>3 DEF NewestRules
  <2>3. CASE sent'[a] # <<>>
    <3>1. PICK n \in Nat : n = nextSeq'[a]
      BY <1>1 DEF NumbersGrow
    <3>2. /\ n \in new /\ lastCmd'[a] = sent'[a][Len(sent'[a])]
      BY <1>1, <2>3, <3>1 DEF NumbersGrow, SendStep, Commanded
    <3>3. n # 0 /\ n \notin issued[a]
      BY <1>2, <1>3, <3>2
    <3>4. \A i \in DOMAIN downlink'[a] :
            downlink'[a][i].seq = n => downlink'[a][i].cmd = lastCmd'[a]
      BY <1>1, <1>3, <3>1, <3>2, <3>3 DEF QueueGrows
    <3>5. pending'[a][n].cmd = lastCmd'[a]
      BY <1>1, <2>3, <3>1, <3>2 DEF PendingGrows
    <3>6. n \notin seen[a]
      BY <1>3, <3>3
    <3>7. QED BY <1>4, <1>5, <3>1, <3>2, <3>3, <3>4, <3>5, <3>6 DEF NewestRules
  <2>4. QED BY <2>2, <2>3
<1>12. Increasing(a)'
  BY <1>5 DEF Sound, Increasing
<1>13. QED BY <1>5, <1>8, <1>9, <1>10, <1>11, <1>12 DEF Sound

\* A sender that takes the oldest frame obeys in the order of the numbers, and
\* does what the newest command says when it has come to that one.
LEMMA DeliverSound ==
  ASSUME VideoTypeOK, NEW a \in Senders, Sound(a), Deliver(a)
  PROVE  Sound(a)'
<1>1. PICK q \in Seq(Frames), p \in Seq(Nat) : q = downlink[a] /\ p = applied[a]
  BY DEF VideoTypeOK
<1>2. q # <<>> /\ linked[a]
  BY <1>1 DEF Deliver
<1>3. /\ Head(q) \in Frames /\ Head(q) = q[1] /\ 1 \in DOMAIN q
      /\ \A k \in DOMAIN Tail(q) : k + 1 \in DOMAIN q /\ Tail(q)[k] = q[k + 1]
      /\ \A k \in DOMAIN q : k # 1 => k - 1 \in DOMAIN Tail(q) /\ Tail(q)[k - 1] = q[k]
  BY <1>2, TailFacts
<1>4. PICK n \in Nat : n = q[1].seq
  BY <1>3 DEF Frames
<1>5. UNCHANGED <<vars, nextSeq, pending, failed, issued, linked, faults, spent>>
      /\ downlink'[a] = Tail(q)
  BY <1>1 DEF Deliver, VideoTypeOK
<1>6. /\ seen[a] = {p[i] : i \in DOMAIN p} /\ n \in issued[a]
      /\ \A x \in issued[a] : x \in Nat /\ x <= nextSeq[a]
      /\ nextSeq[a] \in Nat
      /\ \A i \in DOMAIN q : q[i].seq \in issued[a]
      /\ \A i \in DOMAIN q : i \in Nat /\ 1 <= i
  BY <1>1, <1>3, <1>4 DEF VideoTypeOK, ChannelOK
<1>7. /\ seen[a] \subseteq issued[a]
      /\ \A x \in issued[a] \ seen[a] : \E i \in DOMAIN q : q[i].seq = x
      /\ \A x \in seen[a], m \in issued[a] : m < x => m \in seen[a]
      /\ \A i \in DOMAIN q : \A m \in issued[a] \ seen[a] :
           m < q[i].seq => \E j \in 1..(i - 1) : q[j].seq = m
  BY <1>1 DEF Sound, NoneLost, OldestFirst
<1>8. \A m \in issued[a] : m < n => m \in seen[a]
  BY <1>3, <1>4, <1>7
<1>9. /\ seen'[a] = seen[a] \cup {n}
      /\ n \in seen[a] => UNCHANGED <<transmitting, applied>>
      /\ n \notin seen[a] => /\ applied'[a] = Append(p, n)
                             /\ transmitting'[a] = (q[1].cmd = "START")
  <2>1. CASE n \in seen[a]
    <3>1. UNCHANGED senderVars
      BY <1>1, <1>3, <1>4, <2>1 DEF Deliver
    <3>2. QED BY <2>1, <3>1 DEF senderVars
  <2>2. CASE n \notin seen[a]
    BY <1>1, <1>3, <1>4, <2>2 DEF Deliver, Obey, VideoTypeOK
  <2>3. QED BY <2>1, <2>2
<1>10. NoneLost(a)'
  <2>1. ASSUME NEW x \in issued[a] \ seen'[a]
        PROVE  \E i \in DOMAIN Tail(q) : Tail(q)[i].seq = x
    <3>1. PICK i \in DOMAIN q : q[i].seq = x
      BY <1>7, <1>9
    <3>2. i # 1
      BY <1>4, <1>9, <3>1
    <3>3. QED BY <1>3, <3>1, <3>2
  <2>2. QED BY <1>5, <1>6, <1>7, <1>9, <2>1 DEF NoneLost
<1>11. OldestFirst(a)'
  <2>1. \A x \in seen'[a], m \in issued[a] : m < x => m \in seen'[a]
    BY <1>7, <1>8, <1>9
  <2>2. ASSUME NEW k \in DOMAIN Tail(q), NEW m \in issued[a] \ seen'[a],
               m < Tail(q)[k].seq
        PROVE  \E j \in 1..(k - 1) : Tail(q)[j].seq = m
    <3>1. k + 1 \in DOMAIN q /\ Tail(q)[k] = q[k + 1]
      BY <1>3
    <3>2. k \in Nat
      BY <1>1
    <3>3. PICK j \in 1..((k + 1) - 1) : q[j].seq = m
      BY <1>7, <1>9, <2>2, <3>1
    <3>4. j # 1
      BY <1>4, <1>9, <3>3
    <3>5. j - 1 \in 1..(k - 1)
      BY <3>2, <3>4
    <3>6. j \in DOMAIN q
      <4>1. PICK len \in Nat : DOMAIN q = 1..len
        BY <1>1
      <4>2. j \in 1..len
        BY <3>1, <3>2, <4>1
      <4>3. QED BY <4>1, <4>2
    <3>7. QED BY <1>3, <3>3, <3>4, <3>5, <3>6
  <2>3. QED BY <1>5, <2>1, <2>2 DEF OldestFirst
<1>12. NewestRules(a)'
  <2>1. NewestRules(a)
    BY DEF Sound
  <2>2. UNCHANGED <<nextSeq, issued, pending, lastCmd>>
    BY <1>5 DEF vars, controllerVars
  <2>3. \A i \in DOMAIN Tail(q) :
          Tail(q)[i].seq = nextSeq[a] => Tail(q)[i].cmd = lastCmd[a]
    BY <1>1, <1>3, <2>1 DEF NewestRules
  <2>4. nextSeq[a] \in seen'[a] => transmitting'[a] = (lastCmd[a] = "START")
    <3>1. CASE n \in seen[a]
      BY <1>9, <2>1, <3>1 DEF NewestRules
    <3>2. CASE n \notin seen[a]
      <4>1. nextSeq[a] \notin seen[a] \/ ~(n < nextSeq[a])
        BY <1>6, <1>7, <3>2
      <4>2. \A x, y \in Nat : x <= y => x < y \/ x = y
        OBVIOUS
      <4>3. n < nextSeq[a] \/ n = nextSeq[a]
        BY <1>6, <4>2
      <4>4. nextSeq[a] \in seen'[a] => n = nextSeq[a]
        BY <1>9, <4>1, <4>3
      <4>5. n = nextSeq[a] => q[1].cmd = lastCmd[a]
        BY <1>1, <1>3, <1>4, <2>1 DEF NewestRules
      <4>6. QED BY <1>9, <3>2, <4>4, <4>5
    <3>3. QED BY <3>1, <3>2
  <2>5. QED BY <1>5, <2>1, <2>2, <2>3, <2>4 DEF NewestRules
<1>13. Increasing(a)'
  <2>1. \A i, j \in DOMAIN p : i < j => p[i] < p[j]
    BY <1>1 DEF Sound, Increasing
  <2>2. CASE n \in seen[a]
    BY <1>1, <1>9, <2>1, <2>2 DEF Increasing
  <2>3. CASE n \notin seen[a]
    <3>1. PICK t : t = Append(p, n)
      OBVIOUS
    <3>2. Grown(t, p, n)
      BY <3>1, AppendElements
    <3>3. \A i \in DOMAIN p : p[i] \in Nat /\ p[i] < n
      <4> SUFFICES ASSUME NEW i \in DOMAIN p PROVE p[i] \in Nat /\ p[i] < n
        OBVIOUS
      <4>1. p[i] \in seen[a] /\ p[i] \in issued[a] /\ p[i] \in Nat
        BY <1>6, <1>7
      <4>2. p[i] # n /\ ~(n < p[i])
        BY <1>6, <1>7, <2>3, <4>1
      <4>3. QED BY <4>1, <4>2
    <3>4. ASSUME NEW i \in DOMAIN t, NEW j \in DOMAIN t, i < j
          PROVE  t[i] < t[j]
      <4>1. PICK len \in Nat : len = Len(p) /\ DOMAIN p = 1..len
        OBVIOUS
      <4>2. DOMAIN t = 1..len \cup {len + 1}
        BY <3>2, <4>1 DEF Grown
      <4>3. i \in 1..len
        BY <3>4, <4>2
      <4>4. CASE j \in 1..len
        BY <2>1, <3>2, <3>4, <4>1, <4>3, <4>4 DEF Grown
      <4>5. CASE j = len + 1
        BY <3>2, <3>3, <4>1, <4>3, <4>5 DEF Grown
      <4>6. QED BY <4>2, <4>4, <4>5
    <3>5. applied'[a] = t
      BY <1>9, <2>3, <3>1
    <3>6. QED BY <3>4, <3>5 DEF Increasing
  <2>4. QED BY <2>2, <2>3
<1>14. QED BY <1>2, <1>5, <1>10, <1>11, <1>12, <1>13 DEF Sound

\* What a step that a sender has no part in leaves alone.
Same(a) ==
  /\ nextSeq'[a] = nextSeq[a] /\ lastCmd'[a] = lastCmd[a] /\ issued'[a] = issued[a]
  /\ downlink'[a] = downlink[a] /\ uplink'[a] = uplink[a] /\ seen'[a] = seen[a]
  /\ DOMAIN pending'[a] \subseteq DOMAIN pending[a]
  /\ \A n \in DOMAIN pending'[a] : pending'[a][n] = pending[a][n]
  /\ transmitting'[a] = transmitting[a] /\ applied'[a] = applied[a]

\* Such a step, an acknowledgement and a frame over a link that is up.
LEMMA SameSound ==
  ASSUME NEW a \in Senders, Sound(a), Same(a), linked[a] => linked'[a],
         a \in online' => a \in online \/ linked'[a]
  PROVE  Sound(a)'
<1>1. ~linked'[a] => Untouched(a)'
  BY DEF Sound, Same, Untouched
<1>2. NoneLost(a)' /\ OldestFirst(a)' /\ Increasing(a)'
  BY DEF Sound, Same, NoneLost, OldestFirst, Increasing
<1>3. NewestRules(a)'
  BY DEF Sound, Same, NewestRules
<1>4. QED BY <1>1, <1>2, <1>3 DEF Sound

\* An acknowledgement leaves the queues to the sender alone.
LEMMA ReceiveAckSound ==
  ASSUME VideoTypeOK, NEW a \in Senders, ReceiveAck(a), NEW b \in Senders, Sound(b)
  PROVE  Sound(b)'
<1>1. /\ UNCHANGED <<nextSeq, issued, downlink, linked, seen, transmitting, applied>>
      /\ lastCmd' = lastCmd /\ online' = online \cup {a} /\ linked[a]
  BY DEF ReceiveAck, Hear, senderVars
<1>2. CASE b # a
  <2>1. pending'[b] = pending[b] /\ uplink'[b] = uplink[b]
    BY <1>2 DEF ReceiveAck, VideoTypeOK
  <2>2. Same(b)
    BY <1>1, <2>1 DEF Same
  <2>3. QED BY <1>1, <1>2, <2>2, SameSound
<1>3. CASE b = a
  <2>1. /\ DOMAIN pending'[a] \subseteq DOMAIN pending[a]
        /\ \A n \in DOMAIN pending'[a] : pending'[a][n] = pending[a][n]
    BY DEF ReceiveAck, VideoTypeOK
  <2>2. NewestRules(a)'
    BY <1>1, <1>3, <2>1 DEF Sound, NewestRules
  <2>3. NoneLost(a)' /\ OldestFirst(a)' /\ Increasing(a)'
    BY <1>1, <1>3 DEF Sound, NoneLost, OldestFirst, Increasing
  <2>4. QED BY <1>1, <1>3, <2>2, <2>3 DEF Sound
<1>4. QED BY <1>2, <1>3

\* As long as nothing has failed, every step keeps every sender sound.
LEMMA UnbrokenStep ==
  ASSUME Inv, VideoTypeOK, Unbroken, [VideoNext]_videoVars
  PROVE  Unbroken'
<1> SUFFICES ASSUME faults' = 0, NEW b \in Senders PROVE Sound(b)'
  BY DEF Unbroken
<1>1. ASSUME NEW kind, Fault(kind) PROVE FALSE
  BY <1>1 DEF Fault, VideoTypeOK
<1>2. /\ faults = 0 /\ ~RestartController
      /\ \A a \in Senders : ~Break(a) /\ ~RestartSender(a)
  <2>1. ~RestartController /\ \A a \in Senders : ~Break(a) /\ ~RestartSender(a)
    BY <1>1 DEF RestartController, Break, RestartSender
  <2>2. faults' = faults
    <3>1. CASE ControllerTick \/ Request
      BY <3>1 DEF ControllerTick, Request
    <3>2. CASE \E a \in Senders : Link(a) \/ Arrive(a) \/ Swallow(a)
      BY <3>2 DEF Link, Deliver, ReceiveAck, Relink, Arrive, Swallow
    <3>3. CASE UNCHANGED videoVars
      BY <3>3 DEF videoVars
    <3>4. QED BY <2>1, <3>1, <3>2, <3>3 DEF VideoNext
  <2>3. QED BY <2>1, <2>2
<1>3. Sound(b)
  BY <1>2 DEF Unbroken
<1>4. CASE ControllerTick \/ Request
  BY <1>3, <1>4, ControllerSends, SendsSound
<1>5. ASSUME NEW a \in Senders, Deliver(a) PROVE Sound(b)'
  <2>1. CASE b = a
    BY <1>3, <1>5, <2>1, DeliverSound
  <2>2. CASE b # a
    <3>1. /\ UNCHANGED <<vars, nextSeq, pending, issued, linked>>
          /\ downlink'[b] = downlink[b] /\ uplink'[b] = uplink[b]
      BY <1>5, <2>2 DEF Deliver, VideoTypeOK
    <3>2. /\ seen'[b] = seen[b] /\ applied'[b] = applied[b]
          /\ transmitting'[b] = transmitting[b]
      BY <1>5, <2>2 DEF Deliver, Obey, VideoTypeOK, senderVars
    <3>3. lastCmd' = lastCmd /\ online' = online
      BY <3>1 DEF vars, controllerVars
    <3>4. Same(b)
      BY <3>1, <3>2, <3>3 DEF Same
    <3>5. QED BY <1>3, <3>1, <3>3, <3>4, SameSound
  <2>3. QED BY <2>1, <2>2
<1>6. ASSUME NEW a \in Senders, ReceiveAck(a) PROVE Sound(b)'
  BY <1>3, <1>6, ReceiveAckSound
<1>7. ASSUME NEW a \in Senders, Relink(a) \/ Arrive(a) PROVE Sound(b)'
  <2>1. UNCHANGED <<channelVars, uplink, senderVars>>
    BY <1>7 DEF Relink, Arrive
  <2>2. /\ lastCmd' = lastCmd
        /\ b \in online' => b \in online \/ (b = a /\ linked[a])
    BY <1>7 DEF Relink, Arrive, Hear, Connect, vars, controllerVars
  <2>3. linked[b] => linked'[b]
    BY <1>7 DEF Relink, Arrive, VideoTypeOK
  <2>4. Same(b)
    BY <2>1, <2>2 DEF Same, channelVars, senderVars
  <2>5. QED BY <1>3, <2>2, <2>3, <2>4, SameSound
<1>8. ASSUME NEW a \in Senders, Swallow(a) PROVE FALSE
  <2>1. ~linked[a] /\ (downlink[a] # <<>> \/ uplink[a] # <<>>)
    BY <1>8 DEF Swallow
  <2>2. QED BY <1>2, <2>1 DEF Unbroken, Sound, Untouched
<1>9. CASE UNCHANGED videoVars
  <2>1. UNCHANGED <<channelVars, uplink, linked, senderVars, lastCmd, online>>
    BY <1>9 DEF videoVars, vars, controllerVars
  <2>2. Same(b)
    BY <2>1 DEF Same, channelVars, senderVars
  <2>3. QED BY <1>3, <2>1, <2>2, SameSound
<1>10. QED BY <1>2, <1>4, <1>5, <1>6, <1>7, <1>8, <1>9 DEF VideoNext, Link

\* A sender whose channel is empty has obeyed the newest command.
LEMMA SettledObeys ==
  ASSUME VideoTypeOK, NEW a \in Senders, Sound(a), downlink[a] = <<>>,
         lastCmd[a] # "none"
  PROVE  transmitting[a] = (lastCmd[a] = "START")
<1>1. nextSeq[a] \in issued[a]
  BY DEF Sound, NewestRules
<1>2. DOMAIN downlink[a] = {}
  OBVIOUS
<1>3. nextSeq[a] \in seen[a]
  BY <1>1, <1>2 DEF Sound, NoneLost
<1>4. QED BY <1>3 DEF Sound, NewestRules

\* Over an unbroken connection and without restarts, what the channel settles
\* to is what the slots ask for, and nothing is obeyed out of order.
THEOREM UnbrokenCorrect == VideoSpec => []UnbrokenObeys
<1>1. VideoInit => Unbroken
  <2> SUFFICES ASSUME VideoInit, NEW a \in Senders PROVE Sound(a)
    BY DEF Unbroken
  <2>1. /\ nextSeq[a] = 0 /\ issued[a] = {} /\ downlink[a] = <<>> /\ uplink[a] = <<>>
        /\ seen[a] = {} /\ applied[a] = <<>> /\ DOMAIN pending[a] = {}
        /\ lastCmd[a] = "none" /\ online = {}
    BY DEF VideoInit, ChannelInit, Init, NothingPending
  <2>2. DOMAIN downlink[a] = {} /\ DOMAIN applied[a] = {}
    BY <2>1
  <2>3. QED BY <2>1, <2>2
            DEF Sound, Untouched, NoneLost, OldestFirst, NewestRules, Increasing
<1>2. Inv /\ VideoTypeOK /\ Unbroken /\ [VideoNext]_videoVars => Unbroken'
  BY UnbrokenStep
<1>3. Inv /\ VideoTypeOK /\ Unbroken => UnbrokenObeys
  <2> SUFFICES ASSUME Inv, VideoTypeOK, \A a \in Senders : Sound(a)
               PROVE  HiddenIsStopped /\ VisibleTransmits /\ AppliedInOrder
    BY DEF Unbroken, UnbrokenObeys
  <2>1. AppliedInOrder
    BY DEF AppliedInOrder, Sound, Increasing
  <2>2. ASSUME NEW a \in Senders, ~Warm, Settled(a), a \notin VisibleSenders
        PROVE  ~transmitting[a]
    <3>1. lastCmd[a] = "STOP"
      BY <2>2 DEF Settled, Inv, ColdStreamsOnlyVisible, LastCommandAgrees
    <3>2. transmitting[a] = (lastCmd[a] = "START")
      BY <2>2, <3>1, SettledObeys DEF Settled
    <3>3. QED BY <3>1, <3>2
  <2>3. ASSUME NEW a \in Senders, Settled(a), a \in VisibleSenders
        PROVE  transmitting[a]
    <3>1. lastCmd[a] = "START"
      BY <2>3 DEF Inv, VisibleIsStreaming, LastCommandAgrees
    <3>2. transmitting[a] = (lastCmd[a] = "START")
      BY <2>3, <3>1, SettledObeys DEF Settled
    <3>3. QED BY <3>1, <3>2
  <2>4. QED BY <2>1, <2>2, <2>3 DEF HiddenIsStopped, VisibleTransmits
<1>4. QED BY <1>1, <1>2, <1>3, VideoInvariant, PTL DEF VideoSpec

=============================================================================
