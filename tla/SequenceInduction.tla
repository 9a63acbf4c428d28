-------------------------- MODULE SequenceInduction --------------------------
(***************************************************************************)
(* Induction over numbers and sequences, in a form that needs no operator  *)
(* for what is shown: a set of numbers that has 0 and each successor has   *)
(* them all.  What FlattenSeq of the community modules, a function of its  *)
(* own values, does with one more sequence follows, and what Append, Tail  *)
(* and \o do to a sequence is stated once.                                 *)
(***************************************************************************)
EXTENDS Integers, SequencesExt, FiniteSetTheorems, TLAPS

-----------------------------------------------------------------------------
(* Sequences and their parts.                                              *)

\* What appending to a sequence, taking its tail and joining two sequences do,
\* for the streams of bytes, frames and reports of the links and the codec.
LEMMA AppendFacts ==
  ASSUME NEW S, NEW s \in Seq(S), NEW e \in S
  PROVE  /\ Append(s, e) \in Seq(S) /\ Len(s) \in Nat
         /\ Len(Append(s, e)) = Len(s) + 1
         /\ DOMAIN s = 1 .. Len(s) /\ DOMAIN Append(s, e) = 1 .. Len(s) + 1
         /\ Append(s, e)[Len(s) + 1] = e
         /\ \A i \in 1 .. Len(s) : Append(s, e)[i] = s[i] /\ s[i] \in S
  OBVIOUS

LEMMA TailFacts ==
  ASSUME NEW S, NEW s \in Seq(S), s # <<>>
  PROVE  /\ Tail(s) \in Seq(S) /\ Head(s) \in S /\ Len(s) \in Nat /\ Len(s) >= 1
         /\ Head(s) = s[1] /\ Len(Tail(s)) = Len(s) - 1
         /\ DOMAIN s = 1 .. Len(s) /\ DOMAIN Tail(s) = 1 .. Len(s) - 1
         /\ \A i \in 1 .. Len(s) - 1 : Tail(s)[i] = s[i + 1]
  OBVIOUS

LEMMA ConcatFacts ==
  ASSUME NEW S, NEW s \in Seq(S), NEW t \in Seq(S)
  PROVE  /\ s \o t \in Seq(S) /\ Len(s) \in Nat /\ Len(t) \in Nat
         /\ Len(s \o t) = Len(s) + Len(t)
         /\ \A i \in 1 .. Len(s) : (s \o t)[i] = s[i]
         /\ \A i \in 1 .. Len(t) : (s \o t)[Len(s) + i] = t[i]
         /\ DOMAIN s = 1 .. Len(s) /\ DOMAIN t = 1 .. Len(t)
         /\ \A i \in 1 .. Len(s) + Len(t) : i <= Len(s) \/ i - Len(s) \in 1 .. Len(t)
  OBVIOUS

\* Sequences of one length that agree at each place are the same.
LEMMA SameSeq ==
  ASSUME NEW S, NEW s \in Seq(S), NEW t \in Seq(S), Len(s) = Len(t),
         \A i \in 1 .. Len(s) : s[i] = t[i]
  PROVE  s = t
  OBVIOUS

\* u is s from a to b, and r is s followed by t, place by place.
IsPart(u, s, a, b) == Len(u) = b - a + 1 /\ \A i \in 1 .. b - a + 1 : u[i] = s[a + i - 1]
IsJoin(r, s, t) ==
  /\ Len(r) = Len(s) + Len(t)
  /\ \A i \in 1 .. Len(s) : r[i] = s[i]
  /\ \A i \in 1 .. Len(t) : r[Len(s) + i] = t[i]

\* A part of a sequence, and two of them joined, by what they hold at each
\* place.
LEMMA PartFacts ==
  ASSUME NEW S, NEW s \in Seq(S), NEW a \in Nat, NEW b \in Nat,
         1 <= a, a <= b + 1, b <= Len(s)
  PROVE  SubSeq(s, a, b) \in Seq(S) /\ IsPart(SubSeq(s, a, b), s, a, b)
<1>1. \A i \in a .. b : s[i] \in S
  OBVIOUS
<1>2. SubSeq(s, a, b) \in Seq(S)
  BY <1>1
<1>3. Len(SubSeq(s, a, b)) = b - a + 1
  OBVIOUS
<1>4. ASSUME NEW i \in 1 .. b - a + 1 PROVE SubSeq(s, a, b)[i] = s[a + i - 1]
  OBVIOUS
<1> QED
  BY <1>2, <1>3, <1>4 DEF IsPart

LEMMA JoinFacts ==
  ASSUME NEW S, NEW s \in Seq(S), NEW t \in Seq(S)
  PROVE  s \o t \in Seq(S) /\ IsJoin(s \o t, s, t)
BY ConcatFacts DEF IsJoin

\* No two sequences are the same two joined.
LEMMA JoinUnique ==
  ASSUME NEW S, NEW s \in Seq(S), NEW t \in Seq(S), NEW r \in Seq(S), NEW q \in Seq(S),
         IsJoin(r, s, t), IsJoin(q, s, t)
  PROVE  r = q
<1>1. PICK m \in Nat, n \in Nat : m = Len(s) /\ n = Len(t)
  OBVIOUS
<1>2. Len(r) = m + n /\ Len(q) = m + n
  BY <1>1 DEF IsJoin
<1>3. ASSUME NEW i \in 1 .. m + n PROVE r[i] = q[i]
  <2>1. CASE i <= m
    BY <1>1, <2>1 DEF IsJoin
  <2>2. CASE i > m
    <3>1. PICK j \in 1 .. n : i = m + j
      <4>1. i - m \in 1 .. n /\ i = m + (i - m)
        BY <2>2
      <4> QED
        BY <4>1
    <3> QED
      BY <1>1, <3>1 DEF IsJoin
  <2> QED
    BY <2>1, <2>2
<1> QED
  BY <1>2, <1>3, SameSeq

\* What is joined comes apart again, and what is taken apart is joined again.
LEMMA JoinedApart ==
  ASSUME NEW S, NEW s \in Seq(S), NEW t \in Seq(S)
  PROVE  /\ SubSeq(s \o t, 1, Len(s)) = s
         /\ SubSeq(s \o t, Len(s) + 1, Len(s \o t)) = t
<1>1. PICK r \in Seq(S) : r = s \o t
  BY JoinFacts
<1>2. PICK m \in Nat, n \in Nat : m = Len(s) /\ n = Len(t)
  OBVIOUS
<1>3. IsJoin(r, s, t)
  BY <1>1, JoinFacts
<1>4. PICK k \in Nat : k = m + n /\ k = Len(r)
  BY <1>2, <1>3 DEF IsJoin
<1>5. SubSeq(r, 1, m) = s
  <2>1. PICK u : u = SubSeq(r, 1, m)
    OBVIOUS
  <2>2. u \in Seq(S) /\ IsPart(u, r, 1, m)
    BY <1>4, <2>1, PartFacts
  <2>3. Len(u) = m /\ \A i \in 1 .. m : u[i] = r[i]
    BY <2>2 DEF IsPart
  <2>4. \A i \in 1 .. m : r[i] = s[i]
    BY <1>2, <1>3 DEF IsJoin
  <2> QED
    BY <1>2, <2>1, <2>2, <2>3, <2>4, SameSeq
<1>6. SubSeq(r, m + 1, k) = t
  <2>1. PICK a \in Nat : a = m + 1
    OBVIOUS
  <2>2. PICK u : u = SubSeq(r, a, k)
    OBVIOUS
  <2>3. u \in Seq(S) /\ IsPart(u, r, a, k)
    <3>1. 1 <= a /\ a <= k + 1 /\ k <= Len(r)
      BY <1>4, <2>1
    <3> QED
      BY <3>1, <2>2, PartFacts
  <2>4. k - a + 1 = n
    BY <1>4, <2>1
  <2>5. Len(u) = n /\ \A i \in 1 .. n : u[i] = r[a + i - 1]
    BY <2>3, <2>4 DEF IsPart
  <2>6. ASSUME NEW i \in 1 .. n PROVE u[i] = t[i]
    <3>1. a + i - 1 = m + i
      BY <2>1
    <3>2. r[m + i] = t[i]
      BY <1>2, <1>3 DEF IsJoin
    <3> QED
      BY <2>5, <3>1, <3>2
  <2>7. u = t
    BY <1>2, <2>3, <2>5, <2>6, SameSeq
  <2> QED
    BY <2>1, <2>2, <2>7
<1> QED
  BY <1>1, <1>2, <1>4, <1>5, <1>6

\* A sequence cut anywhere is its two parts joined.
LEMMA ApartJoined ==
  ASSUME NEW S, NEW r \in Seq(S), NEW n \in 0 .. Len(r)
  PROVE  /\ SubSeq(r, 1, n) \in Seq(S) /\ Len(SubSeq(r, 1, n)) = n
         /\ SubSeq(r, n + 1, Len(r)) \in Seq(S) /\ Len(SubSeq(r, n + 1, Len(r))) = Len(r) - n
         /\ r = SubSeq(r, 1, n) \o SubSeq(r, n + 1, Len(r))
<1>0. PICK m \in Nat, a \in Nat : m = Len(r) /\ a = n + 1
  OBVIOUS
<1>1. PICK s : s = SubSeq(r, 1, n)
  OBVIOUS
<1>2. PICK t : t = SubSeq(r, a, m)
  OBVIOUS
<1>3. s \in Seq(S) /\ IsPart(s, r, 1, n)
  <2>1. 1 <= n + 1 /\ n <= Len(r) /\ n \in Nat
    BY <1>0
  <2> QED
    BY <2>1, <1>1, PartFacts
<1>4. t \in Seq(S) /\ IsPart(t, r, a, m)
  <2>1. 1 <= a /\ a <= m + 1 /\ m <= Len(r)
    BY <1>0
  <2> QED
    BY <2>1, <1>2, PartFacts
<1>5. Len(s) = n /\ \A i \in 1 .. n : r[i] = s[i]
  BY <1>3 DEF IsPart
<1>6. m - a + 1 = m - n
  BY <1>0
<1>7. Len(t) = m - n /\ \A i \in 1 .. m - n : t[i] = r[a + i - 1]
  BY <1>4, <1>6 DEF IsPart
<1>8. \A i \in 1 .. m - n : r[n + i] = t[i]
  <2> SUFFICES ASSUME NEW i \in 1 .. m - n PROVE r[n + i] = t[i]
    OBVIOUS
  <2>1. a + i - 1 = n + i
    BY <1>0
  <2> QED
    BY <1>7, <2>1
<1>9. IsJoin(r, s, t)
  <2>1. Len(r) = Len(s) + Len(t)
    BY <1>0, <1>5, <1>7
  <2> QED
    BY <1>5, <1>7, <1>8, <2>1 DEF IsJoin
<1>10. s \o t \in Seq(S) /\ IsJoin(s \o t, s, t)
  BY <1>3, <1>4, JoinFacts
<1>11. r = s \o t
  BY <1>3, <1>4, <1>9, <1>10, JoinUnique
<1> QED
  BY <1>0, <1>1, <1>2, <1>3, <1>4, <1>5, <1>7, <1>11

\* Joining goes on the same from either end.
Regroups(a, b, c) == (a \o b) \o c = a \o (b \o c)

LEMMA Associated ==
  ASSUME NEW S, NEW a \in Seq(S), NEW b \in Seq(S), NEW c \in Seq(S)
  PROVE  Regroups(a, b, c)
<1>1. PICK k \in Nat, m \in Nat, n \in Nat : k = Len(a) /\ m = Len(b) /\ n = Len(c)
  OBVIOUS
<1>2. PICK ab : ab = a \o b
  OBVIOUS
<1>3. PICK bc : bc = b \o c
  OBVIOUS
<1>4. ab \in Seq(S) /\ IsJoin(ab, a, b) /\ bc \in Seq(S) /\ IsJoin(bc, b, c)
  BY <1>2, <1>3, JoinFacts
<1>5. PICK u : u = ab \o c
  OBVIOUS
<1>6. u \in Seq(S) /\ IsJoin(u, ab, c)
  BY <1>4, <1>5, JoinFacts
<1>7. PICK v : v = a \o bc
  OBVIOUS
<1>8. v \in Seq(S) /\ IsJoin(v, a, bc)
  BY <1>4, <1>7, JoinFacts
<1>9. Len(ab) = k + m /\ (\A i \in 1 .. k : ab[i] = a[i]) /\ \A i \in 1 .. m : ab[k + i] = b[i]
  BY <1>1, <1>4 DEF IsJoin
<1>10. Len(bc) = m + n /\ (\A i \in 1 .. m : bc[i] = b[i]) /\ \A i \in 1 .. n : bc[m + i] = c[i]
  BY <1>1, <1>4 DEF IsJoin
<1>11. /\ Len(u) = k + m + n /\ (\A i \in 1 .. k + m : u[i] = ab[i])
       /\ \A i \in 1 .. n : u[k + m + i] = c[i]
  BY <1>1, <1>6, <1>9 DEF IsJoin
<1>12. /\ Len(v) = k + (m + n) /\ (\A i \in 1 .. k : v[i] = a[i])
       /\ \A i \in 1 .. m + n : v[k + i] = bc[i]
  BY <1>1, <1>8, <1>10 DEF IsJoin
<1>13. ASSUME NEW i \in 1 .. k + m + n PROVE u[i] = v[i]
  <2>1. CASE i <= k
    <3>1. i \in 1 .. k /\ i \in 1 .. k + m
      BY <2>1
    <3> QED
      BY <3>1, <1>9, <1>11, <1>12
  <2>2. CASE i > k /\ i <= k + m
    <3>1. PICK j \in 1 .. m : i = k + j
      <4>1. i - k \in 1 .. m /\ i = k + (i - k)
        BY <2>2
      <4> QED
        BY <4>1
    <3>2. i \in 1 .. k + m /\ j \in 1 .. m + n
      BY <3>1, <2>2
    <3> QED
      BY <3>1, <3>2, <1>9, <1>10, <1>11, <1>12
  <2>3. CASE i > k + m
    <3>1. PICK j \in 1 .. n : i = k + m + j
      <4>1. i - (k + m) \in 1 .. n /\ i = k + m + (i - (k + m))
        BY <2>3
      <4> QED
        BY <4>1
    <3>2. m + j \in 1 .. m + n /\ i = k + (m + j)
      BY <3>1
    <3>3. u[i] = c[j] /\ bc[m + j] = c[j] /\ v[k + (m + j)] = bc[m + j]
      BY <3>1, <3>2, <1>10, <1>11, <1>12
    <3> QED
      BY <3>2, <3>3
  <2> QED
    BY <2>1, <2>2, <2>3
<1>14. Len(u) = Len(v) /\ Len(u) = k + m + n
  BY <1>11, <1>12
<1>15. u = v
  BY <1>6, <1>8, <1>13, <1>14, SameSeq
<1> QED
  BY <1>2, <1>3, <1>5, <1>7, <1>15 DEF Regroups

\* A part that holds at each place what t does is t.
LEMMA PartIs ==
  ASSUME NEW S, NEW s \in Seq(S), NEW t \in Seq(S), NEW a \in Nat, NEW b \in Nat,
         1 <= a, a <= b + 1, b <= Len(s), Len(t) = b - a + 1,
         \A i \in 1 .. Len(t) : s[a + i - 1] = t[i]
  PROVE  SubSeq(s, a, b) = t
<1>1. PICK u : u = SubSeq(s, a, b)
  OBVIOUS
<1>2. u \in Seq(S) /\ IsPart(u, s, a, b)
  BY <1>1, PartFacts
<1>3. Len(u) = Len(t) /\ \A i \in 1 .. Len(u) : u[i] = t[i]
  BY <1>2 DEF IsPart
<1> QED
  BY <1>1, <1>2, <1>3, SameSeq

\* One element before a sequence, put there and taken off again.
LEMMA HeadJoin ==
  ASSUME NEW S, NEW x \in S, NEW y \in Seq(S), NEW r, r = <<x>> \o y
  PROVE  /\ r \in Seq(S) /\ r # <<>> /\ Head(r) = x /\ Tail(r) = y /\ Len(r) = Len(y) + 1
         /\ r[1] = x /\ \A i \in 1 .. Len(y) : r[i + 1] = y[i]
<1>1. <<x>> \in Seq(S) /\ Len(<<x>>) = 1
  OBVIOUS
<1>2. r \in Seq(S) /\ IsJoin(r, <<x>>, y)
  BY <1>1, JoinFacts
<1>3. PICK n \in Nat : n = Len(y)
  OBVIOUS
<1>4. Len(r) = n + 1 /\ r[1] = x /\ \A i \in 1 .. n : r[1 + i] = y[i]
  BY <1>1, <1>2, <1>3 DEF IsJoin
<1>5. \A i \in 1 .. n : i + 1 = 1 + i
  OBVIOUS
<1>6. r # <<>> /\ Head(r) = x
  BY <1>2, <1>4
<1>7. PICK u : u = Tail(r)
  OBVIOUS
<1>8. u \in Seq(S) /\ Len(u) = n /\ \A i \in 1 .. n : u[i] = r[i + 1]
  <2>1. Len(r) - 1 = n
    BY <1>4
  <2> QED
    BY <1>2, <1>6, <1>7, <2>1, TailFacts
<1>9. \A i \in 1 .. Len(u) : u[i] = y[i]
  BY <1>4, <1>5, <1>8
<1>10. u = y
  BY <1>3, <1>8, <1>9, SameSeq
<1> QED
  BY <1>2, <1>3, <1>4, <1>5, <1>6, <1>7, <1>10

LEMMA HeadApart ==
  ASSUME NEW S, NEW r \in Seq(S), r # <<>>
  PROVE  Head(r) \in S /\ Tail(r) \in Seq(S) /\ r = <<Head(r)>> \o Tail(r)
<1>1. PICK x \in S, y \in Seq(S) : x = Head(r) /\ y = Tail(r)
  BY TailFacts
<1>2. PICK q : q = <<x>> \o y
  OBVIOUS
<1>3. PICK n \in Nat : n = Len(y)
  OBVIOUS
<1>4. q \in Seq(S) /\ Len(q) = n + 1 /\ q[1] = x /\ \A i \in 1 .. n : q[i + 1] = y[i]
  BY <1>2, <1>3, HeadJoin
<1>5. Len(r) = n + 1 /\ r[1] = x /\ \A i \in 1 .. n : r[i + 1] = y[i]
  <2>1. Len(r) - 1 = n /\ Len(r) \in Nat
    BY <1>1, <1>3, TailFacts
  <2> QED
    BY <1>1, <2>1, TailFacts
<1>6. ASSUME NEW i \in 1 .. n + 1 PROVE q[i] = r[i]
  <2>1. CASE i = 1
    BY <1>4, <1>5, <2>1
  <2>2. CASE i # 1
    <3>1. PICK j \in 1 .. n : i = j + 1
      <4>1. i - 1 \in 1 .. n /\ i = i - 1 + 1
        BY <2>2
      <4> QED
        BY <4>1
    <3> QED
      BY <1>4, <1>5, <3>1
  <2> QED
    BY <2>1, <2>2
<1>7. q = r
  BY <1>4, <1>5, <1>6, SameSeq
<1> QED
  BY <1>1, <1>2, <1>7

\* The three that are appended to nothing, one by one.
LEMMA Thrice ==
  ASSUME NEW a, NEW b, NEW c, NEW g, g = Append(Append(Append(<<>>, a), b), c)
  PROVE  g[1] = a /\ g[2] = b /\ g[3] = c
<1>1. PICK S : S = {a, b, c}
  OBVIOUS
<1>2. a \in S /\ b \in S /\ c \in S /\ <<>> \in Seq(S) /\ Len(<<>>) = 0
  BY <1>1
<1>3. PICK t : t = Append(<<>>, a)
  OBVIOUS
<1>4. t \in Seq(S) /\ Len(t) = 1 /\ t[1] = a
  <2>1. Len(t) = 0 + 1 /\ t[0 + 1] = a /\ t \in Seq(S)
    BY <1>2, <1>3, AppendFacts
  <2> QED
    BY <2>1
<1>5. PICK u : u = Append(t, b)
  OBVIOUS
<1>6. u \in Seq(S) /\ Len(u) = 2 /\ u[1] = a /\ u[2] = b
  <2>1. Len(u) = 1 + 1 /\ u[1 + 1] = b /\ u \in Seq(S) /\ \A i \in 1 .. 1 : u[i] = t[i]
    BY <1>2, <1>4, <1>5, AppendFacts
  <2> QED
    BY <1>4, <2>1
<1>7. g = Append(u, c)
  BY <1>3, <1>5
<1>8. g[2 + 1] = c /\ \A i \in 1 .. 2 : g[i] = u[i]
  BY <1>2, <1>6, <1>7, AppendFacts
<1> QED
  BY <1>6, <1>8

\* Two of one element make one of two.
LEMMA OneAndOne ==
  ASSUME NEW a, NEW b
  PROVE  <<a>> \o <<b>> = <<a, b>>
<1>1. PICK S : S = {a, b}
  OBVIOUS
<1>2. PICK s : s = <<a>>
  OBVIOUS
<1>3. PICK t : t = <<b>>
  OBVIOUS
<1>4. s \in Seq(S) /\ t \in Seq(S) /\ Len(s) = 1 /\ Len(t) = 1 /\ s[1] = a /\ t[1] = b
  BY <1>1, <1>2, <1>3
<1>5. PICK u : u = s \o t
  OBVIOUS
<1>6. u \in Seq(S) /\ IsJoin(u, s, t)
  BY <1>4, <1>5, JoinFacts
<1>7. Len(u) = 2 /\ (\A i \in 1 .. 1 : u[i] = s[i]) /\ \A i \in 1 .. 1 : u[1 + i] = t[i]
  BY <1>4, <1>6 DEF IsJoin
<1>8. u[1] = a /\ u[1 + 1] = b
  BY <1>4, <1>7
<1>9. PICK v : v = <<a, b>>
  OBVIOUS
<1>10. v \in Seq(S) /\ Len(v) = 2 /\ v[1] = a /\ v[2] = b
  BY <1>1, <1>9
<1>11. \A i \in 1 .. 2 : i = 1 \/ i = 2
  OBVIOUS
<1>12. u = v
  BY <1>6, <1>7, <1>8, <1>10, <1>11, SameSeq
<1> QED
  BY <1>2, <1>3, <1>5, <1>9, <1>12

\* A sequence is over whatever holds each of its elements.
LEMMA SeqOver ==
  ASSUME NEW S, NEW T, NEW s \in Seq(S), \A i \in 1 .. Len(s) : s[i] \in T
  PROVE  s \in Seq(T)
OBVIOUS

-----------------------------------------------------------------------------
(* Induction, and the sums of a sequence of sequences.                     *)

\* A set of numbers with 0 that has the successor of each of its numbers has
\* them all: induction without an operator for what is shown.
LEMMA SetInduction ==
  ASSUME NEW S, 0 \in S, \A n \in Nat : n \in S => n + 1 \in S
  PROVE  Nat \subseteq S
<1>1. SUFFICES ASSUME NEW z \in Nat \ S PROVE FALSE
  OBVIOUS
<1>2. PICK R : R = StrictSubsetOrdering(Nat)
  OBVIOUS
<1>3. PICK T : T = {0 .. n : n \in Nat \ S}
  OBVIOUS
<1>4. T \subseteq FiniteSubsetsOf(Nat) /\ T # {}
  <2>1. ASSUME NEW n \in Nat PROVE 0 .. n \in FiniteSubsetsOf(Nat)
    BY FS_Interval DEF FiniteSubsetsOf
  <2> QED
    BY <1>1, <1>3, <2>1
<1>5. IsWellFoundedOn(R, FiniteSubsetsOf(Nat))
  BY <1>2, FS_StrictSubsetOrderingWellFounded
<1>6. PICK X \in T : \A Y \in T : ~ (<<Y, X>> \in R)
  BY <1>4, <1>5, WFMin
<1>7. PICK x \in Nat \ S : X = 0 .. x
  BY <1>3, <1>6
<1>8. x # 0 /\ x - 1 \in Nat /\ x - 1 \notin S
  BY <1>7
<1>9. 0 .. (x - 1) \in T
  BY <1>3, <1>8
<1>10. 0 .. (x - 1) \subseteq 0 .. x /\ 0 .. (x - 1) # 0 .. x
  BY <1>7
<1>11. <<0 .. (x - 1), X>> \in R
  BY <1>2, <1>7, <1>8, <1>10 DEF StrictSubsetOrdering
<1> QED
  BY <1>6, <1>9, <1>11

\* f is what the parts of s, up to each of them, are together.
SumAt(f, s, i) == IF i = 1 THEN s[i] ELSE f[i - 1] \o s[i]
Sums(f, s) == f = [i \in 1 .. Len(s) |-> SumAt(f, s, i)]

LEMMA SumsUnique ==
  ASSUME NEW S, NEW s \in Seq(Seq(S)), NEW f, NEW g, Sums(f, s), Sums(g, s)
  PROVE  f = g
<1>1. PICK n \in Nat : n = Len(s)
  OBVIOUS
<1>2. PICK T : T = {k \in Nat : k \in 1 .. n => f[k] = g[k]}
  OBVIOUS
<1>3. 0 \in T
  BY <1>2
<1>4. ASSUME NEW k \in Nat, k \in T PROVE k + 1 \in T
  <2>1. SUFFICES ASSUME k + 1 \in 1 .. n PROVE f[k + 1] = g[k + 1]
    BY <1>2
  <2>2. k # 0 => k \in 1 .. n /\ f[k] = g[k]
    BY <1>2, <1>4, <2>1
  <2>3. k + 1 # 1 => k + 1 - 1 = k /\ k # 0
    OBVIOUS
  <2>4. f[k + 1] = SumAt(f, s, k + 1) /\ g[k + 1] = SumAt(g, s, k + 1)
    BY <1>1, <2>1 DEF Sums
  <2> QED
    BY <2>2, <2>3, <2>4 DEF SumAt
<1>5. Nat \subseteq T
  BY <1>3, <1>4, SetInduction
<1>6. \A k \in 1 .. n : f[k] = g[k]
  BY <1>2, <1>5
<1> QED
  BY <1>1, <1>6 DEF Sums

\* The sums of s and one more part, from those of s.
LEMMA SumsGrow ==
  ASSUME NEW S, NEW s \in Seq(Seq(S)), NEW e \in Seq(S), NEW f, Sums(f, s),
         NEW g, g = [i \in 1 .. Len(s) + 1 |->
                       IF i <= Len(s) THEN f[i]
                       ELSE IF Len(s) = 0 THEN e ELSE f[Len(s)] \o e]
  PROVE  Sums(g, Append(s, e))
<1>1. PICK n \in Nat : n = Len(s)
  OBVIOUS
<1>2. PICK t : t = Append(s, e)
  OBVIOUS
<1>3. Len(t) = n + 1 /\ t[n + 1] = e /\ \A i \in 1 .. n : t[i] = s[i]
  BY <1>1, <1>2
<1>4. ASSUME NEW i \in 1 .. n + 1
      PROVE  g[i] = SumAt(g, t, i)
  <2>1. CASE i <= n
    <3>1. i \in 1 .. n /\ g[i] = f[i] /\ t[i] = s[i]
      BY <1>1, <1>3, <2>1
    <3>2. f[i] = SumAt(f, s, i)
      BY <1>1, <3>1 DEF Sums
    <3>3. i # 1 => g[i - 1] = f[i - 1]
      BY <1>1, <3>1
    <3> QED
      BY <3>1, <3>2, <3>3 DEF SumAt
  <2>2. CASE ~(i <= n)
    <3>1. i = n + 1 /\ g[i] = (IF n = 0 THEN e ELSE f[n] \o e) /\ t[i] = e
      BY <1>1, <1>3, <2>2
    <3>2. n # 0 => i - 1 = n /\ g[n] = f[n]
      BY <1>1, <3>1
    <3> QED
      BY <3>1, <3>2 DEF SumAt
  <2> QED
    BY <2>1, <2>2
<1>5. g = [i \in 1 .. Len(t) |-> g[i]]
  BY <1>1, <1>3
<1>6. g = [i \in 1 .. Len(t) |-> SumAt(g, t, i)]
  BY <1>3, <1>4, <1>5
<1> QED
  BY <1>2, <1>6 DEF Sums

LEMMA LastApart ==
  ASSUME NEW Q, NEW n \in Nat, NEW t \in Seq(Q), Len(t) = n + 1
  PROVE  \E u \in Seq(Q) : Len(u) = n /\ t[n + 1] \in Q /\ t = Append(u, t[n + 1])
<1>1. PICK u : u = SubSeq(t, 1, n)
  OBVIOUS
<1>2. u \in Seq(Q) /\ Len(u) = n /\ t[n + 1] \in Q /\ \A i \in 1 .. n : u[i] = t[i]
  BY <1>1
<1>3. PICK v \in Seq(Q) : v = Append(u, t[n + 1])
  BY <1>2
<1>4. Len(v) = n + 1 /\ v[n + 1] = t[n + 1] /\ \A i \in 1 .. n : v[i] = t[i]
  BY <1>2, <1>3
<1>5. v = t
  <2>1. \A i \in 1 .. Len(t) : v[i] = t[i]
    BY <1>4
  <2> QED
    BY <1>4, <2>1
<1> QED
  BY <1>2, <1>3, <1>5

\* There are such sums of every s.
LEMMA SumsExist ==
  ASSUME NEW S, NEW s \in Seq(Seq(S))
  PROVE  \E f : Sums(f, s)
<1>1. PICK T : T = {n \in Nat : \A t \in Seq(Seq(S)) : Len(t) = n => \E f : Sums(f, t)}
  OBVIOUS
<1>2. 0 \in T
  <2> SUFFICES ASSUME NEW t \in Seq(Seq(S)), Len(t) = 0 PROVE \E f : Sums(f, t)
    BY <1>1
  <2>1. PICK f : f = [i \in 1 .. 0 |-> 0]
    OBVIOUS
  <2>2. f = [i \in 1 .. Len(t) |-> SumAt(f, t, i)]
    BY <2>1
  <2> QED
    BY <2>2 DEF Sums
<1>3. ASSUME NEW n \in Nat, n \in T PROVE n + 1 \in T
  <2> SUFFICES ASSUME NEW t \in Seq(Seq(S)), Len(t) = n + 1 PROVE \E f : Sums(f, t)
    BY <1>1
  <2>1. PICK Q : Q = Seq(S)
    OBVIOUS
  <2>2. t \in Seq(Q)
    BY <2>1
  <2>6. PICK u \in Seq(Q) : Len(u) = n /\ t[n + 1] \in Q /\ t = Append(u, t[n + 1])
    BY <2>2, LastApart
  <2>3. PICK f : Sums(f, u)
    BY <1>1, <1>3, <2>1, <2>6
  <2>4. PICK g : g = [i \in 1 .. Len(u) + 1 |->
                        IF i <= Len(u) THEN f[i]
                        ELSE IF Len(u) = 0 THEN t[n + 1] ELSE f[Len(u)] \o t[n + 1]]
    OBVIOUS
  <2>5. Sums(g, Append(u, t[n + 1]))
    BY <2>1, <2>6, <2>3, <2>4, SumsGrow
  <2> QED
    BY <2>5, <2>6
<1>4. Nat \subseteq T
  BY <1>2, <1>3, SetInduction
<1> QED
  BY <1>1, <1>4

LEMMA FlattenIsSum ==
  ASSUME NEW S, NEW s \in Seq(Seq(S)), s # <<>>, NEW f, Sums(f, s)
  PROVE  FlattenSeq(s) = f[Len(s)]
<1>1. FlattenSeq(s) =
        (CHOOSE h : h = [i \in 1 .. Len(s) |-> IF i = 1 THEN s[i] ELSE h[i - 1] \o s[i]])[Len(s)]
  <2>1. Len(s) # 0
    OBVIOUS
  <2> QED
    BY <2>1 DEF FlattenSeq
<1>2. PICK c : c = CHOOSE h : h = [i \in 1 .. Len(s) |-> IF i = 1 THEN s[i] ELSE h[i - 1] \o s[i]]
  OBVIOUS
<1>3. Sums(c, s)
  <2>1. f = [i \in 1 .. Len(s) |-> IF i = 1 THEN s[i] ELSE f[i - 1] \o s[i]]
    BY DEF Sums, SumAt
  <2>2. c = [i \in 1 .. Len(s) |-> IF i = 1 THEN s[i] ELSE c[i - 1] \o s[i]]
    BY <1>2, <2>1
  <2> QED
    BY <2>2 DEF Sums, SumAt
<1>4. c = f
  BY <1>3, SumsUnique
<1> QED
  BY <1>1, <1>2, <1>4

\* One more part comes last in what the parts are together.
LEMMA FlattenGrows ==
  ASSUME NEW S, NEW s \in Seq(Seq(S)), NEW e \in Seq(S)
  PROVE  FlattenSeq(Append(s, e)) = FlattenSeq(s) \o e
<1>1. PICK f : Sums(f, s)
  BY SumsExist
<1>2. PICK g : g = [i \in 1 .. Len(s) + 1 |->
                      IF i <= Len(s) THEN f[i]
                      ELSE IF Len(s) = 0 THEN e ELSE f[Len(s)] \o e]
  OBVIOUS
<1>3. Sums(g, Append(s, e))
  BY <1>1, <1>2, SumsGrow
<1>4. Append(s, e) \in Seq(Seq(S)) /\ Append(s, e) # <<>> /\ Len(Append(s, e)) = Len(s) + 1
  <2>1. PICK Q : Q = Seq(S)
    OBVIOUS
  <2>2. s \in Seq(Q) /\ e \in Q => Append(s, e) \in Seq(Q) /\ Append(s, e) # <<>> /\ Len(Append(s, e)) = Len(s) + 1
    OBVIOUS
  <2> QED
    BY <2>1, <2>2
<1>5. FlattenSeq(Append(s, e)) = g[Len(s) + 1]
  BY <1>3, <1>4, FlattenIsSum
<1>6. g[Len(s) + 1] = IF Len(s) = 0 THEN e ELSE f[Len(s)] \o e
  BY <1>2
<1>7. CASE s = <<>>
  <2>1. FlattenSeq(s) = <<>>
    BY <1>7 DEF FlattenSeq
  <2>2. Len(s) = 0 /\ <<>> \o e = e
    BY <1>7
  <2> QED
    BY <1>5, <1>6, <2>1, <2>2
<1>8. CASE s # <<>>
  <2>1. FlattenSeq(s) = f[Len(s)] /\ Len(s) # 0
    BY <1>1, <1>8, FlattenIsSum
  <2> QED
    BY <1>5, <1>6, <2>1
<1> QED
  BY <1>7, <1>8

\* What sequences over S are together is over S.
LEMMA FlattenTyped ==
  ASSUME NEW S
  PROVE  \A s \in Seq(Seq(S)) : FlattenSeq(s) \in Seq(S)
<1>1. PICK Q : Q = Seq(S)
  OBVIOUS
<1>2. PICK T : T = {n \in Nat : \A s \in Seq(Q) : Len(s) = n => FlattenSeq(s) \in Q}
  OBVIOUS
<1>3. 0 \in T
  <2> SUFFICES ASSUME NEW s \in Seq(Q), Len(s) = 0 PROVE FlattenSeq(s) \in Q
    BY <1>2
  <2>1. s = <<>>
    OBVIOUS
  <2>2. FlattenSeq(s) = <<>>
    BY <2>1 DEF FlattenSeq
  <2> QED
    BY <1>1, <2>2
<1>4. ASSUME NEW n \in Nat, n \in T PROVE n + 1 \in T
  <2> SUFFICES ASSUME NEW s \in Seq(Q), Len(s) = n + 1 PROVE FlattenSeq(s) \in Q
    BY <1>2
  <2>1. PICK u \in Seq(Q) : Len(u) = n /\ s[n + 1] \in Q /\ s = Append(u, s[n + 1])
    BY LastApart
  <2>2. PICK e \in Q : e = s[n + 1]
    BY <2>1
  <2>3. FlattenSeq(u) \in Q
    BY <1>2, <1>4, <2>1
  <2>4. FlattenSeq(s) = FlattenSeq(u) \o e
    <3>1. u \in Seq(Seq(S)) /\ e \in Seq(S)
      BY <1>1
    <3> QED
      BY <2>1, <2>2, <3>1, FlattenGrows
  <2> QED
    BY <1>1, <2>3, <2>4, JoinFacts
<1>5. Nat \subseteq T
  BY <1>3, <1>4, SetInduction
<1>6. \A s \in Seq(Q) : Len(s) \in T
  BY <1>5
<1> QED
  BY <1>1, <1>2, <1>6

=============================================================================
