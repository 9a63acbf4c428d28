-------------------------- MODULE DiscoveryProofs --------------------------
(***************************************************************************)
(* Proofs about Discovery, for every set of units, timeout, number of      *)
(* retries and bound.  The inductive invariant adds to the two properties  *)
(* the types of the frames on their way and what makes one query enough: a *)
(* query that was asked keeps info_requested set.                          *)
(***************************************************************************)
EXTENDS Discovery, TLAPS

UpFrames == [kind : {"HEARTBEAT", "STATUS_REPORT", "INFO_REPORT"}, from : Units]

IInv ==
  /\ DiscoveryTypeOK
  /\ up \in Seq(UpFrames) /\ down \in Seq(DownKinds)
  /\ queries \in 0 .. 1
  /\ queries = 1 => infoRequested
  /\ infoRequested \in BOOLEAN /\ hasStatus \in BOOLEAN

LEMMA QueueTypes ==
  ASSUME NEW S, NEW s \in Seq(S)
  PROVE  /\ \A e \in S : Append(s, e) \in Seq(S)
         /\ s # <<>> => Tail(s) \in Seq(S) /\ Head(s) \in S
  OBVIOUS

\* What one call of receive, one tick or one step of the sender does to it.
LEMMA NextInv == IInv /\ [Next]_discoveryVars => IInv'
<1> SUFFICES ASSUME IInv, [Next]_discoveryVars
             PROVE  IInv'
  OBVIOUS
<1> USE DiscoveryAssumption
<1>d. ASSUME down' \in Seq(DownKinds)
      PROVE  \A i \in DOMAIN down' : down'[i] \in DownKinds
  BY <1>d
<1>f. /\ Frame("HEARTBEAT") \in UpFrames /\ Frame("STATUS_REPORT") \in UpFrames
      /\ Frame("INFO_REPORT") \in UpFrames
  BY DEF IInv, DiscoveryTypeOK, Frame, UpFrames
<1>1. CASE Receive \/ FirstFrame
  <2>0. Handle /\ linked' \in BOOLEAN
    BY <1>1 DEF Receive, FirstFrame, IInv, DiscoveryTypeOK
  <2>1. up' \in Seq(UpFrames) /\ Head(up) \in UpFrames
    BY <2>0, QueueTypes DEF Handle, IInv
  <2>2. down' \in Seq(DownKinds)
    <3>1. ASSUME NEW q \in Seq(DownKinds), NEW e \in DownKinds
          PROVE  Put(q, e) \in Seq(DownKinds)
      BY QueueTypes DEF Put
    <3>2. "GET_INFO" \in DownKinds /\ "ACK" \in DownKinds
      BY DEF DownKinds
    <3>3. PICK asked : asked = IF Asks THEN Put(down, "GET_INFO") ELSE down
      OBVIOUS
    <3>4. asked \in Seq(DownKinds)
      BY <3>1, <3>2, <3>3 DEF IInv
    <3>5. down' = IF Head(up).kind = "INFO_REPORT" THEN Put(asked, "ACK") ELSE asked
      BY <2>0, <3>3 DEF Handle
    <3>6. QED BY <3>1, <3>2, <3>4, <3>5
  <2>3. name' \in Units \cup {None}
    BY <2>0, <2>1 DEF Handle, IInv, DiscoveryTypeOK, UpFrames
  <2>4. online' = TRUE /\ silent' = 0 /\ hasStatus' \in BOOLEAN /\ infoRequested' \in BOOLEAN
    <3>1. /\ online' = TRUE /\ silent' = 0
          /\ infoRequested' = (infoRequested \/ Asks)
          /\ hasStatus' = (hasStatus \/ Head(up).kind = "STATUS_REPORT")
      BY <2>0 DEF Handle
    <3>2. infoRequested \in BOOLEAN /\ hasStatus \in BOOLEAN
      BY DEF IInv
    <3>3. (infoRequested \/ Asks) \in BOOLEAN
      OBVIOUS
    <3>4. (hasStatus \/ Head(up).kind = "STATUS_REPORT") \in BOOLEAN
      OBVIOUS
    <3> QED
      BY <3>1, <3>3, <3>4
  <2>5. queries' \in 0 .. 1 /\ (queries' = 1 => infoRequested')
    <3>1. queries \in 0 .. 1 /\ (queries = 1 => infoRequested)
      BY DEF IInv
    <3>2. CASE Asks
      <4>1. ~infoRequested /\ queries = 0
        BY <3>1, <3>2 DEF Asks
      <4>2. queries' = queries + 1 /\ infoRequested'
        BY <2>0, <3>2 DEF Handle
      <4> QED
        BY <4>1, <4>2
    <3>3. CASE ~Asks
      <4>1. queries' = queries /\ (infoRequested => infoRequested')
        BY <2>0, <3>3 DEF Handle
      <4> QED
        BY <3>1, <4>1
    <3> QED
      BY <3>2, <3>3
  <2>6. unit' \in Units /\ owed' \in 0 .. MaxTries /\ faults' \in 0 .. MaxFaults
    BY <2>0 DEF Handle, IInv, DiscoveryTypeOK, unitVars
  <2>7. silent' \in 0 .. Timeout
    BY <2>4
  <2>8. \A i \in DOMAIN down' : down'[i] \in DownKinds
    BY <1>d, <2>2
  <2>9. DiscoveryTypeOK'
    BY <2>0, <2>3, <2>4, <2>6, <2>7, <2>8, Zenon DEF DiscoveryTypeOK
  <2> QED
    BY <2>1, <2>2, <2>4, <2>5, <2>9, Zenon DEF IInv
<1>2. CASE Tick
  <2>1. /\ online' = FALSE /\ hasStatus' = FALSE /\ infoRequested' = FALSE /\ queries' = 0
        /\ UNCHANGED <<silent, name, unit, owed, linked, up, down, faults>>
    BY <1>2 DEF Tick, unitVars
  <2>2. DiscoveryTypeOK'
    BY <2>1, Zenon DEF IInv, DiscoveryTypeOK
  <2>3. queries' \in 0 .. 1 /\ ~(queries' = 1)
    BY <2>1
  <2> QED
    BY <2>1, <2>2, <2>3, Zenon DEF IInv
<1>3. CASE Pass
  BY <1>3 DEF Pass, IInv, DiscoveryTypeOK, identityVars, unitVars
<1>4. CASE Emit
  <2>1. up' \in Seq(UpFrames)
    BY <1>4, <1>f, QueueTypes DEF Emit, IInv
  <2> QED
    BY <1>4, <2>1 DEF Emit, IInv, DiscoveryTypeOK, healthVars, identityVars, unitVars
<1>5. CASE Answer \/ Take
  <2>1. up' \in Seq(UpFrames)
    BY <1>5, <1>f, QueueTypes DEF Answer, Take, IInv
  <2>2. down' \in Seq(DownKinds)
    <3>1. down # <<>> /\ down' = Tail(down)
      BY <1>5 DEF Answer, Take
    <3> QED
      BY <3>1, QueueTypes DEF IInv
  <2>3. owed' \in 0 .. MaxTries
    BY <1>5 DEF Answer, Take, IInv, DiscoveryTypeOK
  <2>4. UNCHANGED <<healthVars, identityVars, unit, linked, faults>>
    BY <1>5 DEF Answer, Take
  <2> QED
    BY <1>d, <2>1, <2>2, <2>3, <2>4 DEF IInv, DiscoveryTypeOK, healthVars, identityVars
<1>6. CASE Retry
  <2>1. up' \in Seq(UpFrames)
    BY <1>6, <1>f, QueueTypes DEF Retry, Put, IInv
  <2>2. owed' \in 0 .. MaxTries
    BY <1>6 DEF Retry, IInv, DiscoveryTypeOK
  <2> QED
    BY <1>6, <2>1, <2>2 DEF Retry, IInv, DiscoveryTypeOK, healthVars, identityVars
<1>7. CASE Break
  <2>1. linked' = FALSE /\ faults' \in 0 .. MaxFaults
    BY <1>7 DEF Break, IInv, DiscoveryTypeOK
  <2>2. UNCHANGED <<online, silent, hasStatus, name, infoRequested, queries, unit, owed, up, down>>
    BY <1>7 DEF Break, healthVars, identityVars, unitVars
  <2> QED
    BY <2>1, <2>2, Zenon DEF IInv, DiscoveryTypeOK
<1>8. CASE Swallow
  <2>1. up' \in Seq(UpFrames) /\ down' \in Seq(DownKinds)
    BY <1>8, QueueTypes DEF Swallow, IInv
  <2> QED
    BY <1>8, <1>d, <2>1
    DEF Swallow, IInv, DiscoveryTypeOK, healthVars, identityVars, unitVars
<1>9. CASE Relink
  BY <1>9 DEF Relink, IInv, DiscoveryTypeOK, healthVars, identityVars, unitVars
<1>10. CASE Swap
  BY <1>10 DEF Swap, IInv, DiscoveryTypeOK, healthVars, identityVars
<1>11. CASE QueueOther
  <2>1. down' \in Seq(DownKinds)
    BY <1>11, QueueTypes DEF QueueOther, DownKinds, IInv
  <2> QED
    BY <1>11, <1>d, <2>1
    DEF QueueOther, IInv, DiscoveryTypeOK, healthVars, identityVars, unitVars
<1>12. CASE UNCHANGED discoveryVars
  BY <1>12 DEF discoveryVars, IInv, DiscoveryTypeOK, healthVars, identityVars, unitVars
<1> QED
  BY <1>1, <1>2, <1>3, <1>4, <1>5, <1>6, <1>7, <1>8, <1>9, <1>10, <1>11, <1>12 DEF Next

\* It holds from the start and at every step.
THEOREM DiscoveryInvariant == Spec => []IInv
<1>1. Init => IInv
  <2> SUFFICES ASSUME Init PROVE IInv
    OBVIOUS
  <2>1. /\ silent \in 0 .. Timeout /\ owed \in 0 .. MaxTries /\ faults \in 0 .. MaxFaults
        /\ queries \in 0 .. 1 /\ ~(queries = 1)
    BY DiscoveryAssumption DEF Init
  <2>2. up \in Seq(UpFrames) /\ down \in Seq(DownKinds) /\ DOMAIN down = {}
    BY DEF Init
  <2> QED
    BY <2>1, <2>2, Zenon DEF Init, IInv, DiscoveryTypeOK
<1> QED
  BY <1>1, NextInv, PTL DEF Spec

\* The types, and that an offline sender has no status and no query open.
THEOREM TypeCorrect == Spec => []DiscoveryTypeOK
<1>1. IInv => DiscoveryTypeOK
  BY DEF IInv
<1> QED
  BY <1>1, DiscoveryInvariant, PTL

\* Discovery costs one query per online session at most, however often the
\* connection breaks and whatever is lost.
THEOREM OneQueryCorrect == Spec => []OneQueryPerSession
<1>1. IInv => OneQueryPerSession
  BY DEF IInv, OneQueryPerSession
<1> QED
  BY <1>1, DiscoveryInvariant, PTL

=============================================================================
