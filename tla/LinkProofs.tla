----------------------------- MODULE LinkProofs -----------------------------
(***************************************************************************)
(* What the links keep of their frames: a serial link (UartLink) and a     *)
(* Sender's TCP session (TcpLink), for every queue length, every set of    *)
(* refused frames and connections and every bound; and a spoke of the hub  *)
(* (HubSpoke), for every length of a frame and of its buffer.              *)
(***************************************************************************)
EXTENDS Links, SequenceInduction

-----------------------------------------------------------------------------
(* The serial link.                                                        *)

\* What Append and Tail do to a sequence and to its length.
LEMMA QueueSteps ==
  ASSUME NEW S, NEW s \in Seq(S), NEW e \in S
  PROVE  /\ Append(s, e) \in Seq(S) /\ Len(Append(s, e)) = Len(s) + 1
         /\ Len(s) \in Nat
         /\ s # <<>> => /\ Tail(s) \in Seq(S) /\ Len(Tail(s)) = Len(s) - 1
                        /\ Head(s) \in S /\ Len(s) > 0
  OBVIOUS

\* A sequence of small numbers is one of larger numbers.
LEMMA SeqWiden ==
  ASSUME NEW a \in Nat, NEW m \in Nat, NEW n \in Nat, m <= n, NEW s \in Seq(a .. m)
  PROVE  s \in Seq(a .. n)
  OBVIOUS

\* Every variable keeps its type and the queue its bound, whatever the order
\* of sends, disconnections and exceptions.
THEOREM TypeCorrect == UartSpec => []UartTypeOK
<1>1. Init => UartTypeOK
  BY UartLinkAssumption DEF Init, UartTypeOK
<1>2. UartTypeOK /\ [Next]_uartVars => UartTypeOK'
  <2> SUFFICES ASSUME UartTypeOK, [Next]_uartVars
               PROVE  UartTypeOK'
    OBVIOUS
  <2> USE UartLinkAssumption DEF UartTypeOK
  <2>1. CASE Send
    <3>1. queue \in Seq(1 .. sent') /\ written \in Seq(1 .. sent') /\ sent' \in 1 .. sent'
      BY <2>1, SeqWiden DEF Send
    <3>2. Append(queue, sent') \in Seq(1 .. sent')
      BY <3>1, QueueSteps
    <3>3. Len(queue) \in Nat /\ Len(Append(queue, sent')) = Len(queue) + 1
      BY <3>1, QueueSteps
    <3>4. queue' \in Seq(1 .. sent') /\ Len(queue') <= MaxQueue /\ dropped' \in Nat
      <4>1. Len(queue) \in Nat /\ MaxQueue \in Nat /\ dropped \in Nat
        BY <3>3
      <4>2. CASE Len(queue) < MaxQueue
        <5>1. queue' = Append(queue, sent') /\ dropped' = dropped
          BY <2>1, <4>2 DEF Send
        <5> QED
          BY <3>2, <3>3, <4>1, <4>2, <5>1
      <4>3. CASE ~(Len(queue) < MaxQueue)
        <5>1. queue' = queue /\ dropped' = dropped + 1
          BY <2>1, <4>3 DEF Send
        <5> QED
          BY <3>1, <4>1, <5>1
      <4> QED
        BY <4>2, <4>3
    <3> QED
      BY <2>1, <3>1, <3>4 DEF Send, rxVars
  <2>2. CASE Transmit
    <3>1. /\ Tail(queue) \in Seq(1 .. sent) /\ Len(Tail(queue)) = Len(queue) - 1
          /\ Head(queue) \in 1 .. sent /\ Len(queue) \in Nat
      BY <2>2, QueueSteps DEF Transmit
    <3>2. Append(written, Head(queue)) \in Seq(1 .. sent)
      BY <3>1, QueueSteps
    <3> QED
      BY <2>2, <3>1, <3>2 DEF Transmit, rxVars
  <2>3. CASE Open
    BY <2>3 DEF Open, txVars
  <2>4. CASE Disconnect
    <3>1. queue # <<>> => /\ Tail(queue) \in Seq(1 .. sent)
                          /\ Len(Tail(queue)) = Len(queue) - 1
      BY QueueSteps
    <3>2. Len(queue) \in Nat
      BY QueueSteps
    <3>3. queue' \in Seq(1 .. sent') /\ Len(queue') <= MaxQueue /\ lost' \in Nat
      <4>1. Len(queue) <= MaxQueue /\ MaxQueue \in Nat /\ lost \in Nat /\ sent' = sent
        BY <2>4 DEF Disconnect
      <4>2. CASE queue' = queue /\ lost' = lost
        BY <3>2, <4>1, <4>2
      <4>3. CASE queue # <<>> /\ queue' = Tail(queue) /\ lost' = lost + 1
        <5>1. Tail(queue) \in Seq(1 .. sent) /\ Len(Tail(queue)) = Len(queue) - 1
          BY <3>1, <4>3
        <5> QED
          BY <3>2, <4>1, <4>3, <5>1
      <4> QED
        BY <2>4, <4>2, <4>3 DEF Disconnect
    <3> QED
      BY <2>4, <3>3 DEF Disconnect, rxVars
  <2>5. CASE Receive
    <3>1. Tail(line) \in Seq(0 .. spoken) /\ Head(line) \in 0 .. spoken
      BY <2>5, QueueSteps DEF Receive
    <3>2. heard' \in Seq(1 .. spoken)
      <4>1. CASE Head(line) = 0
        BY <2>5, <4>1 DEF Receive
      <4>2. CASE Head(line) # 0
        <5>1. Head(line) \in 1 .. spoken
          BY <3>1, <4>2
        <5>2. Append(heard, Head(line)) \in Seq(1 .. spoken)
          BY <5>1, QueueSteps
        <5> QED
          BY <2>5, <4>2, <5>2 DEF Receive
      <4> QED
        BY <4>1, <4>2
    <3>3. mode' \in {"closed", "open", "dead"} /\ {stale', disconnects'} \subseteq Nat
      BY <2>5 DEF Receive
    <3> QED
      BY <2>5, <3>1, <3>2, <3>3 DEF Receive, txVars
  <2>6. CASE StaleTakes
    <3>1. Tail(line) \in Seq(0 .. spoken) /\ <<0>> \in Seq(0 .. spoken)
      BY <2>6, QueueSteps DEF StaleTakes
    <3>2. <<0>> \o Tail(line) \in Seq(0 .. spoken)
      BY <3>1
    <3> QED
      BY <2>6, <3>1, <3>2 DEF StaleTakes, txVars
  <2>7. CASE StaleFills
    BY <2>7 DEF StaleFills, txVars, rxVars
  <2>8. CASE Speak
    <3>0. /\ spoken' \in Nat /\ spoken \in Nat /\ spoken <= spoken'
          /\ spoken' \in 0 .. spoken' /\ 0 \in 0 .. spoken'
      BY <2>8 DEF Speak
    <3>1. line \in Seq(0 .. spoken') /\ heard \in Seq(1 .. spoken')
      BY <3>0, SeqWiden
    <3>2. line' \in Seq(0 .. spoken')
      <4>1. /\ Append(line, spoken') \in Seq(0 .. spoken')
            /\ Append(line, 0) \in Seq(0 .. spoken')
        BY <3>0, <3>1, QueueSteps
      <4> QED
        BY <2>8, <3>1, <4>1 DEF Speak
    <3> QED
      BY <2>8, <3>0, <3>1, <3>2 DEF Speak, txVars
  <2>9. CASE Unplug
    <3>1. line' \in Seq(0 .. spoken)
      BY <2>9 DEF Unplug
    <3>2. mode' \in {"closed", "open", "dead"} /\ {stale', faults'} \subseteq Nat
      BY <2>9 DEF Unplug
    <3> QED
      BY <2>9, <3>1, <3>2 DEF Unplug, txVars
  <2>10. CASE Plug
    BY <2>10 DEF Plug, txVars, rxVars
  <2>11. CASE UNCHANGED uartVars
    BY <2>11 DEF uartVars, txVars, rxVars
  <2> QED
    BY <2>1, <2>2, <2>3, <2>4, <2>5, <2>6, <2>7, <2>8, <2>9, <2>10, <2>11 DEF Next
<1> QED
  BY <1>1, <1>2, PTL DEF UartSpec

\* Every frame given to send is accounted for, and a disconnection costs one
\* at most.
THEOREM LossCorrect == UartSpec => []LossAccounted
<1>1. Init => LossAccounted
  BY DEF Init, LossAccounted
<1>2. UartTypeOK /\ LossAccounted /\ [Next]_uartVars => LossAccounted'
  <2> SUFFICES ASSUME UartTypeOK, LossAccounted, [Next]_uartVars
               PROVE  LossAccounted'
    OBVIOUS
  <2>1. queue \in Seq(1 .. sent) /\ written \in Seq(1 .. sent) /\ sent \in Nat
    BY DEF UartTypeOK
  <2>2. dropped \in Nat /\ lost \in Nat /\ disconnects \in Nat
    BY DEF UartTypeOK
  <2>3. Len(queue) \in Nat /\ Len(written) \in Nat
    BY <2>1
  <2>4. sent = Len(written) + Len(queue) + dropped + lost /\ lost <= disconnects
    BY DEF LossAccounted
  \* How much each of the books moves decides the new balance.
  <2> SUFFICES /\ sent' = Len(written') + Len(queue') + dropped' + lost'
               /\ lost' <= disconnects'
    BY DEF LossAccounted
  <2>5. CASE Send
    <3>1. queue \in Seq(Nat) /\ sent' \in Nat
      BY <2>1, <2>5 DEF Send
    <3>2. Len(Append(queue, sent')) = Len(queue) + 1
      BY <3>1, QueueSteps
    <3>3. /\ sent' = sent + 1 /\ written' = written /\ lost' = lost
          /\ disconnects' = disconnects
      BY <2>5 DEF Send
    <3>4. \/ Len(queue') = Len(queue) + 1 /\ dropped' = dropped
          \/ Len(queue') = Len(queue) /\ dropped' = dropped + 1
      BY <2>5, <3>2 DEF Send
    <3>5. Len(written') = Len(written)
      BY <3>3
    <3> QED
      BY <2>1, <2>2, <2>3, <2>4, <3>3, <3>4, <3>5
  <2>6. CASE Transmit
    <3>1. Len(Tail(queue)) = Len(queue) - 1 /\ Len(Append(written, Head(queue))) = Len(written) + 1
      BY <2>1, <2>6, QueueSteps DEF Transmit
    <3>2. Len(queue') = Len(queue) - 1 /\ Len(written') = Len(written) + 1
      BY <2>6, <3>1 DEF Transmit
    <3>3. /\ sent' = sent /\ dropped' = dropped /\ lost' = lost
          /\ disconnects' = disconnects
      BY <2>6 DEF Transmit
    <3> QED
      BY <2>1, <2>2, <2>3, <2>4, <3>2, <3>3
  <2>7. CASE Disconnect
    <3>1. queue # <<>> => Len(Tail(queue)) = Len(queue) - 1
      BY <2>1, QueueSteps
    <3>2. /\ sent' = sent /\ written' = written /\ dropped' = dropped
          /\ disconnects' = disconnects + 1
      BY <2>7 DEF Disconnect
    <3>3. \/ UNCHANGED <<queue, lost>>
          \/ queue # <<>> /\ queue' = Tail(queue) /\ lost' = lost + 1
      BY <2>7 DEF Disconnect
    <3>4. \/ Len(queue') = Len(queue) /\ lost' = lost
          \/ Len(queue') = Len(queue) - 1 /\ lost' = lost + 1
      BY <3>1, <3>3
    <3>5. Len(written') = Len(written)
      BY <3>2
    <3> QED
      BY <2>1, <2>2, <2>3, <2>4, <3>2, <3>4, <3>5
  <2>8. ASSUME UNCHANGED <<txVars, disconnects>>
        PROVE  /\ sent' = Len(written') + Len(queue') + dropped' + lost'
               /\ lost' <= disconnects'
    BY <2>4, <2>8 DEF txVars
  <2>9. CASE Receive
    <3>1. \/ UNCHANGED <<txVars, disconnects>>
          \/ UNCHANGED txVars /\ disconnects' = disconnects + 1
      BY <2>9 DEF Receive
    <3>2. CASE UNCHANGED txVars /\ disconnects' = disconnects + 1
      BY <2>2, <2>4, <3>2 DEF txVars
    <3> QED
      BY <2>8, <3>1, <3>2
  <2>10. CASE Open \/ StaleTakes \/ StaleFills \/ Speak \/ Unplug \/ Plug
    BY <2>8, <2>10 DEF Open, StaleTakes, StaleFills, Speak, Unplug, Plug
  <2> QED
    BY <2>5, <2>6, <2>7, <2>8, <2>9, <2>10 DEF Next, uartVars
<1> QED
  BY <1>1, <1>2, TypeCorrect, PTL DEF UartSpec

\* s and t one after the other, every element of s below every one of t.
Below(s, t) == \A i \in DOMAIN s, j \in DOMAIN t : s[i] < t[j]

\* A concatenation increases exactly when its parts do, one below the other.
LEMMA IncreasingParts ==
  ASSUME NEW s \in Seq(Nat), NEW t \in Seq(Nat)
  PROVE  Increasing(s \o t) <=> Increasing(s) /\ Increasing(t) /\ Below(s, t)
<1> DEFINE c == s \o t
<1>0. /\ Len(s) \in Nat /\ Len(t) \in Nat
      /\ DOMAIN s = 1 .. Len(s) /\ DOMAIN t = 1 .. Len(t)
      /\ c \in Seq(Nat) /\ Len(c) = Len(s) + Len(t) /\ DOMAIN c = 1 .. Len(c)
  OBVIOUS
<1>1. \A i \in 1 .. Len(s) : i \in DOMAIN c /\ c[i] = s[i]
  BY <1>0
<1>2. \A j \in 1 .. Len(t) : j + Len(s) \in DOMAIN c /\ c[j + Len(s)] = t[j]
  BY <1>0
<1>3. \A i \in DOMAIN c : i > Len(s) => i - Len(s) \in 1 .. Len(t) /\ c[i] = t[i - Len(s)]
  BY <1>0
<1> HIDE DEF c
<1>4. ASSUME Increasing(c) PROVE Increasing(s) /\ Increasing(t) /\ Below(s, t)
  <2>1. Increasing(s)
    BY <1>0, <1>1, <1>4 DEF Increasing
  <2>2. Increasing(t)
    <3> SUFFICES ASSUME NEW i \in 1 .. Len(t), NEW j \in 1 .. Len(t), i < j
                 PROVE  t[i] < t[j]
      BY <1>0 DEF Increasing
    <3>1. i + Len(s) < j + Len(s)
      BY <1>0
    <3> QED
      BY <1>2, <1>4, <3>1 DEF Increasing
  <2>3. Below(s, t)
    <3> SUFFICES ASSUME NEW i \in 1 .. Len(s), NEW j \in 1 .. Len(t)
                 PROVE  s[i] < t[j]
      BY <1>0 DEF Below
    <3>1. i < j + Len(s)
      BY <1>0
    <3> QED
      BY <1>1, <1>2, <1>4, <3>1 DEF Increasing
  <2> QED
    BY <2>1, <2>2, <2>3
<1>5. ASSUME Increasing(s), Increasing(t), Below(s, t) PROVE Increasing(c)
  <2> SUFFICES ASSUME NEW i \in DOMAIN c, NEW j \in DOMAIN c, i < j
               PROVE  c[i] < c[j]
    BY DEF Increasing
  <2>1. i \in Nat /\ j \in Nat /\ i >= 1 /\ j >= 1 /\ i <= Len(c) /\ j <= Len(c)
    BY <1>0
  <2>2. CASE j <= Len(s)
    <3>1. i \in 1 .. Len(s) /\ j \in 1 .. Len(s)
      BY <1>0, <2>1, <2>2
    <3> QED
      BY <1>0, <1>1, <1>5, <3>1 DEF Increasing
  <2>3. CASE i <= Len(s) /\ j > Len(s)
    <3>1. i \in 1 .. Len(s)
      BY <1>0, <2>1, <2>3
    <3>2. j - Len(s) \in 1 .. Len(t) /\ c[j] = t[j - Len(s)]
      BY <1>3, <2>3
    <3> QED
      BY <1>0, <1>1, <1>5, <3>1, <3>2 DEF Below
  <2>4. CASE i > Len(s)
    <3>1. /\ i - Len(s) \in 1 .. Len(t) /\ c[i] = t[i - Len(s)]
          /\ j - Len(s) \in 1 .. Len(t) /\ c[j] = t[j - Len(s)]
      BY <1>0, <1>3, <2>1, <2>4
    <3>2. i - Len(s) < j - Len(s)
      BY <1>0, <2>1
    <3> QED
      BY <1>0, <1>5, <3>1, <3>2 DEF Increasing
  <2> QED
    BY <1>0, <2>1, <2>2, <2>3, <2>4
<1> QED
  BY <1>4, <1>5 DEF c

\* The same of the two ways a sequence grows by one element and of the one in
\* which it loses its first.
LEMMA IncreasingSteps ==
  ASSUME NEW s \in Seq(Nat), NEW e \in Nat, Increasing(s)
  PROVE  /\ (\A i \in DOMAIN s : s[i] < e) => Increasing(Append(s, e))
         /\ s # <<>> => /\ Increasing(Tail(s))
                        /\ \A i \in DOMAIN Tail(s) : Head(s) < Tail(s)[i]
<1>0. Len(s) \in Nat /\ DOMAIN s = 1 .. Len(s)
  OBVIOUS
<1>1. ASSUME \A i \in DOMAIN s : s[i] < e PROVE Increasing(Append(s, e))
  <2>1. /\ DOMAIN Append(s, e) = 1 .. Len(s) + 1 /\ Append(s, e)[Len(s) + 1] = e
        /\ \A i \in 1 .. Len(s) : Append(s, e)[i] = s[i]
    OBVIOUS
  <2> SUFFICES ASSUME NEW i \in 1 .. Len(s) + 1, NEW j \in 1 .. Len(s) + 1, i < j
               PROVE  Append(s, e)[i] < Append(s, e)[j]
    BY <2>1 DEF Increasing
  <2>2. i \in 1 .. Len(s)
    BY <1>0
  <2>3. CASE j = Len(s) + 1
    BY <1>0, <1>1, <2>1, <2>2, <2>3
  <2>4. CASE j \in 1 .. Len(s)
    BY <1>0, <2>1, <2>2, <2>4 DEF Increasing
  <2> QED
    BY <1>0, <2>3, <2>4
<1>2. ASSUME s # <<>>
      PROVE  Increasing(Tail(s)) /\ \A i \in DOMAIN Tail(s) : Head(s) < Tail(s)[i]
  <2>1. /\ Len(s) > 0 /\ Head(s) = s[1] /\ DOMAIN Tail(s) = 1 .. Len(s) - 1
        /\ \A i \in 1 .. Len(s) - 1 : Tail(s)[i] = s[i + 1]
    BY <1>0, <1>2
  <2>2. \A i \in 1 .. Len(s) - 1 : i + 1 \in DOMAIN s /\ 1 < i + 1 /\ 1 \in DOMAIN s
    BY <1>0, <2>1
  <2>3. \A i \in DOMAIN Tail(s) : Head(s) < Tail(s)[i]
    BY <2>1, <2>2 DEF Increasing
  <2>4. Increasing(Tail(s))
    <3> SUFFICES ASSUME NEW i \in 1 .. Len(s) - 1, NEW j \in 1 .. Len(s) - 1, i < j
                 PROVE  Tail(s)[i] < Tail(s)[j]
      BY <2>1 DEF Increasing
    <3>1. i + 1 < j + 1
      BY <1>0
    <3> QED
      BY <2>1, <2>2, <3>1 DEF Increasing
  <2> QED
    BY <2>3, <2>4
<1> QED
  BY <1>1, <1>2

\* Frames are written in the order they were sent and never twice, over any
\* number of disconnections: the invariant itself is inductive once split
\* into its two sequences.
THEOREM WrittenCorrect == UartSpec => []WrittenInOrder
<1> DEFINE Parts == Increasing(written) /\ Increasing(queue) /\ Below(written, queue)
<1>1. Init => Parts
  BY DEF Init, Increasing, Below
<1>2. UartTypeOK /\ Parts /\ [Next]_uartVars => Parts'
  <2> SUFFICES ASSUME UartTypeOK, Parts, [Next]_uartVars
               PROVE  Parts'
    OBVIOUS
  <2>0. /\ queue \in Seq(1 .. sent) /\ written \in Seq(1 .. sent) /\ sent \in Nat
        /\ queue \in Seq(Nat) /\ written \in Seq(Nat)
        /\ DOMAIN queue = 1 .. Len(queue) /\ DOMAIN written = 1 .. Len(written)
    BY DEF UartTypeOK
  <2>10. queue # <<>> =>
          /\ Len(queue) \in Nat /\ Len(queue) > 0 /\ 1 \in DOMAIN queue
          /\ Head(queue) = queue[1] /\ Head(queue) \in Nat
          /\ DOMAIN Tail(queue) = 1 .. Len(queue) - 1
          /\ \A j \in 1 .. Len(queue) - 1 :
               j + 1 \in DOMAIN queue /\ Tail(queue)[j] = queue[j + 1]
    BY <2>0
  <2>1. CASE Send
    <3>1. /\ sent' = sent + 1 /\ written' = written
          /\ queue' = Append(queue, sent + 1) \/ queue' = queue
      BY <2>1 DEF Send
    <3>2. CASE queue' = Append(queue, sent + 1)
      <4>1. /\ \A i \in DOMAIN queue : queue[i] < sent + 1
            /\ \A i \in DOMAIN written : written[i] < sent + 1
        BY <2>0
      <4>2. Increasing(Append(queue, sent + 1))
        BY <2>0, <4>1, IncreasingSteps
      <4>3. Below(written, Append(queue, sent + 1))
        <5>1. /\ DOMAIN Append(queue, sent + 1) = 1 .. Len(queue) + 1
              /\ Append(queue, sent + 1)[Len(queue) + 1] = sent + 1
              /\ \A j \in 1 .. Len(queue) : Append(queue, sent + 1)[j] = queue[j]
          BY <2>0
        <5> QED
          BY <2>0, <4>1, <5>1 DEF Below
      <4> QED
        BY <3>1, <3>2, <4>2, <4>3
    <3>3. CASE queue' = queue
      BY <3>1, <3>3
    <3> QED
      BY <3>1, <3>2, <3>3
  <2>2. CASE Transmit
    <3>1. queue # <<>> /\ queue' = Tail(queue) /\ written' = Append(written, Head(queue))
      BY <2>2 DEF Transmit
    <3>2. \A i \in DOMAIN written : written[i] < Head(queue)
      BY <2>10, <3>1 DEF Below
    <3>3. Increasing(Append(written, Head(queue)))
      BY <2>0, <2>10, <3>1, <3>2, IncreasingSteps
    <3>4. /\ Increasing(Tail(queue))
          /\ \A j \in DOMAIN Tail(queue) : Head(queue) < Tail(queue)[j]
      BY <2>0, <3>1, IncreasingSteps
    <3>5. Below(Append(written, Head(queue)), Tail(queue))
      <4>1. /\ DOMAIN Append(written, Head(queue)) = 1 .. Len(written) + 1
            /\ Append(written, Head(queue))[Len(written) + 1] = Head(queue)
            /\ \A i \in 1 .. Len(written) : Append(written, Head(queue))[i] = written[i]
        BY <2>0
      <4>2. \A i \in DOMAIN written, j \in DOMAIN Tail(queue) : written[i] < Tail(queue)[j]
        BY <2>10, <3>1 DEF Below
      <4> QED
        BY <2>0, <3>4, <4>1, <4>2 DEF Below
    <3> QED
      BY <3>1, <3>3, <3>4, <3>5
  <2>3. CASE Disconnect
    <3>1. /\ written' = written
          /\ queue' = queue \/ (queue # <<>> /\ queue' = Tail(queue))
      BY <2>3 DEF Disconnect
    <3>2. CASE queue # <<>> /\ queue' = Tail(queue)
      <4>1. Increasing(Tail(queue))
        BY <2>0, <3>2, IncreasingSteps
      <4>2. Below(written, Tail(queue))
        BY <2>10, <3>2 DEF Below
      <4> QED
        BY <3>1, <3>2, <4>1, <4>2
    <3> QED
      BY <3>1, <3>2
  <2>4. CASE Open \/ Receive \/ StaleTakes \/ StaleFills \/ Speak \/ Unplug \/ Plug
    <3>1. UNCHANGED <<queue, written>>
      BY <2>4 DEF Open, Receive, StaleTakes, StaleFills, Speak, Unplug, Plug, txVars
    <3> QED
      BY <3>1
  <2>5. CASE UNCHANGED uartVars
    BY <2>5 DEF uartVars, txVars
  <2> QED
    BY <2>1, <2>2, <2>3, <2>4, <2>5 DEF Next
<1>3. UartTypeOK /\ Parts => WrittenInOrder
  <2> SUFFICES ASSUME UartTypeOK, Parts PROVE WrittenInOrder
    OBVIOUS
  <2>1. queue \in Seq(Nat) /\ written \in Seq(Nat)
    BY DEF UartTypeOK
  <2> QED
    BY <2>1, IncreasingParts DEF WrittenInOrder
<1> QED
  BY <1>1, <1>2, <1>3, TypeCorrect, PTL DEF UartSpec

\* What is written keeps its order, and what is not is waiting or was counted.
THEOREM AccountedCorrect == UartSpec => []WrittenAccounted
<1>1. WrittenInOrder /\ LossAccounted => WrittenAccounted
  BY DEF WrittenAccounted
<1> QED
  BY <1>1, LossCorrect, WrittenCorrect, PTL

-----------------------------------------------------------------------------
(* Reception.  0 stands for what cannot be decoded, and has no place in    *)
(* the order.                                                              *)

Garbled == 0

Rises(s) == \A i, j \in DOMAIN s : i < j /\ s[i] # 0 /\ s[j] # 0 => s[i] < s[j]
RisesAfter(s, t) == \A i \in DOMAIN s, j \in DOMAIN t : t[j] # 0 => s[i] < t[j]

\* The far end's order survives on the line: its frames rise, and all that
\* are still to be read come after those the handler got.
Received == Increasing(heard) /\ Rises(line) /\ RisesAfter(heard, line)

\* What is read from a list of numbers, and what is added to it.
LEMMA LineSteps ==
  ASSUME NEW s \in Seq(Nat), NEW e \in Nat
  PROVE  /\ Len(s) \in Nat /\ DOMAIN s = 1 .. Len(s)
         /\ s # <<>> => /\ Len(s) > 0 /\ Head(s) = s[1] /\ Tail(s) \in Seq(Nat)
                        /\ DOMAIN Tail(s) = 1 .. Len(s) - 1
                        /\ \A k \in 1 .. Len(s) - 1 : Tail(s)[k] = s[k + 1]
         /\ DOMAIN Append(s, e) = 1 .. Len(s) + 1
         /\ Append(s, e)[Len(s) + 1] = e
         /\ \A k \in 1 .. Len(s) : Append(s, e)[k] = s[k]
  OBVIOUS

\* Losing the first frame, or having it garbled, disturbs no order.
LEMMA LineLosesHead ==
  ASSUME NEW s \in Seq(Nat), s # <<>>, Rises(s), NEW h \in Seq(Nat), RisesAfter(h, s),
         NEW t \in Seq(Nat), t = Tail(s) \/ t = <<Garbled>> \o Tail(s)
  PROVE  Rises(t) /\ RisesAfter(h, t)
<1>1. PICK n \in Nat : n = Len(s) /\ DOMAIN s = 1 .. n /\ n > 0
  BY LineSteps
<1>2. DOMAIN Tail(s) = 1 .. n - 1 /\ \A k \in 1 .. n - 1 : Tail(s)[k] = s[k + 1]
  BY <1>1, LineSteps
<1>3. \A k \in 1 .. n - 1 : k + 1 \in 1 .. n
  OBVIOUS
<1>4. CASE t = Tail(s)
  <2>1. \A i, j \in 1 .. n - 1 : i < j => i + 1 < j + 1
    OBVIOUS
  <2>2. Rises(t)
    BY <1>1, <1>2, <1>3, <1>4, <2>1 DEF Rises
  <2>3. RisesAfter(h, t)
    BY <1>1, <1>2, <1>3, <1>4 DEF RisesAfter
  <2> QED
    BY <2>2, <2>3
<1>5. CASE t = <<Garbled>> \o Tail(s)
  <2>1. PICK u \in Seq(Nat) : u = Tail(s) /\ Len(u) = n - 1
    BY <1>1, QueueSteps
  <2>2. DOMAIN t = 1 .. n /\ t[1] = 0 /\ \A k \in 2 .. n : t[k] = u[k - 1]
    BY <1>1, <1>5, <2>1 DEF Garbled
  <2>3. \A k \in 2 .. n : k - 1 \in 1 .. n - 1 /\ (k - 1) + 1 = k
    OBVIOUS
  <2>4. \A k \in 2 .. n : t[k] = s[k]
    BY <1>2, <2>1, <2>2, <2>3
  <2>5. \A k \in 1 .. n : k = 1 \/ k \in 2 .. n
    OBVIOUS
  <2>6. \A k \in 1 .. n : t[k] = 0 \/ t[k] = s[k]
    BY <2>2, <2>4, <2>5
  <2>7. Rises(t)
    BY <1>1, <2>2, <2>6 DEF Rises
  <2>8. RisesAfter(h, t)
    BY <1>1, <2>2, <2>6 DEF RisesAfter
  <2> QED
    BY <2>7, <2>8
<1> QED
  BY <1>4, <1>5

\* A frame newer than everything before it, or garbled, goes on the line.
LEMMA LineGains ==
  ASSUME NEW s \in Seq(Nat), Rises(s), NEW h \in Seq(Nat), RisesAfter(h, s),
         NEW e \in Nat, NEW t, t = Append(s, e),
         e # 0 => /\ \A i \in DOMAIN s : s[i] < e
                  /\ \A i \in DOMAIN h : h[i] < e
  PROVE  Rises(t) /\ RisesAfter(h, t)
<1>1. PICK n \in Nat : n = Len(s) /\ DOMAIN s = 1 .. n
  BY LineSteps
<1>2. DOMAIN t = 1 .. n + 1 /\ t[n + 1] = e /\ \A k \in 1 .. n : t[k] = s[k]
  BY <1>1, LineSteps
<1>3. \A i, j \in 1 .. n + 1 : /\ i < j => i \in 1 .. n
                               /\ j \in 1 .. n \/ j = n + 1
  OBVIOUS
<1>4. Rises(t)
  <2> SUFFICES ASSUME NEW i \in 1 .. n + 1, NEW j \in 1 .. n + 1, i < j,
                      t[i] # 0, t[j] # 0
               PROVE  t[i] < t[j]
    BY <1>2 DEF Rises
  <2>1. i \in 1 .. n
    BY <1>3
  <2>2. CASE j \in 1 .. n
    BY <1>1, <1>2, <2>1, <2>2 DEF Rises
  <2>3. CASE j = n + 1
    BY <1>1, <1>2, <2>1, <2>3
  <2> QED
    BY <1>3, <2>2, <2>3
<1>5. RisesAfter(h, t)
  BY <1>1, <1>2, <1>3 DEF RisesAfter
<1> QED
  BY <1>4, <1>5

\* The frame the handler gets comes before what is left on the line.
LEMMA HeadComesFirst ==
  ASSUME NEW s \in Seq(Nat), s # <<>>, Rises(s), NEW h \in Seq(Nat), RisesAfter(h, s),
         Increasing(h), Head(s) # 0, NEW g, g = Append(h, Head(s))
  PROVE  Increasing(g) /\ RisesAfter(g, Tail(s))
<1>1. PICK n \in Nat, m \in Nat : /\ n = Len(s) /\ DOMAIN s = 1 .. n /\ n > 0
                                  /\ m = Len(h) /\ DOMAIN h = 1 .. m
  BY LineSteps
<1>2. /\ DOMAIN Tail(s) = 1 .. n - 1 /\ \A k \in 1 .. n - 1 : Tail(s)[k] = s[k + 1]
      /\ Head(s) = s[1] /\ 1 \in 1 .. n /\ s[1] \in Nat
  BY <1>1, LineSteps
<1>3. \A k \in 1 .. n - 1 : k + 1 \in 1 .. n /\ 1 < k + 1
  OBVIOUS
<1>4. \A i \in DOMAIN h : h[i] < s[1]
  BY <1>1, <1>2 DEF RisesAfter
<1>5. Increasing(g)
  BY <1>2, <1>4, IncreasingSteps
<1>6. DOMAIN g = 1 .. m + 1 /\ g[m + 1] = s[1] /\ \A k \in 1 .. m : g[k] = h[k]
  BY <1>1, <1>2, LineSteps
<1>7. \A k \in 1 .. m + 1 : k \in 1 .. m \/ k = m + 1
  OBVIOUS
<1>8. RisesAfter(g, Tail(s))
  <2> SUFFICES ASSUME NEW i \in 1 .. m + 1, NEW j \in 1 .. n - 1, s[j + 1] # 0
               PROVE  g[i] < s[j + 1]
    BY <1>2, <1>6 DEF RisesAfter
  <2>1. CASE i \in 1 .. m
    BY <1>1, <1>3, <1>6, <2>1 DEF RisesAfter
  <2>2. CASE i = m + 1
    BY <1>1, <1>2, <1>3, <1>6, <2>2 DEF Rises
  <2> QED
    BY <1>7, <2>1, <2>2
<1> QED
  BY <1>5, <1>8

\* What was heard with what is on the line behind it.
LEMMA HeardThenLine ==
  ASSUME NEW h \in Seq(Nat), NEW s \in Seq(Nat), Increasing(h), Rises(s), RisesAfter(h, s)
  PROVE  Rises(h \o s)
<1>1. PICK n \in Nat, m \in Nat : /\ n = Len(s) /\ DOMAIN s = 1 .. n
                                  /\ m = Len(h) /\ DOMAIN h = 1 .. m
  BY LineSteps
<1>2. PICK c : c = h \o s
  OBVIOUS
<1>3. /\ DOMAIN c = 1 .. m + n
      /\ \A k \in 1 .. m : c[k] = h[k]
      /\ \A k \in m + 1 .. m + n : c[k] = s[k - m]
  BY <1>1, <1>2
<1>4. /\ \A k \in 1 .. m + n : k \in 1 .. m \/ k \in m + 1 .. m + n
      /\ \A k \in m + 1 .. m + n : k - m \in 1 .. n /\ ~(k <= m)
      /\ \A i, j \in m + 1 .. m + n : i < j => i - m < j - m
      /\ \A i \in m + 1 .. m + n, j \in 1 .. m : ~(i < j)
  OBVIOUS
<1> SUFFICES ASSUME NEW i \in 1 .. m + n, NEW j \in 1 .. m + n, i < j,
                    c[i] # 0, c[j] # 0
             PROVE  c[i] < c[j]
  BY <1>2, <1>3 DEF Rises
<1>5. CASE i \in 1 .. m /\ j \in 1 .. m
  BY <1>1, <1>3, <1>5 DEF Increasing
<1>6. CASE i \in 1 .. m /\ j \in m + 1 .. m + n
  <2>1. c[j] = s[j - m] /\ j - m \in 1 .. n /\ c[i] = h[i]
    BY <1>3, <1>4, <1>6
  <2> QED
    BY <1>1, <1>6, <2>1 DEF RisesAfter
<1>7. CASE i \in m + 1 .. m + n /\ j \in m + 1 .. m + n
  <2>1. /\ c[j] = s[j - m] /\ j - m \in 1 .. n
        /\ c[i] = s[i - m] /\ i - m \in 1 .. n /\ i - m < j - m
    BY <1>3, <1>4, <1>7
  <2> QED
    BY <1>1, <2>1 DEF Rises
<1> QED
  BY <1>4, <1>5, <1>6, <1>7

\* The handler gets frames in the order of the far end and none twice, with
\* any number of transports left open and of frames it raised on: one of them
\* may lose or garble what is on the line, and cannot put anything back.
THEOREM HeardCorrect == UartSpec => []HeardInOrder
<1>1. Init => Received
  BY DEF Init, Received, Increasing, Rises, RisesAfter
<1>2. UartTypeOK /\ Received /\ [Next]_uartVars => Received'
  <2> SUFFICES ASSUME UartTypeOK, Received, [Next]_uartVars
               PROVE  Received'
    OBVIOUS
  <2>1. /\ line \in Seq(0 .. spoken) /\ heard \in Seq(1 .. spoken) /\ spoken \in Nat
        /\ line \in Seq(Nat) /\ heard \in Seq(Nat)
        /\ \A i \in DOMAIN line : line[i] \in 0 .. spoken
        /\ \A i \in DOMAIN heard : heard[i] \in 1 .. spoken
    BY DEF UartTypeOK
  <2>2. Increasing(heard) /\ Rises(line) /\ RisesAfter(heard, line)
    BY DEF Received
  <2>3. line # <<>> => Head(line) \in Nat /\ Tail(line) \in Seq(Nat)
    BY <2>1
  <2>4. ASSUME line' = <<>>, heard' = heard PROVE Received'
    BY <2>2, <2>4 DEF Received, Rises, RisesAfter
  <2>5. CASE Receive
    <3>1. line # <<>> /\ line' = Tail(line)
      BY <2>5 DEF Receive
    <3>2. Rises(Tail(line)) /\ RisesAfter(heard, Tail(line))
      BY <2>1, <2>2, <2>3, <3>1, LineLosesHead
    <3>3. CASE Head(line) = 0
      BY <2>2, <2>5, <3>1, <3>2, <3>3 DEF Receive, Received
    <3>4. CASE Head(line) # 0
      <4>1. PICK g : g = Append(heard, Head(line))
        OBVIOUS
      <4>2. Increasing(g) /\ RisesAfter(g, Tail(line))
        BY <2>1, <2>2, <3>1, <3>4, <4>1, HeadComesFirst
      <4>3. heard' = g
        BY <2>5, <3>4, <4>1 DEF Receive
      <4> QED
        BY <3>1, <3>2, <4>2, <4>3 DEF Received
    <3> QED
      BY <3>3, <3>4
  <2>6. CASE StaleTakes
    <3>1. /\ line # <<>> /\ heard' = heard
          /\ line' = Tail(line) \/ line' = <<0>> \o Tail(line)
      BY <2>6 DEF StaleTakes
    <3>2. line' \in Seq(Nat)
      <4>1. PICK u \in Seq(Nat) : u = Tail(line)
        BY <2>3, <3>1
      <4>2. <<0>> \o u \in Seq(Nat)
        OBVIOUS
      <4> QED
        BY <3>1, <4>1, <4>2
    <3>3. Rises(line') /\ RisesAfter(heard, line')
      BY <2>1, <2>2, <3>1, <3>2, LineLosesHead DEF Garbled
    <3> QED
      BY <2>2, <3>1, <3>3 DEF Received
  <2>7. CASE Speak
    <3>1. /\ heard' = heard /\ spoken' = spoken + 1
          /\ \/ line' = line
             \/ \E e \in {0, spoken + 1} : line' = Append(line, e)
      BY <2>7 DEF Speak
    <3>2. ASSUME NEW e \in {0, spoken + 1}, line' = Append(line, e)
          PROVE  Rises(line') /\ RisesAfter(heard, line')
      <4>1. /\ e \in Nat
            /\ e # 0 => /\ \A i \in DOMAIN line : line[i] < e
                        /\ \A i \in DOMAIN heard : heard[i] < e
        BY <2>1
      <4> QED
        BY <2>1, <2>2, <3>2, <4>1, LineGains
    <3> QED
      BY <2>2, <3>1, <3>2 DEF Received
  <2>8. CASE Open \/ Unplug
    BY <2>4, <2>8 DEF Open, Unplug
  <2>9. CASE Send \/ Transmit \/ Disconnect \/ StaleFills \/ Plug
    <3>1. UNCHANGED <<line, heard>>
      BY <2>9 DEF Send, Transmit, Disconnect, StaleFills, Plug, rxVars
    <3> QED
      BY <2>2, <3>1 DEF Received
  <2>10. CASE UNCHANGED uartVars
    BY <2>2, <2>10 DEF uartVars, rxVars, Received
  <2> QED
    BY <2>5, <2>6, <2>7, <2>8, <2>9, <2>10 DEF Next
<1>3. UartTypeOK /\ Received => HeardInOrder
  <2> SUFFICES ASSUME UartTypeOK, Received PROVE HeardInOrder
    OBVIOUS
  <2>1. line \in Seq(Nat) /\ heard \in Seq(Nat)
    BY DEF UartTypeOK
  <2>2. Rises(heard \o line)
    BY <2>1, HeardThenLine DEF Received
  <2> QED
    BY <2>2 DEF HeardInOrder, Rises
<1> QED
  BY <1>1, <1>2, <1>3, TypeCorrect, PTL DEF UartSpec

-----------------------------------------------------------------------------
(* The TCP session.  Only the connection the Sender holds matters: the     *)
(* wire of any other is emptied before it is held again, and a handler of  *)
(* another can only lose what it takes from the queue.                     *)

\* What is on the way to the Sender in a connection, w, and in the queue, q, is in
\* order, later than the last frame received, l, and no later than the last sent, n.
OnTheWay(w, q, l, n) ==
  /\ w \in Seq(Nat) /\ q \in Seq(Nat) /\ l \in Nat /\ n \in Nat /\ l <= n
  /\ Increasing(w) /\ Increasing(q) /\ Below(w, q)
  /\ \A i \in DOMAIN w : w[i] \in l + 1 .. n
  /\ \A i \in DOMAIN q : q[i] \in l + 1 .. n

Coming == IF current = 0 THEN <<>> ELSE wire[current]

TcpInOrder ==
  /\ current \in Conns \cup {0} /\ (client = "connected" => current # 0)
  /\ wire \in [Conns -> Seq(Nat)]
  /\ OnTheWay(Coming, tcpQueue, last, tcpSent)

\* The next frame is later than any on the way, with room for it or without.
LEMMA SendsInOrder ==
  ASSUME NEW w, NEW q, NEW l, NEW n, OnTheWay(w, q, l, n)
  PROVE  OnTheWay(w, q, l, n + 1) /\ OnTheWay(w, Append(q, n + 1), l, n + 1)
<1> USE DEF OnTheWay
<1>1. /\ w \in Seq(Nat) /\ q \in Seq(Nat) /\ l \in Nat /\ n \in Nat /\ l <= n
      /\ n + 1 \in Nat /\ l <= n + 1 /\ n + 1 \in l + 1 .. n + 1
  OBVIOUS
<1>2. /\ \A i \in DOMAIN w : w[i] \in l + 1 .. n + 1 /\ w[i] < n + 1
      /\ \A i \in DOMAIN q : q[i] \in l + 1 .. n + 1 /\ q[i] < n + 1
  BY <1>1
<1>3. PICK m \in Nat : m = Len(q) /\ DOMAIN q = 1 .. m
  BY <1>1, LineSteps
<1>4. PICK r : r = Append(q, n + 1)
  OBVIOUS
<1>5. /\ r \in Seq(Nat) /\ DOMAIN r = 1 .. m + 1 /\ r[m + 1] = n + 1
      /\ \A k \in 1 .. m : r[k] = q[k]
  BY <1>1, <1>3, <1>4, LineSteps
<1>6. \A k \in 1 .. m + 1 : k \in 1 .. m \/ k = m + 1
  OBVIOUS
<1>7. Increasing(r)
  BY <1>1, <1>2, <1>4, IncreasingSteps
<1>8. Below(w, r)
  BY <1>2, <1>3, <1>5, <1>6 DEF Below
<1>9. \A i \in DOMAIN r : r[i] \in l + 1 .. n + 1
  BY <1>1, <1>2, <1>3, <1>5, <1>6
<1>10. QED BY <1>1, <1>2, <1>4, <1>5, <1>7, <1>8, <1>9

\* The first of the queue is lost, or goes on the wire.
LEMMA TakesInOrder ==
  ASSUME NEW w, NEW q, NEW l, NEW n, OnTheWay(w, q, l, n), q # <<>>
  PROVE  OnTheWay(w, Tail(q), l, n) /\ OnTheWay(Append(w, Head(q)), Tail(q), l, n)
<1> USE DEF OnTheWay
<1>1. w \in Seq(Nat) /\ q \in Seq(Nat) /\ l \in Nat /\ n \in Nat
  OBVIOUS
<1>2. PICK m \in Nat, k \in Nat : /\ m = Len(q) /\ DOMAIN q = 1 .. m /\ m > 0
                                  /\ k = Len(w) /\ DOMAIN w = 1 .. k
  BY <1>1, LineSteps
<1>3. PICK t \in Seq(Nat), e \in Nat :
        /\ t = Tail(q) /\ DOMAIN t = 1 .. m - 1 /\ \A i \in 1 .. m - 1 : t[i] = q[i + 1]
        /\ e = Head(q) /\ e = q[1] /\ 1 \in DOMAIN q
  <2>1. q[1] \in Nat /\ 1 \in DOMAIN q
    BY <1>1, <1>2
  <2>2. QED BY <1>1, <1>2, <2>1, LineSteps
<1>4. \A i \in 1 .. m - 1 : i + 1 \in 1 .. m /\ 1 < i + 1 /\ 1 \in 1 .. m
  OBVIOUS
<1>5. Increasing(t) /\ Below(w, t) /\ \A i \in DOMAIN t : t[i] \in l + 1 .. n
  BY <1>1, <1>2, <1>3, <1>4, IncreasingSteps DEF Below
<1>6. \A i \in DOMAIN w : w[i] < e
  BY <1>2, <1>3 DEF Below
<1>7. PICK v : v = Append(w, e)
  OBVIOUS
<1>8. /\ v \in Seq(Nat) /\ DOMAIN v = 1 .. k + 1 /\ v[k + 1] = e
      /\ \A i \in 1 .. k : v[i] = w[i]
  BY <1>1, <1>2, <1>7, LineSteps
<1>9. \A i \in 1 .. k + 1 : i \in 1 .. k \/ i = k + 1
  OBVIOUS
<1>10. Increasing(v)
  BY <1>1, <1>6, <1>7, IncreasingSteps
<1>11. \A i \in DOMAIN t : e < t[i]
  BY <1>2, <1>3, <1>4 DEF Increasing
<1>12. Below(v, t)
  BY <1>2, <1>5, <1>8, <1>9, <1>11 DEF Below
<1>13. \A i \in DOMAIN v : v[i] \in l + 1 .. n
  <2>1. e \in l + 1 .. n
    BY <1>3
  <2>2. QED BY <1>2, <1>8, <1>9, <2>1
<1>14. QED BY <1>1, <1>3, <1>5, <1>7, <1>8, <1>10, <1>12, <1>13

\* The Sender receives the first of the wire, which is later than its last.
LEMMA ReceivesInOrder ==
  ASSUME NEW w, NEW q, NEW l, NEW n, OnTheWay(w, q, l, n), w # <<>>
  PROVE  OnTheWay(Tail(w), q, Head(w), n) /\ Head(w) > l
<1> USE DEF OnTheWay
<1>1. w \in Seq(Nat) /\ q \in Seq(Nat) /\ l \in Nat /\ n \in Nat
  OBVIOUS
<1>2. PICK m \in Nat : m = Len(w) /\ DOMAIN w = 1 .. m /\ m > 0
  BY <1>1, LineSteps
<1>3. PICK t \in Seq(Nat), e \in Nat :
        /\ t = Tail(w) /\ DOMAIN t = 1 .. m - 1 /\ \A i \in 1 .. m - 1 : t[i] = w[i + 1]
        /\ e = Head(w) /\ e = w[1] /\ 1 \in DOMAIN w
  <2>1. w[1] \in Nat /\ 1 \in DOMAIN w
    BY <1>1, <1>2
  <2>2. QED BY <1>1, <1>2, <2>1, LineSteps
<1>4. \A i \in 1 .. m - 1 : i + 1 \in 1 .. m
  OBVIOUS
<1>5. e \in l + 1 .. n /\ 1 \in 1 .. m /\ e > l
  <2>1. 1 \in 1 .. m
    BY <1>2
  <2>2. w[1] \in l + 1 .. n
    BY <1>2, <2>1
  <2>3. e \in l + 1 .. n
    BY <1>3, <2>2
  <2>4. e > l
    BY <1>1, <2>3
  <2> QED
    BY <2>1, <2>3, <2>4
<1>6. Increasing(t) /\ \A i \in DOMAIN t : e < t[i]
  BY <1>1, <1>3, IncreasingSteps
<1>7. Below(t, q)
  BY <1>2, <1>3, <1>4 DEF Below
<1>8. \A i \in DOMAIN t : t[i] \in e + 1 .. n
  BY <1>1, <1>2, <1>3, <1>4, <1>6
<1>9. \A i \in DOMAIN q : q[i] \in e + 1 .. n
  <2>1. \A i \in DOMAIN q : e < q[i]
    BY <1>3 DEF Below
  <2>2. \A i \in DOMAIN q : q[i] \in l + 1 .. n
    OBVIOUS
  <2>3. \A x \in l + 1 .. n : e < x => x \in e + 1 .. n
    BY <1>1, <1>3
  <2>4. QED BY <2>1, <2>2, <2>3
<1>10. QED BY <1>1, <1>3, <1>5, <1>6, <1>7, <1>8, <1>9

\* A connection is given up with all that is in it.
LEMMA EmptiesInOrder ==
  ASSUME NEW w, NEW q, NEW l, NEW n, OnTheWay(w, q, l, n)
  PROVE  OnTheWay(<<>>, q, l, n)
  BY DEF OnTheWay, Increasing, Below

\* A wire other than the Sender's own may change without consequence, and so may
\* everything that is neither a frame nor the connection held.
LEMMA FramesKept ==
  ASSUME TcpInOrder, UNCHANGED <<client, current, wire, tcpQueue, last, tcpSent>>
  PROVE  TcpInOrder'
  BY DEF TcpInOrder, OnTheWay, Coming

\* Every step of the session keeps what is on the way to the Sender in order.
LEMMA TcpInOrderNext ==
  ASSUME Tcp!TcpLinkAssumption
  PROVE  TcpInOrder /\ [Tcp!Next]_(Tcp!tcpVars) => TcpInOrder'
<1> SUFFICES ASSUME TcpInOrder, [Tcp!Next]_(Tcp!tcpVars) PROVE TcpInOrder'
  OBVIOUS
<1>1. /\ current \in Conns \cup {0} /\ (client = "connected" => current # 0)
      /\ wire \in [Conns -> Seq(Nat)] /\ 0 \notin Conns
      /\ OnTheWay(Coming, tcpQueue, last, tcpSent)
  BY DEF TcpInOrder, Tcp!TcpLinkAssumption
<1>2. CASE Tcp!Send
  <2>1. /\ UNCHANGED <<client, current, wire, last>> /\ tcpSent' = tcpSent + 1
        /\ tcpQueue' = tcpQueue \/ tcpQueue' = Append(tcpQueue, tcpSent + 1)
    BY <1>2 DEF Tcp!Send
  <2>2. Coming' = Coming
    BY <2>1 DEF Coming
  <2>3. OnTheWay(Coming, tcpQueue', last, tcpSent + 1)
    BY <1>1, <2>1, SendsInOrder
  <2>4. QED BY <1>1, <2>1, <2>2, <2>3 DEF TcpInOrder
<1>3. ASSUME NEW c \in Conns, Tcp!Transmit(c) PROVE TcpInOrder'
  <2>1. /\ UNCHANGED <<client, current, last, tcpSent>>
        /\ tcpQueue # <<>> /\ tcpQueue' = Tail(tcpQueue)
        /\ wire' = IF Tcp!Dead(c) THEN wire
                   ELSE [wire EXCEPT ![c] = Append(@, Head(tcpQueue))]
    BY <1>3 DEF Tcp!Transmit, Tcp!countVars
  <2>2. Tcp!Dead(c) \/ c = current
    BY DEF Tcp!Dead, Tcp!Gone
  <2>3. /\ tcpQueue \in Seq(Nat) /\ Head(tcpQueue) \in Nat
        /\ wire[c] \in Seq(Nat) /\ Append(wire[c], Head(tcpQueue)) \in Seq(Nat)
    BY <1>1, <2>1 DEF OnTheWay
  <2>4. wire' \in [Conns -> Seq(Nat)]
    BY <1>1, <2>1, <2>3
  <2>5. Coming' = Coming \/ Coming' = Append(Coming, Head(tcpQueue))
    BY <1>1, <2>1, <2>2 DEF Coming
  <2>6. OnTheWay(Coming', tcpQueue', last, tcpSent)
    BY <1>1, <2>1, <2>5, TakesInOrder
  <2>7. QED BY <2>1, <2>4, <2>6 DEF TcpInOrder
<1>4. ASSUME NEW c \in Conns, Tcp!EndRun(c) PROVE TcpInOrder'
  <2>1. /\ UNCHANGED <<client, current, wire, last, tcpSent>>
        /\ tcpQueue' = tcpQueue \/ (tcpQueue # <<>> /\ tcpQueue' = Tail(tcpQueue))
    BY <1>4 DEF Tcp!EndRun, Tcp!countVars
  <2>2. Coming' = Coming
    BY <2>1 DEF Coming
  <2>3. OnTheWay(Coming, tcpQueue', last, tcpSent)
    BY <1>1, <2>1, TakesInOrder
  <2>4. QED BY <1>1, <2>1, <2>2, <2>3 DEF TcpInOrder
<1>5. CASE Tcp!Connect
  <2>1. PICK c \in Conns : current' = c /\ wire' = [wire EXCEPT ![c] = <<>>]
    BY <1>5 DEF Tcp!Connect
  <2>2. UNCHANGED <<tcpQueue, last, tcpSent>>
    BY <1>5 DEF Tcp!Connect, Tcp!countVars
  <2>3. Coming' = <<>> /\ wire' \in [Conns -> Seq(Nat)]
    BY <1>1, <2>1 DEF Coming
  <2>4. OnTheWay(<<>>, tcpQueue, last, tcpSent)
    BY <1>1, EmptiesInOrder
  <2>5. QED BY <1>1, <2>1, <2>2, <2>3, <2>4 DEF TcpInOrder
<1>6. CASE Tcp!Receive
  <2>1. /\ UNCHANGED <<current, tcpQueue, tcpSent>> /\ wire[current] # <<>>
        /\ wire' = [wire EXCEPT ![current] = Tail(@)] /\ last' = Head(wire[current])
    BY <1>6 DEF Tcp!Receive
  <2>2. current # 0 /\ (client' = "connected" => current' # 0)
    BY <1>1, <1>6, <2>1 DEF Tcp!Receive
  <2>3. /\ Coming = wire[current] /\ Coming' = Tail(Coming)
        /\ wire[current] \in Seq(Nat) /\ Tail(wire[current]) \in Seq(Nat)
    BY <1>1, <2>1, <2>2 DEF Coming
  <2>4. wire' \in [Conns -> Seq(Nat)]
    BY <1>1, <2>1, <2>3
  <2>5. OnTheWay(Tail(Coming), tcpQueue, Head(Coming), tcpSent)
    BY <1>1, <2>1, <2>3, ReceivesInOrder
  <2>6. QED BY <1>1, <2>1, <2>2, <2>3, <2>4, <2>5 DEF TcpInOrder
<1>7. CASE Tcp!Drop \/ Tcp!Restart
  <2>1. client' = "waiting" /\ current' = 0 /\ UNCHANGED <<wire, tcpQueue, last, tcpSent>>
    BY <1>7 DEF Tcp!Drop, Tcp!Restart, Tcp!Leaves
  <2>2. Coming' = <<>>
    BY <2>1 DEF Coming
  <2>3. OnTheWay(<<>>, tcpQueue, last, tcpSent)
    BY <1>1, EmptiesInOrder
  <2>4. QED BY <1>1, <2>1, <2>2, <2>3 DEF TcpInOrder
<1>8. CASE Tcp!Cut \/ Tcp!StopLink \/ Tcp!LinksStopped \/ Tcp!ServerStopped
  <2>1. UNCHANGED <<client, current, wire, tcpQueue, last, tcpSent>>
    BY <1>8 DEF Tcp!Cut, Tcp!StopLink, Tcp!LinksStopped, Tcp!ServerStopped, Tcp!countVars
  <2>2. QED BY <2>1, FramesKept
<1>9. ASSUME NEW c \in Conns,
             Tcp!Identify(c) \/ Tcp!FinishRun(c) \/ Tcp!HandlerRaises(c) \/ Tcp!Reclaim(c)
      PROVE  TcpInOrder'
  <2>1. UNCHANGED <<client, current, wire, tcpQueue, last, tcpSent>>
    BY <1>9 DEF Tcp!Identify, Tcp!FinishRun, Tcp!HandlerRaises, Tcp!Reclaim, Tcp!countVars
  <2>2. QED BY <2>1, FramesKept
<1>10. CASE UNCHANGED Tcp!tcpVars
  <2>1. UNCHANGED <<client, current, wire, tcpQueue, last, tcpSent>>
    BY <1>10 DEF Tcp!tcpVars, Tcp!countVars
  <2>2. QED BY <2>1, FramesKept
<1>11. QED
  BY <1>2, <1>3, <1>4, <1>5, <1>6, <1>7, <1>8, <1>9, <1>10 DEF Tcp!Next

\* The Sender receives frames in the order they were sent and none twice, over
\* any number of connections, with as many handlers draining the one queue,
\* handlers that raise and connections they leave behind, and through a stop.
THEOREM ArriveCorrect ==
  ASSUME Tcp!TcpLinkAssumption
  PROVE  Tcp!TcpSpec => ArriveInOrder
<1>1. Tcp!Init => TcpInOrder
  BY DEF Tcp!Init, TcpInOrder, OnTheWay, Coming, Increasing, Below
<1>2. TcpInOrder /\ [Tcp!Next]_(Tcp!tcpVars) => [last' # last => last' > last]_(Tcp!tcpVars)
  <2> SUFFICES ASSUME TcpInOrder, Tcp!Next PROVE last' # last => last' > last
    OBVIOUS
  <2>1. CASE Tcp!Receive
    <3>1. Coming # <<>> /\ last' = Head(Coming)
      BY <2>1 DEF Tcp!Receive, TcpInOrder, Coming
    <3>2. OnTheWay(Coming, tcpQueue, last, tcpSent)
      BY DEF TcpInOrder
    <3>3. QED BY <3>1, <3>2, ReceivesInOrder
  <2>2. CASE \/ Tcp!Send \/ Tcp!Connect \/ Tcp!Drop \/ Tcp!Cut \/ Tcp!Restart
             \/ Tcp!StopLink \/ Tcp!LinksStopped \/ Tcp!ServerStopped
    BY <2>2 DEF Tcp!Send, Tcp!Connect, Tcp!Drop, Tcp!Leaves, Tcp!Cut, Tcp!Restart,
                Tcp!StopLink, Tcp!LinksStopped, Tcp!ServerStopped, Tcp!countVars
  <2>3. ASSUME NEW c \in Conns, \/ Tcp!Identify(c) \/ Tcp!Transmit(c) \/ Tcp!EndRun(c)
                                \/ Tcp!FinishRun(c) \/ Tcp!HandlerRaises(c) \/ Tcp!Reclaim(c)
        PROVE  last' = last
    BY <2>3 DEF Tcp!Identify, Tcp!Transmit, Tcp!EndRun, Tcp!FinishRun, Tcp!HandlerRaises,
                Tcp!Reclaim, Tcp!countVars
  <2>4. QED BY <2>1, <2>2, <2>3 DEF Tcp!Next
<1>3. QED BY <1>1, <1>2, TcpInOrderNext, PTL DEF Tcp!TcpSpec, ArriveInOrder, Tcp!ArriveInOrder

\* Types, the queue's bound, and a link that is shown online is served: of two
\* handlers that share the flag the first to end clears it.
THEOREM ServedCorrect ==
  ASSUME Tcp!TcpLinkAssumption
  PROVE  Tcp!TcpSpec => [](Tcp!TcpTypeOK /\ Tcp!OnlineIsServed)
<1> DEFINE Served == Tcp!TcpTypeOK /\ Tcp!OnlineIsServed /\ TcpInOrder
<1>0. Tcp!Init => TcpInOrder
  BY DEF Tcp!Init, TcpInOrder, OnTheWay, Coming, Increasing, Below
<1>1. Tcp!Init => Served
  <2>1. Len(<<>>) = 0 /\ 0 <= TcpQueue
    BY DEF Tcp!TcpLinkAssumption
  <2>2. QED BY <1>0, <2>1 DEF Tcp!Init, Tcp!TcpTypeOK, Tcp!OnlineIsServed
<1>2. Served /\ [Tcp!Next]_(Tcp!tcpVars) => Served'
  <2> SUFFICES ASSUME Served, [Tcp!Next]_(Tcp!tcpVars)
               PROVE  (Tcp!TcpTypeOK /\ Tcp!OnlineIsServed)'
    BY TcpInOrderNext
  <2> USE DEF Tcp!TcpTypeOK, Tcp!OnlineIsServed, Tcp!linkVars, Tcp!countVars, Tcp!stopVars
  <2>1. /\ tcpQueue \in Seq(Nat) /\ tcpSent + 1 \in Nat
        /\ Len(tcpQueue) \in Nat /\ TcpQueue \in Nat \ {0}
        /\ Len(Append(tcpQueue, tcpSent + 1)) = Len(tcpQueue) + 1
        /\ tcpQueue # <<>> => Len(Tail(tcpQueue)) = Len(tcpQueue) - 1
    <3>1. tcpQueue \in Seq(Nat) /\ tcpSent \in Nat
      BY DEF TcpInOrder, OnTheWay
    <3>2. QED BY <3>1, QueueSteps DEF Tcp!TcpLinkAssumption
  <2>2. CASE Tcp!Send
    <3>1. Len(tcpQueue') <= TcpQueue
      <4>1. CASE Len(tcpQueue) < TcpQueue
        <5>1. Len(tcpQueue') = Len(tcpQueue) + 1
          BY <2>1, <2>2, <4>1 DEF Tcp!Send
        <5>2. QED BY <2>1, <4>1, <5>1
      <4>2. CASE ~(Len(tcpQueue) < TcpQueue)
        BY <2>2, <4>2 DEF Tcp!Send
      <4>3. QED BY <4>1, <4>2
    <3>2. QED BY <2>2, <3>1 DEF Tcp!Send
  <2>3. ASSUME NEW c \in Conns, Tcp!Transmit(c) \/ Tcp!EndRun(c)
        PROVE  Len(tcpQueue') <= TcpQueue
    <3>1. tcpQueue' = tcpQueue \/ (tcpQueue # <<>> /\ tcpQueue' = Tail(tcpQueue))
      BY <2>3 DEF Tcp!Transmit, Tcp!EndRun
    <3>2. QED BY <2>1, <3>1
  \* A handler that does not run is no reason why the link is shown online.
  <2>30. ASSUME NEW c \in Conns, serving[c] # "running", NEW s \in {"closed", "leaked"},
               serving' = [serving EXCEPT ![c] = s], online' = online
        PROVE  Tcp!OnlineIsServed' /\
               serving' \in [Conns -> {"closed", "identifying", "running", "cleaning", "leaked"}]
    <3>1. \A d \in Conns : serving[d] = "running" => serving'[d] = "running"
      BY <2>30
    <3>2. QED BY <2>30, <3>1
  <2>4. ASSUME NEW c \in Conns, Tcp!Identify(c)
        PROVE  (Tcp!TcpTypeOK /\ Tcp!OnlineIsServed)'
    <3>1. serving[c] = "identifying" /\ UNCHANGED <<client, current, tcpQueue, stop, shut>>
      BY <2>4 DEF Tcp!Identify
    <3>2. CASE Tcp!StartsRun(c)
      BY <3>1, <3>2 DEF Tcp!StartsRun
    <3>3. CASE ~Tcp!StartsRun(c)
      <4>1. PICK s \in {"closed", "leaked"} : serving' = [serving EXCEPT ![c] = s]
        BY <2>4, <3>3 DEF Tcp!Identify
      <4>2. UNCHANGED <<online, writer>>
        BY <2>4, <3>3 DEF Tcp!Identify
      <4>3. QED BY <2>30, <3>1, <4>1, <4>2
    <3>4. QED BY <3>2, <3>3
  <2>5. ASSUME NEW c \in Conns, Tcp!Transmit(c)
        PROVE  (Tcp!TcpTypeOK /\ Tcp!OnlineIsServed)'
    BY <2>3, <2>5 DEF Tcp!Transmit
  <2>6. ASSUME NEW c \in Conns, Tcp!EndRun(c)
        PROVE  (Tcp!TcpTypeOK /\ Tcp!OnlineIsServed)'
    BY <2>3, <2>6 DEF Tcp!EndRun
  <2>7. ASSUME NEW c \in Conns, Tcp!FinishRun(c) \/ Tcp!HandlerRaises(c) \/ Tcp!Reclaim(c)
        PROVE  (Tcp!TcpTypeOK /\ Tcp!OnlineIsServed)'
    <3>1. CASE Tcp!HandlerRaises(c)
      BY <3>1 DEF Tcp!HandlerRaises
    <3>2. CASE Tcp!FinishRun(c) \/ Tcp!Reclaim(c)
      <4>1. /\ serving[c] # "running" /\ serving' = [serving EXCEPT ![c] = "closed"]
            /\ online' = online /\ writer' \in {0, writer}
            /\ UNCHANGED <<client, current, tcpQueue, stop, shut>>
        BY <3>2 DEF Tcp!FinishRun, Tcp!Reclaim
      <4>2. QED BY <2>30, <4>1
    <3>3. QED BY <2>7, <3>1, <3>2
  <2>8. CASE Tcp!Connect
    BY <2>8 DEF Tcp!Connect, Tcp!Accept, Tcp!StartsRun, Tcp!TcpLinkAssumption
  <2>9. CASE Tcp!Receive \/ Tcp!Drop \/ Tcp!Restart \/ Tcp!Cut
    BY <2>9 DEF Tcp!Receive, Tcp!Drop, Tcp!Restart, Tcp!Leaves, Tcp!Cut
  <2>10. CASE Tcp!StopLink \/ Tcp!LinksStopped \/ Tcp!ServerStopped
    BY <2>10 DEF Tcp!StopLink, Tcp!LinksStopped, Tcp!ServerStopped
  <2>11. CASE UNCHANGED Tcp!tcpVars
    BY <2>11 DEF Tcp!tcpVars
  <2>12. QED
    BY <2>2, <2>4, <2>5, <2>6, <2>7, <2>8, <2>9, <2>10, <2>11 DEF Tcp!Next
<1>3. QED BY <1>1, <1>2, PTL DEF Tcp!TcpSpec

-----------------------------------------------------------------------------
(* A spoke of the hub, byte by byte.                                       *)

Byte == Nat \X Nat

\* What the hub hands on: a frame to the router or bytes to USB.
Handed == [to : {"usb", "frame"}, bytes : Seq(Byte)]

\* The variables keep their types; frames that are due have been written.
SpokeTypeOK ==
  /\ spokeLine \in Seq(Byte) /\ fifo \in Seq(Byte) /\ rx \in Seq(Byte) /\ read \in Seq(Byte)
  /\ age \in Nat /\ stalled \in BOOLEAN
  /\ out \in Seq(Handed)
  /\ wrote \in [frames : Nat, texts : Nat, stalls : Nat]
  /\ due \subseteq 1 .. wrote.frames

\* What the assumption says of each constant.
LEMMA SpokeConstants ==
  ASSUME Spoke!HubSpokeAssumption
  PROVE  /\ FrameBytes \in Nat /\ FrameBytes >= 1 /\ Idle \in Nat /\ Idle >= 1
         /\ Hardware \in Nat /\ Cap \in Nat /\ Cap > FrameBytes + 1
         /\ SpokeFrames \in Nat /\ SpokeTexts \in Nat /\ SpokeStalls \in Nat
  BY DEF Spoke!HubSpokeAssumption

\* The bytes of a frame and its delimiter, as one sequence.
LEMMA FrameFacts ==
  ASSUME Spoke!HubSpokeAssumption, NEW n \in Nat,
         NEW w, w = Append(Spoke!Bytes(n), Spoke!Delimiter)
  PROVE  /\ Spoke!Bytes(n) \in Seq(Byte) /\ Len(Spoke!Bytes(n)) = FrameBytes
         /\ w \in Seq(Byte) /\ Len(w) = FrameBytes + 1 /\ DOMAIN w = 1 .. FrameBytes + 1
         /\ \A k \in 1 .. FrameBytes : w[k] = <<n, k>>
         /\ w[FrameBytes + 1] = Spoke!Delimiter
<1>1. FrameBytes \in Nat
  BY SpokeConstants
<1>2. Spoke!Delimiter \in Byte /\ \A k \in 1 .. FrameBytes : <<n, k>> \in Byte
  BY <1>1 DEF Spoke!Delimiter, Byte
<1>3. /\ Spoke!Bytes(n) \in Seq(Byte) /\ Len(Spoke!Bytes(n)) = FrameBytes
      /\ \A k \in 1 .. FrameBytes : Spoke!Bytes(n)[k] = <<n, k>>
  BY <1>1, <1>2 DEF Spoke!Bytes
<1> QED
  BY <1>1, <1>2, <1>3, AppendFacts

-----------------------------------------------------------------------------
\* What was handed on and what was gathered are the bytes that were read.
LEMMA HandedGrows ==
  ASSUME NEW s \in Seq(Handed), NEW o \in Handed
  PROVE  FlattenSeq([i \in DOMAIN Append(s, o) |-> Append(s, o)[i].bytes])
           = FlattenSeq([i \in DOMAIN s |-> s[i].bytes]) \o o.bytes
<1>1. PICK n \in Nat : n = Len(s)
  OBVIOUS
<1>2. PICK t : t = [i \in 1 .. n |-> s[i].bytes]
  OBVIOUS
<1>3. PICK S : S = Seq(Byte)
  OBVIOUS
<1>4. ASSUME NEW i \in 1 .. n PROVE s[i].bytes \in S
  <2>1. s[i] \in Handed
    BY <1>1
  <2>2. s[i].bytes \in Seq(Byte)
    BY <2>1 DEF Handed
  <2> QED
    BY <1>3, <2>2
<1>5. t \in Seq(S) /\ Len(t) = n
  BY <1>2, <1>4
<1>6. o.bytes \in S
  BY <1>3 DEF Handed
<1>7. Append(t, o.bytes) = [i \in DOMAIN Append(s, o) |-> Append(s, o)[i].bytes]
  <2>1. PICK u : u = Append(t, o.bytes)
    OBVIOUS
  <2>2. PICK v : v = Append(s, o)
    OBVIOUS
  <2>3. DOMAIN u = 1 .. n + 1 /\ u[n + 1] = o.bytes /\ \A i \in 1 .. n : u[i] = s[i].bytes
    BY <1>2, <1>5, <1>6, <2>1, AppendFacts
  <2>4. DOMAIN v = 1 .. n + 1 /\ v[n + 1] = o /\ \A i \in 1 .. n : v[i] = s[i]
    BY <1>1, <2>2, AppendFacts
  <2>5. u = [i \in DOMAIN v |-> v[i].bytes]
    <3>1. \A i \in 1 .. n + 1 : u[i] = v[i].bytes
      BY <2>3, <2>4
    <3>2. u = [i \in 1 .. n + 1 |-> u[i]]
      BY <2>3, <2>1, <1>5, <1>6
    <3> QED
      BY <2>4, <3>1, <3>2
  <2> QED
    BY <2>1, <2>2, <2>5
<1>8. t = [i \in DOMAIN s |-> s[i].bytes]
  BY <1>1, <1>2
<1>9. t \in Seq(Seq(Byte)) /\ o.bytes \in Seq(Byte)
  BY <1>3, <1>5, <1>6
<1>10. FlattenSeq(Append(t, o.bytes)) = FlattenSeq(t) \o o.bytes
  BY <1>9, FlattenGrows
<1> QED
  BY <1>7, <1>8, <1>10

\* What was handed on is a sequence of bytes.
LEMMA FlattenType ==
  ASSUME NEW s \in Seq(Handed)
  PROVE  FlattenSeq([i \in DOMAIN s |-> s[i].bytes]) \in Seq(Byte)
<1>1. PICK T : T = {n \in Nat : \A t \in Seq(Handed) : Len(t) = n =>
                       FlattenSeq([i \in DOMAIN t |-> t[i].bytes]) \in Seq(Byte)}
  OBVIOUS
<1>2. 0 \in T
  <2> SUFFICES ASSUME NEW t \in Seq(Handed), Len(t) = 0
               PROVE  FlattenSeq([i \in DOMAIN t |-> t[i].bytes]) \in Seq(Byte)
    BY <1>1
  <2>1. [i \in DOMAIN t |-> t[i].bytes] = <<>>
    OBVIOUS
  <2>2. FlattenSeq(<<>>) = <<>>
    BY DEF FlattenSeq
  <2>3. <<>> \in Seq(Byte)
    OBVIOUS
  <2>4. FlattenSeq([i \in DOMAIN t |-> t[i].bytes]) = <<>>
    BY <2>1, <2>2, Zenon
  <2> QED
    BY <2>3, <2>4, Zenon
<1>3. ASSUME NEW n \in Nat, n \in T PROVE n + 1 \in T
  <2> SUFFICES ASSUME NEW t \in Seq(Handed), Len(t) = n + 1
               PROVE  FlattenSeq([i \in DOMAIN t |-> t[i].bytes]) \in Seq(Byte)
    BY <1>1
  <2>1. PICK u \in Seq(Handed) : Len(u) = n /\ t[n + 1] \in Handed /\ t = Append(u, t[n + 1])
    BY LastApart
  <2>2. FlattenSeq([i \in DOMAIN u |-> u[i].bytes]) \in Seq(Byte)
    BY <1>1, <1>3, <2>1
  <2>3. t[n + 1].bytes \in Seq(Byte)
    BY <2>1 DEF Handed
  <2>4. FlattenSeq([i \in DOMAIN t |-> t[i].bytes])
          = FlattenSeq([i \in DOMAIN u |-> u[i].bytes]) \o t[n + 1].bytes
    BY <2>1, HandedGrows
  <2>5. PICK x \in Seq(Byte) : x = FlattenSeq([i \in DOMAIN u |-> u[i].bytes])
    BY <2>2
  <2>6. PICK y \in Seq(Byte) : y = t[n + 1].bytes
    BY <2>3
  <2>7. x \o y \in Seq(Byte)
    BY ConcatFacts
  <2>8. FlattenSeq([i \in DOMAIN t |-> t[i].bytes]) = x \o y
    BY <2>4, <2>5, <2>6, Zenon
  <2> QED
    BY <2>7, <2>8, Zenon
<1>4. Nat \subseteq T
  BY <1>2, <1>3, SetInduction
<1> QED
  BY <1>1, <1>4

\* What one step of the reading loop leaves of what has gathered, what it hands
\* on and what it has read.
LEMMA ReadFacts ==
  ASSUME Spoke!HubSpokeAssumption, SpokeTypeOK, Spoke!ReadByte
  PROVE  /\ fifo # <<>> /\ ~stalled /\ Head(fifo) \in Byte /\ fifo' = Tail(fifo)
         /\ fifo' \in Seq(Byte) /\ rx' \in Seq(Byte) /\ read' \in Seq(Byte)
         /\ age' = 0 /\ out' \in Seq(Handed)
         /\ out' = out \/ \E o \in Handed : out' = Append(out, o)
         /\ UNCHANGED <<spokeLine, stalled, due, wrote>>
<1> USE DEF SpokeTypeOK
<1>1. /\ fifo # <<>> /\ ~stalled /\ fifo' = Tail(fifo) /\ age' = 0
      /\ UNCHANGED <<spokeLine, stalled, due, wrote>>
  BY DEF Spoke!ReadByte
<1>2. Head(fifo) \in Byte /\ Tail(fifo) \in Seq(Byte)
  BY <1>1, TailFacts
<1>3. Spoke!Usb(rx) \in Handed /\ Spoke!Routed(rx) \in Handed
  BY DEF Spoke!Usb, Spoke!Routed, Handed
<1>4. \A o \in Handed : Append(out, o) \in Seq(Handed)
  BY AppendFacts
<1>5. <<>> \in Seq(Byte) /\ <<Head(fifo)>> \in Seq(Byte)
      /\ Append(rx, Head(fifo)) \in Seq(Byte) /\ Append(read, Head(fifo)) \in Seq(Byte)
  BY <1>2, AppendFacts
<1>6. CASE Spoke!EndFrame
  <2>1. rx' = <<>> /\ read' = read
        /\ (out' = out \/ out' = Append(out, Spoke!Routed(rx)) \/ out' = Append(out, Spoke!Usb(rx)))
    BY <1>6 DEF Spoke!EndFrame
  <2> QED
    BY <1>1, <1>2, <1>3, <1>4, <1>5, <2>1
<1>7. CASE Spoke!Gather
  <2>1. rx' = Append(rx, Head(fifo)) /\ read' = Append(read, Head(fifo)) /\ out' = out
    BY <1>7 DEF Spoke!Gather
  <2> QED
    BY <1>1, <1>2, <1>5, <2>1
<1>8. CASE Spoke!Overflow
  <2>1. rx' = <<Head(fifo)>> /\ read' = Append(read, Head(fifo)) /\ out' = Append(out, Spoke!Usb(rx))
    BY <1>8 DEF Spoke!Overflow
  <2> QED
    BY <1>1, <1>2, <1>3, <1>4, <1>5, <2>1
<1> QED
  BY <1>6, <1>7, <1>8 DEF Spoke!ReadByte

\* Arriving bytes move from the line to the port, or are lost in a stall.
LEMMA ArriveFacts ==
  ASSUME Spoke!HubSpokeAssumption, SpokeTypeOK, Spoke!Arrive
  PROVE  /\ spokeLine # <<>> /\ spokeLine' = Tail(spokeLine) /\ spokeLine' \in Seq(Byte) /\ Head(spokeLine) \in Byte
         /\ fifo' = Append(fifo, Head(spokeLine)) \/ (stalled /\ fifo' = fifo)
         /\ fifo' \in Seq(Byte)
         /\ UNCHANGED <<rx, age, stalled, out, read, due, wrote>>
<1>1. spokeLine # <<>> /\ spokeLine \in Seq(Byte) /\ fifo \in Seq(Byte)
  BY DEF Spoke!Arrive, SpokeTypeOK
<1>2. Tail(spokeLine) \in Seq(Byte) /\ Head(spokeLine) \in Byte
  BY <1>1, TailFacts
<1>3. Append(fifo, Head(spokeLine)) \in Seq(Byte)
  BY <1>1, <1>2, AppendFacts
<1> QED
  BY <1>1, <1>2, <1>3 DEF Spoke!Arrive

\* A frame goes on the line with its delimiter after it.
LEMMA WriteFacts ==
  ASSUME Spoke!HubSpokeAssumption, SpokeTypeOK, Spoke!WriteFrame
  PROVE  /\ wrote'.frames = wrote.frames + 1 /\ wrote'.texts = wrote.texts
         /\ wrote' \in [frames : Nat, texts : Nat, stalls : Nat]
         /\ spokeLine' = spokeLine \o Append(Spoke!Bytes(wrote.frames + 1), Spoke!Delimiter)
         /\ spokeLine' \in Seq(Byte)
         /\ due' = due \/ (Spoke!Boundary /\ ~stalled /\ due' = due \cup {wrote.frames + 1})
         /\ UNCHANGED <<fifo, rx, age, stalled, out, read>>
<1>1. wrote \in [frames : Nat, texts : Nat, stalls : Nat] /\ spokeLine \in Seq(Byte)
  BY DEF SpokeTypeOK
<1>2. wrote' = [wrote EXCEPT !.frames = wrote.frames + 1]
  BY DEF Spoke!WriteFrame
<1>3. /\ wrote'.frames = wrote.frames + 1 /\ wrote'.texts = wrote.texts
      /\ wrote' \in [frames : Nat, texts : Nat, stalls : Nat]
  BY <1>1, <1>2
<1>4. spokeLine' = spokeLine \o Append(Spoke!Bytes(wrote.frames + 1), Spoke!Delimiter)
  BY <1>3 DEF Spoke!WriteFrame
<1>5. wrote.frames + 1 \in Nat
  BY <1>1
<1>6. PICK w : w = Append(Spoke!Bytes(wrote.frames + 1), Spoke!Delimiter)
  OBVIOUS
<1>7. w \in Seq(Byte)
  BY <1>5, <1>6, FrameFacts
<1>8. spokeLine \o w \in Seq(Byte)
  BY <1>1, <1>7, ConcatFacts
<1> QED
  BY <1>3, <1>4, <1>6, <1>8 DEF Spoke!WriteFrame

\* Types and the account of the bytes, step by step.
LEMMA SpokeTypeNext ==
  ASSUME Spoke!HubSpokeAssumption, SpokeTypeOK, [Spoke!Next]_(Spoke!spokeVars)
  PROVE  SpokeTypeOK'
<1>1. CASE Spoke!FlushIdle
  <2>1. Append(out, Spoke!Usb(rx)) \in Seq(Handed) /\ <<>> \in Seq(Byte)
    <3>1. Spoke!Usb(rx) \in Handed
      BY DEF Spoke!Usb, Handed, SpokeTypeOK
    <3> QED
      BY <3>1, AppendFacts DEF SpokeTypeOK
  <2> QED
    BY <1>1, <2>1 DEF Spoke!FlushIdle, SpokeTypeOK
<1>2. CASE Spoke!ReadByte
  <2>1. /\ fifo' \in Seq(Byte) /\ rx' \in Seq(Byte) /\ read' \in Seq(Byte) /\ age' = 0
        /\ out' \in Seq(Handed) /\ UNCHANGED <<spokeLine, stalled, due, wrote>>
    BY <1>2, ReadFacts
  <2> QED
    BY <2>1 DEF SpokeTypeOK
<1>3. CASE Spoke!Stall
  <2>1. wrote \in [frames : Nat, texts : Nat, stalls : Nat]
    BY DEF SpokeTypeOK
  <2>2. wrote' = [wrote EXCEPT !.stalls = wrote.stalls + 1]
    BY <1>3 DEF Spoke!Stall
  <2>3. wrote' \in [frames : Nat, texts : Nat, stalls : Nat] /\ wrote'.frames = wrote.frames
    BY <2>1, <2>2
  <2> QED
    BY <1>3, <2>3 DEF Spoke!Stall, SpokeTypeOK
<1>4. CASE Spoke!Resume
  BY <1>4 DEF Spoke!Resume, SpokeTypeOK
<1>5. CASE Spoke!WriteFrame
  <2>1. due' \subseteq 1 .. wrote'.frames
    <3>1. due \subseteq 1 .. wrote.frames /\ wrote.frames \in Nat
      BY DEF SpokeTypeOK
    <3>2. due' \subseteq due \cup {wrote.frames + 1} /\ wrote'.frames = wrote.frames + 1
      BY <1>5, WriteFacts
    <3> QED
      BY <3>1, <3>2
  <2> QED
    BY <1>5, <2>1, WriteFacts DEF SpokeTypeOK
<1>6. CASE Spoke!WriteText
  <2>1. wrote \in [frames : Nat, texts : Nat, stalls : Nat]
    BY DEF SpokeTypeOK
  <2>2. wrote' = [wrote EXCEPT !.texts = wrote.texts + 1]
    BY <1>6 DEF Spoke!WriteText
  <2>3. wrote' \in [frames : Nat, texts : Nat, stalls : Nat] /\ wrote'.frames = wrote.frames
    BY <2>1, <2>2
  <2>4. Append(spokeLine, Spoke!Text) \in Seq(Byte)
    <3>1. Spoke!Text \in Byte /\ spokeLine \in Seq(Byte)
      BY DEF Spoke!Text, Byte, SpokeTypeOK
    <3> QED
      BY <3>1, AppendFacts
  <2> QED
    BY <1>6, <2>3, <2>4 DEF Spoke!WriteText, SpokeTypeOK
<1>7. CASE Spoke!Arrive
  BY <1>7, ArriveFacts DEF SpokeTypeOK
<1>8. CASE Spoke!Tick
  BY <1>8 DEF Spoke!Tick, SpokeTypeOK
<1>9. CASE UNCHANGED Spoke!spokeVars
  BY <1>9 DEF Spoke!spokeVars, SpokeTypeOK
<1> QED
  BY <1>1, <1>2, <1>3, <1>4, <1>5, <1>6, <1>7, <1>8, <1>9 DEF Spoke!Next

LEMMA SpokeTypeInit == Spoke!Init => SpokeTypeOK
<1>1. <<>> \in Seq(Byte) /\ <<>> \in Seq(Handed)
  OBVIOUS
<1>2. SUFFICES ASSUME Spoke!Init PROVE SpokeTypeOK
  OBVIOUS
<1>3. wrote \in [frames : Nat, texts : Nat, stalls : Nat] /\ due \subseteq 1 .. wrote.frames
  BY <1>2 DEF Spoke!Init
<1>4. /\ spokeLine \in Seq(Byte) /\ fifo \in Seq(Byte) /\ rx \in Seq(Byte) /\ read \in Seq(Byte)
      /\ out \in Seq(Handed)
  BY <1>1, <1>2 DEF Spoke!Init
<1> QED
  BY <1>2, <1>3, <1>4 DEF Spoke!Init, SpokeTypeOK

-----------------------------------------------------------------------------
\* The bytes of all that was handed on, in order.
HandedOn(s) == FlattenSeq([i \in DOMAIN s |-> s[i].bytes])

\* The hub's FlattenSeq is that of the community modules.
LEMMA SameFlatten ==
  ASSUME NEW s
  PROVE  Spoke!FlattenSeq(s) = FlattenSeq(s)
  BY DEF Spoke!FlattenSeq, FlattenSeq

LEMMA AccountedNext ==
  ASSUME Spoke!HubSpokeAssumption, SpokeTypeOK, Spoke!BytesAccounted, [Spoke!Next]_(Spoke!spokeVars)
  PROVE  Spoke!BytesAccounted'
<1>1. PICK x \in Seq(Byte) : x = HandedOn(out)
  BY FlattenType DEF SpokeTypeOK, HandedOn
<1>2. read = x \o rx /\ rx \in Seq(Byte)
  BY <1>1, SameFlatten DEF Spoke!BytesAccounted, HandedOn, SpokeTypeOK
<1>3. ASSUME NEW o \in Handed, out' = Append(out, o)
      PROVE  HandedOn(out') = x \o o.bytes
  BY <1>1, <1>3, HandedGrows DEF HandedOn, SpokeTypeOK
<1>4. SUFFICES read' = HandedOn(out') \o rx'
  BY SameFlatten DEF Spoke!BytesAccounted, HandedOn
<1>5. x \o rx \in Seq(Byte) /\ (x \o rx) \o <<>> = x \o rx
  BY <1>2
<1>6. /\ Spoke!Usb(rx) \in Handed /\ Spoke!Usb(rx).bytes = rx
      /\ Spoke!Routed(rx) \in Handed /\ Spoke!Routed(rx).bytes = rx
  BY <1>2 DEF Spoke!Usb, Spoke!Routed, Handed
<1>7. out' = out => HandedOn(out') = x
  BY <1>1
<1>8. CASE Spoke!FlushIdle
  <2>1. rx' = <<>> /\ out' = Append(out, Spoke!Usb(rx)) /\ read' = read
    BY <1>8 DEF Spoke!FlushIdle
  <2>2. HandedOn(out') = x \o rx
    BY <1>3, <1>6, <2>1
  <2> QED
    BY <1>2, <1>5, <2>1, <2>2
<1>9. CASE Spoke!ReadByte
  <2>1. PICK b \in Byte : b = Head(fifo)
    BY <1>9, ReadFacts
  <2>2. CASE Spoke!EndFrame
    <3>1. rx' = <<>> /\ read' = read
      BY <2>2 DEF Spoke!EndFrame
    <3>2. CASE rx = <<>>
      <4>1. out' = out
        BY <2>2, <3>2 DEF Spoke!EndFrame
      <4> QED
        BY <1>2, <1>7, <3>1, <3>2, <4>1
    <3>3. CASE rx # <<>>
      <4>1. out' = Append(out, Spoke!Usb(rx)) \/ out' = Append(out, Spoke!Routed(rx))
        BY <2>2, <3>3 DEF Spoke!EndFrame
      <4>2. HandedOn(out') = x \o rx
        BY <1>3, <1>6, <4>1
      <4> QED
        BY <1>2, <1>5, <3>1, <4>2
    <3> QED
      BY <3>2, <3>3
  <2>3. CASE Spoke!Gather
    <3>1. rx' = Append(rx, b) /\ read' = Append(read, b) /\ out' = out
      BY <2>1, <2>3 DEF Spoke!Gather
    <3>2. Append(x \o rx, b) = x \o Append(rx, b)
      BY <1>2
    <3> QED
      BY <1>2, <1>7, <3>1, <3>2
  <2>4. CASE Spoke!Overflow
    <3>1. rx' = <<b>> /\ read' = Append(read, b) /\ out' = Append(out, Spoke!Usb(rx))
      BY <2>1, <2>4 DEF Spoke!Overflow
    <3>2. HandedOn(out') = x \o rx
      BY <1>3, <1>6, <3>1
    <3>3. Append(x \o rx, b) = (x \o rx) \o <<b>>
      BY <1>5
    <3> QED
      BY <1>2, <3>1, <3>2, <3>3
  <2> QED
    BY <1>9, <2>2, <2>3, <2>4 DEF Spoke!ReadByte
<1>10. CASE UNCHANGED <<rx, out, read>>
  BY <1>2, <1>7, <1>10
<1> QED
  BY <1>8, <1>9, <1>10 DEF Spoke!Next, Spoke!Stall, Spoke!Resume, Spoke!WriteFrame, Spoke!WriteText, Spoke!Arrive, Spoke!Tick, Spoke!spokeVars

LEMMA AccountedInit == Spoke!Init => Spoke!BytesAccounted
<1>1. FlattenSeq(<<>>) = <<>>
  BY DEF FlattenSeq
<1>2. [i \in DOMAIN <<>> |-> <<>>[i].bytes] = <<>>
  OBVIOUS
<1>3. <<>> \o <<>> = <<>>
  OBVIOUS
<1> QED
  BY <1>1, <1>2, <1>3, SameFlatten DEF Spoke!Init, Spoke!BytesAccounted

\* Bytes of frames go up by frame and by place in it; text may come anywhere.
Less(a, b) ==
  a[1] = 0 \/ b[1] = 0 \/ a[1] < b[1] \/ (a[1] = b[1] /\ a[2] < b[2])
Ordered(s) == \A i, j \in DOMAIN s : i < j => Less(s[i], s[j])
Precedes(s, t) == \A i \in DOMAIN s, j \in DOMAIN t : Less(s[i], t[j])
Before(s, e) == \A i \in DOMAIN s : Less(s[i], e)
After(e, s) == \A i \in DOMAIN s : Less(e, s[i])
\* The bytes of s are of the first n frames; all are of frames after number m.
Known(s, n) ==
  \A i \in DOMAIN s : s[i][1] <= n /\ (s[i][1] # 0 => s[i][2] <= FrameBytes)
Past(m, s) == \A i \in DOMAIN s : s[i][1] = 0 \/ m < s[i][1]

\* What has gathered, what is in the port and what is on the line, one after the
\* other, is in order and of the first n frames.
Stream(a, b, c, n) ==
  /\ Ordered(a) /\ Ordered(b) /\ Ordered(c)
  /\ Precedes(a, b) /\ Precedes(a, c) /\ Precedes(b, c)
  /\ Known(a, n) /\ Known(b, n) /\ Known(c, n)
PastAll(n, a, b, c) == Past(n, a) /\ Past(n, b) /\ Past(n, c)

\* One more byte at the end, and one less at the front.
LEMMA GainsByte ==
  ASSUME NEW S, NEW s \in Seq(S), NEW e \in S, NEW t, NEW m, NEW n, NEW x
  PROVE  /\ Ordered(s) /\ Before(s, e) => Ordered(Append(s, e))
         /\ Precedes(s, t) /\ After(e, t) => Precedes(Append(s, e), t)
         /\ Precedes(t, s) /\ Before(t, e) => Precedes(t, Append(s, e))
         /\ Known(s, n) /\ e[1] <= n /\ (e[1] # 0 => e[2] <= FrameBytes) => Known(Append(s, e), n)
         /\ Past(m, s) /\ (e[1] = 0 \/ m < e[1]) => Past(m, Append(s, e))
         /\ After(x, s) /\ Less(x, e) => After(x, Append(s, e))
<1>1. PICK k \in Nat, u \in Seq(S) : k = Len(s) /\ u = Append(s, e)
  BY AppendFacts
<1>2. /\ DOMAIN s = 1 .. k /\ DOMAIN u = 1 .. k + 1 /\ u[k + 1] = e
      /\ \A i \in 1 .. k : u[i] = s[i]
  BY <1>1, AppendFacts
<1>3. \A i \in DOMAIN u : (i \in DOMAIN s /\ u[i] = s[i]) \/ (i = k + 1 /\ u[i] = e)
  BY <1>2
<1>4. Ordered(s) /\ Before(s, e) => Ordered(u)
  <2> SUFFICES ASSUME Ordered(s), Before(s, e), NEW i \in DOMAIN u, NEW j \in DOMAIN u, i < j
               PROVE  Less(u[i], u[j])
    BY DEF Ordered
  <2>1. i \in DOMAIN s /\ u[i] = s[i]
    BY <1>2
  <2>2. CASE j \in DOMAIN s
    BY <1>2, <2>1, <2>2 DEF Ordered
  <2>3. CASE j \notin DOMAIN s
    BY <1>2, <1>3, <2>1, <2>3 DEF Before
  <2> QED
    BY <2>2, <2>3
<1>5. Precedes(s, t) /\ After(e, t) => Precedes(u, t)
  BY <1>3 DEF Precedes, After
<1>6. Precedes(t, s) /\ Before(t, e) => Precedes(t, u)
  BY <1>3 DEF Precedes, Before
<1>7. Known(s, n) /\ e[1] <= n /\ (e[1] # 0 => e[2] <= FrameBytes) => Known(u, n)
  BY <1>3 DEF Known
<1>8. Past(m, s) /\ (e[1] = 0 \/ m < e[1]) => Past(m, u)
  BY <1>3 DEF Past
<1>9. After(x, s) /\ Less(x, e) => After(x, u)
  BY <1>3 DEF After
<1> QED
  BY <1>1, <1>4, <1>5, <1>6, <1>7, <1>8, <1>9

LEMMA LosesByte ==
  ASSUME NEW S, NEW s \in Seq(S), s # <<>>, NEW t, NEW m, NEW n
  PROVE  /\ Ordered(s) => Ordered(Tail(s)) /\ After(Head(s), Tail(s))
         /\ Precedes(s, t) => Precedes(Tail(s), t) /\ After(Head(s), t)
         /\ Precedes(t, s) => Precedes(t, Tail(s)) /\ Before(t, Head(s))
         /\ Known(s, n) => /\ Known(Tail(s), n) /\ Head(s)[1] <= n
                           /\ Head(s)[1] # 0 => Head(s)[2] <= FrameBytes
         /\ Past(m, s) => Past(m, Tail(s)) /\ (Head(s)[1] = 0 \/ m < Head(s)[1])
<1>1. PICK k \in Nat, u \in Seq(S), h \in S : k = Len(s) /\ u = Tail(s) /\ h = Head(s)
  BY TailFacts
<1>2. /\ DOMAIN s = 1 .. k /\ k >= 1 /\ DOMAIN u = 1 .. k - 1 /\ h = s[1]
      /\ \A i \in 1 .. k - 1 : u[i] = s[i + 1]
  BY <1>1, TailFacts
<1>3. \A i \in DOMAIN u : i + 1 \in DOMAIN s /\ 1 < i + 1 /\ u[i] = s[i + 1]
  BY <1>2
<1>4. 1 \in DOMAIN s
  BY <1>2
<1>5. Ordered(s) => Ordered(u) /\ After(h, u)
  <2> SUFFICES ASSUME Ordered(s) PROVE Ordered(u) /\ After(h, u)
    OBVIOUS
  <2>1. ASSUME NEW i \in DOMAIN u, NEW j \in DOMAIN u, i < j PROVE Less(u[i], u[j])
    <3>1. i + 1 < j + 1
      BY <1>2, <2>1
    <3> QED
      BY <1>3, <3>1 DEF Ordered
  <2>2. After(h, u)
    BY <1>2, <1>3, <1>4 DEF Ordered, After
  <2> QED
    BY <2>1, <2>2 DEF Ordered
<1>6. Precedes(s, t) => Precedes(u, t) /\ After(h, t)
  BY <1>2, <1>3, <1>4 DEF Precedes, After
<1>7. Precedes(t, s) => Precedes(t, u) /\ Before(t, h)
  BY <1>2, <1>3, <1>4 DEF Precedes, Before
<1>8. Known(s, n) => Known(u, n) /\ h[1] <= n /\ (h[1] # 0 => h[2] <= FrameBytes)
  BY <1>2, <1>3, <1>4 DEF Known
<1>9. Past(m, s) => Past(m, u) /\ (h[1] = 0 \/ m < h[1])
  BY <1>2, <1>3, <1>4 DEF Past
<1> QED
  BY <1>1, <1>5, <1>6, <1>7, <1>8, <1>9

LEMMA NoBytes ==
  ASSUME NEW t, NEW m, NEW n, NEW e
  PROVE  /\ Ordered(<<>>) /\ Precedes(<<>>, t) /\ Precedes(t, <<>>) /\ Known(<<>>, n)
         /\ Past(m, <<>>) /\ Before(<<>>, e) /\ After(e, <<>>)
  BY DEF Ordered, Precedes, Known, Past, Before, After

\* The stream keeps its order when what has gathered is handed on,
LEMMA StreamEmpties ==
  ASSUME NEW a, NEW b, NEW c, NEW n, Stream(a, b, c, n)
  PROVE  Stream(<<>>, b, c, n)
  BY NoBytes DEF Stream

\* when the next byte is read or skipped,
LEMMA StreamReads ==
  ASSUME NEW a \in Seq(Byte), NEW b \in Seq(Byte), NEW c, NEW n, b # <<>>, Stream(a, b, c, n)
  PROVE  Stream(Append(a, Head(b)), Tail(b), c, n) /\ Stream(a, Tail(b), c, n)
<1>1. PICK h \in Byte, u \in Seq(Byte) : h = Head(b) /\ u = Tail(b)
  BY TailFacts
<1>2. /\ Ordered(u) /\ Precedes(u, c) /\ Precedes(a, u) /\ Known(u, n)
      /\ After(h, u) /\ After(h, c) /\ Before(a, h) /\ h[1] <= n
      /\ h[1] # 0 => h[2] <= FrameBytes
  BY <1>1, LosesByte DEF Stream
<1>3. Ordered(a) /\ Ordered(c) /\ Precedes(a, c) /\ Known(a, n) /\ Known(c, n)
  BY DEF Stream
<1>4. PICK g : g = Append(a, h)
  OBVIOUS
<1>5. Ordered(g) /\ Precedes(g, u) /\ Precedes(g, c) /\ Known(g, n)
  BY <1>2, <1>3, <1>4, GainsByte
<1> QED
  BY <1>1, <1>2, <1>3, <1>4, <1>5 DEF Stream

\* and when a byte arrives or is lost.
LEMMA StreamArrives ==
  ASSUME NEW a, NEW b \in Seq(Byte), NEW c \in Seq(Byte), NEW n, c # <<>>, Stream(a, b, c, n)
  PROVE  Stream(a, Append(b, Head(c)), Tail(c), n) /\ Stream(a, b, Tail(c), n)
<1>1. PICK h \in Byte, u \in Seq(Byte) : h = Head(c) /\ u = Tail(c)
  BY TailFacts
<1>2. /\ Ordered(u) /\ Precedes(a, u) /\ Precedes(b, u) /\ Known(u, n)
      /\ After(h, u) /\ Before(a, h) /\ Before(b, h) /\ h[1] <= n
      /\ h[1] # 0 => h[2] <= FrameBytes
  BY <1>1, LosesByte DEF Stream
<1>3. Ordered(a) /\ Ordered(b) /\ Precedes(a, b) /\ Known(a, n) /\ Known(b, n)
  BY DEF Stream
<1>4. PICK g : g = Append(b, h)
  OBVIOUS
<1>5. Ordered(g) /\ Precedes(g, u) /\ Precedes(a, g) /\ Known(g, n)
  BY <1>2, <1>3, <1>4, GainsByte
<1> QED
  BY <1>1, <1>2, <1>3, <1>4, <1>5 DEF Stream

\* A frame of the next number comes after everything, as does text.
LEMMA StreamGrows ==
  ASSUME Spoke!HubSpokeAssumption, NEW n \in Nat,
         NEW a \in Seq(Byte), NEW b \in Seq(Byte), NEW c \in Seq(Byte), Stream(a, b, c, n)
  PROVE  /\ Stream(a, b, c \o Append(Spoke!Bytes(n + 1), Spoke!Delimiter), n + 1)
         /\ Stream(a, b, Append(c, Spoke!Text), n)
<1>1. PICK w : w = Append(Spoke!Bytes(n + 1), Spoke!Delimiter)
  OBVIOUS
<1>14. n + 1 \in Nat
  OBVIOUS
<1>2. /\ w \in Seq(Byte) /\ Len(w) = FrameBytes + 1 /\ DOMAIN w = 1 .. FrameBytes + 1
      /\ \A k \in 1 .. FrameBytes : w[k] = <<n + 1, k>>
      /\ w[FrameBytes + 1] = <<0, 0>> /\ FrameBytes \in Nat
  BY <1>1, <1>14, FrameFacts, SpokeConstants DEF Spoke!Delimiter
<1>3. \A k \in DOMAIN w : \/ k \in 1 .. FrameBytes /\ w[k][1] = n + 1 /\ w[k][2] = k
                          \/ w[k][1] = 0 /\ k = FrameBytes + 1
  BY <1>2
<1>4. Ordered(w) /\ Known(w, n + 1)
  BY <1>2, <1>3 DEF Ordered, Known, Less
<1>5. ASSUME NEW s \in Seq(Byte), Known(s, n)
      PROVE  Precedes(s, w) /\ Known(s, n + 1)
  <2>1. \A i \in DOMAIN s : s[i][1] \in Nat /\ s[i][1] <= n
    BY <1>5 DEF Byte, Known
  <2> QED
    BY <1>3, <1>5, <2>1 DEF Precedes, Less, Known
<1>6. PICK k \in Nat, v \in Seq(Byte) : k = Len(c) /\ v = c \o w
  BY <1>2, ConcatFacts
<1>7. /\ DOMAIN v = 1 .. k + FrameBytes + 1 /\ DOMAIN c = 1 .. k
      /\ \A i \in 1 .. k : v[i] = c[i]
      /\ \A j \in 1 .. FrameBytes + 1 : v[k + j] = w[j]
  <2>1. Len(v) = k + FrameBytes + 1
    BY <1>2, <1>6, ConcatFacts
  <2> QED
    BY <1>2, <1>6, <2>1, ConcatFacts
<1>8. \A i \in DOMAIN v : \/ i \in DOMAIN c /\ v[i] = c[i]
                          \/ i > k /\ i - k \in DOMAIN w /\ v[i] = w[i - k]
  <2> SUFFICES ASSUME NEW i \in DOMAIN v, i \notin DOMAIN c
               PROVE  i > k /\ i - k \in DOMAIN w /\ v[i] = w[i - k]
    BY <1>7
  <2>1. i > k /\ i - k \in 1 .. FrameBytes + 1 /\ k + (i - k) = i
    BY <1>2, <1>7
  <2> QED
    BY <1>2, <1>7, <2>1
<1>9. Ordered(v)
  <2> SUFFICES ASSUME NEW i \in DOMAIN v, NEW j \in DOMAIN v, i < j
               PROVE  Less(v[i], v[j])
    BY DEF Ordered
  <2>1. Precedes(c, w) /\ Ordered(c)
    BY <1>5 DEF Stream
  <2>2. CASE i \in DOMAIN c /\ j \in DOMAIN c
    BY <1>7, <2>1, <2>2 DEF Ordered
  <2>3. CASE i \in DOMAIN c /\ j \notin DOMAIN c
    BY <1>7, <1>8, <2>1, <2>3 DEF Precedes
  <2>4. CASE i \notin DOMAIN c
    <3>1. i > k /\ j > k /\ j \notin DOMAIN c
      BY <1>7, <2>4
    <3>2. i - k \in DOMAIN w /\ j - k \in DOMAIN w /\ i - k < j - k
      BY <1>2, <1>8, <3>1, <2>4
    <3> QED
      BY <1>4, <1>8, <3>1, <3>2, <2>4 DEF Ordered
  <2> QED
    BY <2>2, <2>3, <2>4
<1>10. ASSUME NEW s \in Seq(Byte), Known(s, n), Precedes(s, c)
       PROVE  Precedes(s, v)
  BY <1>5, <1>8, <1>10 DEF Precedes
<1>11. Known(v, n + 1)
  <2>1. Known(c, n + 1)
    BY <1>5 DEF Stream
  <2> QED
    BY <1>4, <1>8, <2>1 DEF Known
<1>12. Stream(a, b, v, n + 1)
  BY <1>5, <1>9, <1>10, <1>11 DEF Stream
<1>13. Stream(a, b, Append(c, Spoke!Text), n)
  <2>4. Known(c, n) /\ Precedes(a, c) /\ Precedes(b, c) /\ Ordered(c)
    BY DEF Stream
  <2>5. 0 <= n
    OBVIOUS
  <2>1. Spoke!Text \in Byte /\ Spoke!Text[1] = 0
    BY DEF Spoke!Text, Byte
  <2>2. Before(a, Spoke!Text) /\ Before(b, Spoke!Text) /\ Before(c, Spoke!Text)
    BY <2>1 DEF Before, Less
  <2>3. Ordered(Append(c, Spoke!Text)) /\ Precedes(a, Append(c, Spoke!Text)) /\ Precedes(b, Append(c, Spoke!Text))
        /\ Known(Append(c, Spoke!Text), n)
    BY <2>1, <2>2, <2>4, <2>5, GainsByte
  <2> QED
    BY <2>3 DEF Stream
<1> QED
  BY <1>1, <1>6, <1>12, <1>13

\* Frames handed on have rising numbers, all below those of the bytes to come.
Number(o) == o.bytes[1][1]
InTurn(s) ==
  \A i, j \in DOMAIN s : i < j /\ s[i].to = "frame" /\ s[j].to = "frame"
    => Number(s[i]) < Number(s[j])
Done(s, n, a, b, c) ==
  \A i \in DOMAIN s : s[i].to = "frame" =>
    Number(s[i]) \in 1 .. n /\ PastAll(Number(s[i]), a, b, c)

\* The order of the frames, behind and ahead of the reading loop.
OrderKept ==
  /\ Stream(rx, fifo, spokeLine, wrote.frames)
  /\ InTurn(out) /\ Done(out, wrote.frames, rx, fifo, spokeLine)

\* Handing text on changes nothing about the frames handed on.
LEMMA HandsOnText ==
  ASSUME NEW s \in Seq(Handed), NEW o \in Handed, o.to # "frame",
         NEW n, NEW a, NEW b, NEW c
  PROVE  /\ InTurn(s) => InTurn(Append(s, o))
         /\ Done(s, n, a, b, c) => Done(Append(s, o), n, a, b, c)
<1>1. PICK k \in Nat, u \in Seq(Handed) : k = Len(s) /\ u = Append(s, o)
  BY AppendFacts
<1>2. /\ DOMAIN s = 1 .. k /\ DOMAIN u = 1 .. k + 1 /\ u[k + 1] = o
      /\ \A i \in 1 .. k : u[i] = s[i]
  BY <1>1, AppendFacts
<1>3. \A i \in DOMAIN u : u[i].to = "frame" => i \in DOMAIN s /\ u[i] = s[i]
  BY <1>2
<1>4. InTurn(s) => InTurn(u)
  BY <1>3 DEF InTurn
<1>5. Done(s, n, a, b, c) => Done(u, n, a, b, c)
  BY <1>3 DEF Done
<1> QED
  BY <1>1, <1>4, <1>5

\* A frame handed on comes in turn if it is past those before it.
LEMMA HandsOnFrame ==
  ASSUME NEW s \in Seq(Handed), NEW o \in Handed, NEW n,
         NEW a, NEW b, NEW c, InTurn(s), Done(s, n, a, b, c),
         Number(o) \in 1 .. n, PastAll(Number(o), a, b, c),
         \A i \in DOMAIN s : s[i].to = "frame" => Number(s[i]) < Number(o)
  PROVE  InTurn(Append(s, o)) /\ Done(Append(s, o), n, a, b, c)
<1>1. PICK k \in Nat, u \in Seq(Handed) : k = Len(s) /\ u = Append(s, o)
  BY AppendFacts
<1>2. /\ DOMAIN s = 1 .. k /\ DOMAIN u = 1 .. k + 1 /\ u[k + 1] = o
      /\ \A i \in 1 .. k : u[i] = s[i]
  BY <1>1, AppendFacts
<1>3. \A i \in DOMAIN u : (i \in DOMAIN s /\ u[i] = s[i]) \/ (i = k + 1 /\ u[i] = o)
  BY <1>2
<1>4. InTurn(u)
  <2> SUFFICES ASSUME NEW i \in DOMAIN u, NEW j \in DOMAIN u, i < j,
                      u[i].to = "frame", u[j].to = "frame"
               PROVE  Number(u[i]) < Number(u[j])
    BY DEF InTurn
  <2>1. i \in DOMAIN s /\ u[i] = s[i]
    BY <1>2
  <2>2. CASE j \in DOMAIN s
    BY <1>2, <2>1, <2>2 DEF InTurn
  <2>3. CASE j \notin DOMAIN s
    BY <1>3, <2>1, <2>3
  <2> QED
    BY <2>2, <2>3
<1>5. Done(u, n, a, b, c)
  BY <1>3 DEF Done
<1> QED
  BY <1>1, <1>4, <1>5

\* What is past the bytes stays past them as they move on.
LEMMA PastMoves ==
  ASSUME NEW m, NEW a \in Seq(Byte), NEW b \in Seq(Byte), NEW c \in Seq(Byte), PastAll(m, a, b, c)
  PROVE  /\ PastAll(m, <<>>, b, c)
         /\ b # <<>> => PastAll(m, Append(a, Head(b)), Tail(b), c) /\ PastAll(m, a, Tail(b), c)
         /\ c # <<>> => PastAll(m, a, Append(b, Head(c)), Tail(c)) /\ PastAll(m, a, b, Tail(c))
<1>1. Past(m, a) /\ Past(m, b) /\ Past(m, c) /\ Past(m, <<>>)
  BY NoBytes DEF PastAll
<1>2. b # <<>> => /\ Past(m, Tail(b)) /\ Head(b) \in Byte
                  /\ Head(b)[1] = 0 \/ m < Head(b)[1]
  BY <1>1, LosesByte, TailFacts
<1>3. b # <<>> => Past(m, Append(a, Head(b)))
  BY <1>1, <1>2, GainsByte
<1>4. c # <<>> => /\ Past(m, Tail(c)) /\ Head(c) \in Byte
                  /\ Head(c)[1] = 0 \/ m < Head(c)[1]
  BY <1>1, LosesByte, TailFacts
<1>5. c # <<>> => Past(m, Append(b, Head(c)))
  BY <1>1, <1>4, GainsByte
<1> QED
  BY <1>1, <1>2, <1>3, <1>4, <1>5 DEF PastAll

\* A new frame has a higher number than those handed on, and text has none.
LEMMA PastGrows ==
  ASSUME Spoke!HubSpokeAssumption, NEW n \in Nat, NEW m \in 1 .. n,
         NEW a, NEW b, NEW c \in Seq(Byte), PastAll(m, a, b, c)
  PROVE  /\ PastAll(m, a, b, c \o Append(Spoke!Bytes(n + 1), Spoke!Delimiter))
         /\ PastAll(m, a, b, Append(c, Spoke!Text))
<1>1. PICK w : w = Append(Spoke!Bytes(n + 1), Spoke!Delimiter)
  OBVIOUS
<1>2. n + 1 \in Nat
  OBVIOUS
<1>3. /\ w \in Seq(Byte) /\ DOMAIN w = 1 .. FrameBytes + 1
      /\ \A k \in 1 .. FrameBytes : w[k] = <<n + 1, k>>
      /\ w[FrameBytes + 1] = <<0, 0>> /\ FrameBytes \in Nat
  BY <1>1, <1>2, FrameFacts, SpokeConstants DEF Spoke!Delimiter
<1>4. \A k \in DOMAIN w : w[k][1] = 0 \/ m < w[k][1]
  BY <1>3
<1>5. PICK k \in Nat, v \in Seq(Byte) : k = Len(c) /\ v = c \o w
  BY <1>3, ConcatFacts
<1>6. \A i \in DOMAIN v : \/ i \in DOMAIN c /\ v[i] = c[i]
                          \/ i - k \in DOMAIN w /\ v[i] = w[i - k]
  BY <1>3, <1>5
<1>7. Past(m, c)
  BY DEF PastAll
<1>8. Past(m, v)
  BY <1>4, <1>6, <1>7 DEF Past
<1>9. Past(m, Append(c, Spoke!Text))
  <2>1. Spoke!Text \in Byte /\ Spoke!Text[1] = 0
    BY DEF Spoke!Text, Byte
  <2> QED
    BY <1>7, <2>1, GainsByte
<1> QED
  BY <1>1, <1>5, <1>8, <1>9 DEF PastAll

\* A frame that has gathered whole is past everything behind it, and those
\* handed on before are past it.
LEMMA WholeFrame ==
  ASSUME Spoke!HubSpokeAssumption, NEW n \in Nat, Spoke!IsFrame(rx),
         rx \in Seq(Byte), fifo \in Seq(Byte), spokeLine \in Seq(Byte),
         Stream(rx, fifo, spokeLine, n)
  PROVE  /\ rx[1][1] \in 1 .. n /\ PastAll(rx[1][1], <<>>, fifo, spokeLine)
         /\ \A m : Past(m, rx) => m < rx[1][1]
<1>1. PICK m : m = rx[1][1]
  OBVIOUS
<1>2. rx # <<>> /\ rx = Spoke!Bytes(m) /\ m # 0
  <2>1. Head(rx) = rx[1]
    BY DEF Spoke!IsFrame
  <2> QED
    BY <1>1, <2>1 DEF Spoke!IsFrame
<1>3. DOMAIN rx = 1 .. FrameBytes /\ FrameBytes \in Nat /\ FrameBytes >= 1
  BY <1>2, SpokeConstants DEF Spoke!Bytes
<1>4. m \in Nat /\ 1 \in DOMAIN rx
  BY <1>1, <1>3 DEF Byte
<1>5. m <= n
  BY <1>1, <1>4 DEF Stream, Known
<1>6. FrameBytes \in DOMAIN rx /\ rx[FrameBytes] = <<m, FrameBytes>>
  BY <1>2, <1>3 DEF Spoke!Bytes
<1>7. ASSUME NEW s \in Seq(Byte), Precedes(rx, s), Known(s, n)
      PROVE  Past(m, s)
  <2> SUFFICES ASSUME NEW i \in DOMAIN s, s[i][1] # 0
               PROVE  m < s[i][1]
    BY DEF Past
  <2>1. s[i] \in Byte
    OBVIOUS
  <2>2. s[i][1] \in Nat /\ s[i][2] \in Nat /\ s[i][2] <= FrameBytes
    BY <1>7, <2>1 DEF Byte, Known
  <2>3. Less(<<m, FrameBytes>>, s[i])
    BY <1>6, <1>7 DEF Precedes
  <2>4. m < s[i][1] \/ (m = s[i][1] /\ FrameBytes < s[i][2])
    BY <1>2, <2>3 DEF Less
  <2> QED
    BY <1>3, <2>2, <2>4
<1>8. PastAll(m, <<>>, fifo, spokeLine)
  BY <1>7, NoBytes DEF PastAll, Stream
<1>9. \A x : Past(x, rx) => x < m
  BY <1>1, <1>2, <1>4 DEF Past
<1> QED
  BY <1>1, <1>2, <1>4, <1>5, <1>8, <1>9

\* Done carries over to a stream that every number stays past.
LEMMA DoneCarries ==
  ASSUME NEW s, NEW n \in Nat, NEW m \in Nat, n <= m,
         NEW a, NEW b, NEW c, NEW x, NEW y, NEW z, Done(s, n, a, b, c),
         \A k \in 1 .. n : PastAll(k, a, b, c) => PastAll(k, x, y, z)
  PROVE  Done(s, m, x, y, z)
  BY DEF Done

\* Every step keeps the order.
LEMMA OrderNext ==
  ASSUME Spoke!HubSpokeAssumption, SpokeTypeOK, OrderKept, [Spoke!Next]_(Spoke!spokeVars)
  PROVE  OrderKept'
<1>1. PICK n \in Nat : n = wrote.frames
  BY DEF SpokeTypeOK
<1>2. /\ rx \in Seq(Byte) /\ fifo \in Seq(Byte) /\ spokeLine \in Seq(Byte) /\ out \in Seq(Handed)
      /\ Spoke!Usb(rx) \in Handed /\ Spoke!Usb(rx).to # "frame" /\ Spoke!Routed(rx) \in Handed
  BY DEF SpokeTypeOK, Spoke!Usb, Spoke!Routed, Handed
<1>3. Stream(rx, fifo, spokeLine, n) /\ InTurn(out) /\ Done(out, n, rx, fifo, spokeLine)
  BY <1>1 DEF OrderKept
<1>4. CASE Spoke!FlushIdle
  <2>1. rx' = <<>> /\ out' = Append(out, Spoke!Usb(rx)) /\ UNCHANGED <<fifo, spokeLine, wrote>>
    BY <1>4 DEF Spoke!FlushIdle
  <2>2. Stream(<<>>, fifo, spokeLine, n)
    BY <1>3, StreamEmpties
  <2>3. \A k \in 1 .. n : PastAll(k, rx, fifo, spokeLine) => PastAll(k, <<>>, fifo, spokeLine)
    BY <1>2, PastMoves
  <2>4. Done(out, n, <<>>, fifo, spokeLine)
    BY <1>3, <2>3, DoneCarries
  <2>5. InTurn(out') /\ Done(out', n, <<>>, fifo, spokeLine)
    BY <1>2, <1>3, <2>1, <2>4, HandsOnText
  <2> QED
    BY <1>1, <2>1, <2>2, <2>5 DEF OrderKept
<1>5. CASE Spoke!ReadByte
  <2>1. PICK h \in Byte, u \in Seq(Byte) :
          h = Head(fifo) /\ u = Tail(fifo) /\ fifo' = u /\ fifo # <<>> /\ UNCHANGED <<spokeLine, wrote>>
    BY <1>5, ReadFacts
  <2>2. CASE Spoke!EndFrame
    <3>1. Stream(rx, u, spokeLine, n)
      BY <1>2, <1>3, <2>1, StreamReads
    <3>2. Stream(<<>>, u, spokeLine, n)
      BY <3>1, StreamEmpties
    <3>3. \A k \in 1 .. n : PastAll(k, rx, fifo, spokeLine) => PastAll(k, rx, u, spokeLine)
      BY <1>2, <2>1, PastMoves
    <3>4. \A k \in 1 .. n : PastAll(k, rx, u, spokeLine) => PastAll(k, <<>>, u, spokeLine)
      BY <1>2, <2>1, PastMoves
    <3>5. Done(out, n, <<>>, u, spokeLine)
      BY <1>3, <3>3, <3>4, DoneCarries
    <3>6. rx' = <<>>
      BY <2>2 DEF Spoke!EndFrame
    <3>7. CASE rx = <<>>
      <4>1. out' = out
        BY <2>2, <3>7 DEF Spoke!EndFrame
      <4> QED
        BY <1>1, <1>3, <2>1, <3>2, <3>5, <3>6, <4>1 DEF OrderKept
    <3>8. CASE rx # <<>> /\ ~Spoke!IsFrame(rx)
      <4>1. out' = Append(out, Spoke!Usb(rx))
        BY <2>2, <3>8 DEF Spoke!EndFrame
      <4>2. InTurn(out') /\ Done(out', n, <<>>, u, spokeLine)
        BY <1>2, <1>3, <3>5, <4>1, HandsOnText
      <4> QED
        BY <1>1, <2>1, <3>2, <3>6, <4>2 DEF OrderKept
    <3>9. CASE rx # <<>> /\ Spoke!IsFrame(rx)
      <4>1. out' = Append(out, Spoke!Routed(rx))
        BY <2>2, <3>9 DEF Spoke!EndFrame
      <4>2. /\ rx[1][1] \in 1 .. n /\ PastAll(rx[1][1], <<>>, fifo, spokeLine)
            /\ \A m : Past(m, rx) => m < rx[1][1]
        BY <1>2, <1>3, <3>9, WholeFrame
      <4>3. PICK o \in Handed : o = Spoke!Routed(rx) /\ Number(o) = rx[1][1]
        BY <1>2 DEF Number, Spoke!Routed
      <4>4. <<>> \in Seq(Byte)
        OBVIOUS
      <4>5. PastAll(Number(o), <<>>, u, spokeLine)
        BY <1>2, <2>1, <4>2, <4>3, <4>4, PastMoves
      <4>6. \A i \in DOMAIN out : out[i].to = "frame" => Number(out[i]) < Number(o)
        BY <1>3, <4>2, <4>3 DEF Done, PastAll
      <4>7. InTurn(out') /\ Done(out', n, <<>>, u, spokeLine)
        BY <1>2, <1>3, <3>5, <4>1, <4>2, <4>3, <4>5, <4>6, HandsOnFrame
      <4> QED
        BY <1>1, <2>1, <3>2, <3>6, <4>7 DEF OrderKept
    <3> QED
      BY <3>7, <3>8, <3>9
  <2>3. CASE Spoke!Gather
    <3>1. rx' = Append(rx, h) /\ out' = out
      BY <2>1, <2>3 DEF Spoke!Gather
    <3>2. Stream(Append(rx, h), u, spokeLine, n)
      BY <1>2, <1>3, <2>1, StreamReads
    <3>3. \A k \in 1 .. n : PastAll(k, rx, fifo, spokeLine) => PastAll(k, Append(rx, h), u, spokeLine)
      BY <1>2, <2>1, PastMoves
    <3>4. Done(out, n, Append(rx, h), u, spokeLine)
      BY <1>3, <3>3, DoneCarries
    <3> QED
      BY <1>1, <1>3, <2>1, <3>1, <3>2, <3>4 DEF OrderKept
  <2>4. CASE Spoke!Overflow
    <3>1. rx' = <<h>> /\ out' = Append(out, Spoke!Usb(rx))
      BY <2>1, <2>4 DEF Spoke!Overflow
    <3>2. <<>> \in Seq(Byte) /\ Append(<<>>, h) = <<h>>
      OBVIOUS
    <3>3. Stream(<<>>, fifo, spokeLine, n)
      BY <1>3, StreamEmpties
    <3>4. Stream(Append(<<>>, h), u, spokeLine, n)
      BY <1>2, <2>1, <3>2, <3>3, StreamReads
    <3>5. \A k \in 1 .. n : PastAll(k, rx, fifo, spokeLine) => PastAll(k, <<>>, fifo, spokeLine)
      BY <1>2, PastMoves
    <3>6. \A k \in 1 .. n : PastAll(k, <<>>, fifo, spokeLine) => PastAll(k, Append(<<>>, h), u, spokeLine)
      BY <1>2, <2>1, <3>2, PastMoves
    <3>7. Done(out, n, <<h>>, u, spokeLine)
      BY <1>3, <3>2, <3>5, <3>6, DoneCarries
    <3>8. InTurn(out') /\ Done(out', n, <<h>>, u, spokeLine)
      BY <1>2, <1>3, <3>1, <3>7, HandsOnText
    <3> QED
      BY <1>1, <2>1, <3>1, <3>2, <3>4, <3>8 DEF OrderKept
  <2> QED
    BY <1>5, <2>2, <2>3, <2>4 DEF Spoke!ReadByte
<1>6. CASE Spoke!WriteFrame
  <2>1. /\ wrote'.frames = n + 1 /\ spokeLine' = spokeLine \o Append(Spoke!Bytes(n + 1), Spoke!Delimiter)
        /\ UNCHANGED <<fifo, rx, out>>
    BY <1>1, <1>6, WriteFacts
  <2>2. Stream(rx, fifo, spokeLine', n + 1)
    BY <1>2, <1>3, <2>1, StreamGrows
  <2>3. \A k \in 1 .. n : PastAll(k, rx, fifo, spokeLine) => PastAll(k, rx, fifo, spokeLine')
    BY <1>2, <2>1, PastGrows
  <2>4. n + 1 \in Nat /\ n <= n + 1
    OBVIOUS
  <2>5. Done(out, n + 1, rx, fifo, spokeLine')
    BY <1>3, <2>3, <2>4, DoneCarries
  <2> QED
    BY <1>3, <2>1, <2>2, <2>5 DEF OrderKept
<1>7. CASE Spoke!WriteText
  <2>1. wrote'.frames = n /\ spokeLine' = Append(spokeLine, Spoke!Text) /\ UNCHANGED <<fifo, rx, out>>
    <3>1. wrote' = [wrote EXCEPT !.texts = wrote.texts + 1]
      BY <1>7 DEF Spoke!WriteText
    <3>2. wrote'.frames = n
      BY <1>1, <3>1 DEF SpokeTypeOK
    <3> QED
      BY <1>7, <3>2 DEF Spoke!WriteText
  <2>2. Stream(rx, fifo, spokeLine', n)
    BY <1>2, <1>3, <2>1, StreamGrows
  <2>3. \A k \in 1 .. n : PastAll(k, rx, fifo, spokeLine) => PastAll(k, rx, fifo, spokeLine')
    BY <1>2, <2>1, PastGrows
  <2>4. Done(out, n, rx, fifo, spokeLine')
    BY <1>3, <2>3, DoneCarries
  <2> QED
    BY <1>3, <2>1, <2>2, <2>4 DEF OrderKept
<1>8. CASE Spoke!Arrive
  <2>1. /\ spokeLine # <<>> /\ spokeLine' = Tail(spokeLine) /\ UNCHANGED <<rx, out, wrote>>
        /\ fifo' = Append(fifo, Head(spokeLine)) \/ fifo' = fifo
    BY <1>8, ArriveFacts
  <2>2. Stream(rx, fifo', spokeLine', n)
    BY <1>2, <1>3, <2>1, StreamArrives
  <2>3. \A k \in 1 .. n : PastAll(k, rx, fifo, spokeLine) => PastAll(k, rx, fifo', spokeLine')
    BY <1>2, <2>1, PastMoves
  <2>4. Done(out, n, rx, fifo', spokeLine')
    BY <1>3, <2>3, DoneCarries
  <2> QED
    BY <1>1, <1>3, <2>1, <2>2, <2>4 DEF OrderKept
<1>9. CASE Spoke!Stall
  <2>1. wrote' = [wrote EXCEPT !.stalls = wrote.stalls + 1] /\ UNCHANGED <<rx, fifo, spokeLine, out>>
    BY <1>9 DEF Spoke!Stall
  <2>2. wrote'.frames = n
    BY <1>1, <2>1 DEF SpokeTypeOK
  <2> QED
    BY <1>3, <2>1, <2>2 DEF OrderKept
<1>10. CASE UNCHANGED <<rx, fifo, spokeLine, out, wrote>>
  BY <1>1, <1>3, <1>10 DEF OrderKept
<1> QED
  BY <1>4, <1>5, <1>6, <1>7, <1>8, <1>9, <1>10 DEF Spoke!Next, Spoke!Resume, Spoke!Tick, Spoke!spokeVars

LEMMA OrderInit == Spoke!Init => OrderKept
<1>1. SUFFICES ASSUME Spoke!Init PROVE OrderKept
  OBVIOUS
<1>2. rx = <<>> /\ fifo = <<>> /\ spokeLine = <<>> /\ out = <<>>
  BY <1>1 DEF Spoke!Init
<1>3. Stream(rx, fifo, spokeLine, wrote.frames)
  BY <1>2, NoBytes DEF Stream
<1>4. InTurn(out) /\ Done(out, wrote.frames, rx, fifo, spokeLine)
  BY <1>2 DEF InTurn, Done
<1> QED
  BY <1>3, <1>4 DEF OrderKept

-----------------------------------------------------------------------------

\* In q, the bytes of frame f after its first k and then its delimiter begin at p.
RestAt(q, f, k, p) ==
  /\ p \in Nat /\ p >= 1 /\ p + (FrameBytes - k) <= Len(q)
  /\ \A i \in k + 1 .. FrameBytes : q[p + (i - k) - 1] = <<f, i>>
  /\ q[p + (FrameBytes - k)] = Spoke!Delimiter

\* The first k bytes of frame f.
FirstBytes(f, k) == [i \in 1 .. k |-> <<f, i>>]

\* Nothing comes before place p that would be taken for a part of what begins
\* there: g has gathered, and is old or not.
Clear(q, p, g, old) == IF p = 1 THEN g = <<>> \/ old ELSE q[p - 1] = Spoke!Delimiter

\* Frame f is wholly ahead, or has begun to gather and the rest comes next.
Nearing(q, g, old, f) == \E p \in Nat : RestAt(q, f, 0, p) /\ Clear(q, p, g, old)
Begun(q, g, old, f) ==
  ~old /\ \E k \in 1 .. FrameBytes : g = FirstBytes(f, k) /\ RestAt(q, f, k, 1)
OnItsWay(q, g, old, f) == Nearing(q, g, old, f) \/ Begun(q, g, old, f)

\* What keeps every due frame from being lost: it is routed, or the loop goes
\* round and it is on its way.
Incoming == fifo \o spokeLine
DueKept ==
  \A f \in due : Spoke!IsRouted(f) \/ (~stalled /\ OnItsWay(Incoming, rx, age >= Idle, f))

\* The rest of a frame stays where it is when more is written behind it, and
\* moves up by one when a byte is read.
LEMMA RestGrows ==
  ASSUME Spoke!HubSpokeAssumption, NEW q \in Seq(Byte), NEW w \in Seq(Byte),
         NEW f, NEW k \in 0 .. FrameBytes, NEW p \in Nat, RestAt(q, f, k, p)
  PROVE  RestAt(q \o w, f, k, p) /\ \A i \in 1 .. p : (q \o w)[i] = q[i]
<1>1. PICK n \in Nat, m \in Nat, v \in Seq(Byte) : n = Len(q) /\ m = Len(w) /\ v = q \o w
  BY ConcatFacts
<1>2. Len(v) = n + m /\ \A i \in 1 .. n : v[i] = q[i]
  BY <1>1, ConcatFacts
<1>3. FrameBytes \in Nat /\ k \in Nat /\ k <= FrameBytes
  BY SpokeConstants
<1>4. p >= 1 /\ p + (FrameBytes - k) <= n
  BY <1>1 DEF RestAt
<1>5. p + (FrameBytes - k) <= Len(v) /\ p + (FrameBytes - k) \in 1 .. n
  BY <1>2, <1>3, <1>4
<1>6. \A i \in 1 .. p : i \in 1 .. n
  BY <1>3, <1>4
<1>7. \A i \in k + 1 .. FrameBytes : p + (i - k) - 1 \in 1 .. n
  BY <1>3, <1>4
<1>8. v[p + (FrameBytes - k)] = Spoke!Delimiter
  BY <1>2, <1>5 DEF RestAt
<1>9. \A i \in k + 1 .. FrameBytes : v[p + (i - k) - 1] = <<f, i>>
  BY <1>2, <1>7 DEF RestAt
<1>10. \A i \in 1 .. p : v[i] = q[i]
  BY <1>2, <1>6
<1> QED
  BY <1>1, <1>4, <1>5, <1>8, <1>9, <1>10 DEF RestAt

LEMMA RestShrinks ==
  ASSUME Spoke!HubSpokeAssumption, NEW q \in Seq(Byte), q # <<>>,
         NEW f, NEW k \in 0 .. FrameBytes, NEW p \in Nat, RestAt(q, f, k, p)
  PROVE  /\ p > 1 => RestAt(Tail(q), f, k, p - 1)
         /\ p = 1 /\ k < FrameBytes => Head(q) = <<f, k + 1>> /\ RestAt(Tail(q), f, k + 1, 1)
         /\ p = 1 /\ k = FrameBytes => Head(q) = Spoke!Delimiter
<1>1. PICK n \in Nat, v \in Seq(Byte) : n = Len(q) /\ v = Tail(q)
  BY TailFacts
<1>2. /\ n >= 1 /\ Len(v) = n - 1 /\ Head(q) = q[1]
      /\ \A i \in 1 .. n - 1 : v[i] = q[i + 1]
  BY <1>1, TailFacts
<1>3. FrameBytes \in Nat /\ k \in Nat /\ k <= FrameBytes
  BY SpokeConstants
<1>4. p >= 1 /\ p + (FrameBytes - k) <= n
  BY <1>1 DEF RestAt
<1>5. ASSUME p > 1
      PROVE  RestAt(v, f, k, p - 1)
  <2>1. p - 1 \in Nat /\ p - 1 >= 1 /\ p - 1 + (FrameBytes - k) <= Len(v)
    BY <1>2, <1>3, <1>4, <1>5
  <2>2. ASSUME NEW i \in k + 1 .. FrameBytes PROVE v[p - 1 + (i - k) - 1] = <<f, i>>
    <3>1. PICK x \in 1 .. n - 1 : x = p - 1 + (i - k) - 1 /\ x + 1 = p + (i - k) - 1
      BY <1>3, <1>4, <1>5
    <3>2. q[p + (i - k) - 1] = <<f, i>>
      BY DEF RestAt
    <3> QED
      BY <1>2, <3>1, <3>2
  <2>3. v[p - 1 + (FrameBytes - k)] = Spoke!Delimiter
    <3>1. PICK x \in 1 .. n - 1 : x = p - 1 + (FrameBytes - k) /\ x + 1 = p + (FrameBytes - k)
      BY <1>3, <1>4, <1>5
    <3>2. q[p + (FrameBytes - k)] = Spoke!Delimiter
      BY DEF RestAt
    <3> QED
      BY <1>2, <3>1, <3>2
  <2> QED
    BY <2>1, <2>2, <2>3 DEF RestAt
<1>6. ASSUME p = 1, k < FrameBytes
      PROVE  Head(q) = <<f, k + 1>> /\ RestAt(v, f, k + 1, 1)
  <2>1. k + 1 \in k + 1 .. FrameBytes /\ p + (k + 1 - k) - 1 = 1
    BY <1>3, <1>6
  <2>2. Head(q) = <<f, k + 1>>
    BY <1>2, <2>1 DEF RestAt
  <2>3. 1 + (FrameBytes - (k + 1)) <= Len(v)
    BY <1>2, <1>3, <1>4, <1>6
  <2>4. ASSUME NEW i \in k + 1 + 1 .. FrameBytes PROVE v[1 + (i - (k + 1)) - 1] = <<f, i>>
    <3>1. PICK x \in 1 .. n - 1 : x = 1 + (i - (k + 1)) - 1 /\ x + 1 = p + (i - k) - 1
      BY <1>3, <1>4, <1>6
    <3>2. q[p + (i - k) - 1] = <<f, i>>
      BY <1>3 DEF RestAt
    <3> QED
      BY <1>2, <3>1, <3>2
  <2>5. v[1 + (FrameBytes - (k + 1))] = Spoke!Delimiter
    <3>1. PICK x \in 1 .. n - 1 : x = 1 + (FrameBytes - (k + 1)) /\ x + 1 = p + (FrameBytes - k)
      BY <1>3, <1>4, <1>6
    <3>2. q[p + (FrameBytes - k)] = Spoke!Delimiter
      BY DEF RestAt
    <3> QED
      BY <1>2, <3>1, <3>2
  <2> QED
    BY <2>2, <2>3, <2>4, <2>5 DEF RestAt
<1>7. ASSUME p = 1, k = FrameBytes
      PROVE  Head(q) = Spoke!Delimiter
  <2>1. p + (FrameBytes - k) = 1
    BY <1>3, <1>7
  <2> QED
    BY <1>2, <2>1 DEF RestAt
<1> QED
  BY <1>1, <1>5, <1>6, <1>7

\* A frame stays on its way when more is written behind it.
LEMMA WayGrows ==
  ASSUME Spoke!HubSpokeAssumption, NEW q \in Seq(Byte), NEW w \in Seq(Byte),
         NEW g, NEW old, NEW f, OnItsWay(q, g, old, f)
  PROVE  OnItsWay(q \o w, g, old, f)
<1>1. FrameBytes \in Nat
  BY SpokeConstants
<1>2. ASSUME NEW p \in Nat, RestAt(q, f, 0, p), Clear(q, p, g, old)
      PROVE  Nearing(q \o w, g, old, f)
  <2>4. 0 \in 0 .. FrameBytes
    BY <1>1
  <2>1. RestAt(q \o w, f, 0, p) /\ \A i \in 1 .. p : (q \o w)[i] = q[i]
    BY <1>2, <2>4, RestGrows
  <2>2. p # 1 => p - 1 \in 1 .. p
    BY <1>2 DEF RestAt
  <2>3. Clear(q \o w, p, g, old)
    BY <1>2, <2>1, <2>2 DEF Clear
  <2> QED
    BY <2>1, <2>3 DEF Nearing
<1>3. ASSUME NEW k \in 1 .. FrameBytes, RestAt(q, f, k, 1)
      PROVE  RestAt(q \o w, f, k, 1)
  BY <1>1, <1>3, RestGrows
<1> QED
  BY <1>2, <1>3 DEF OnItsWay, Nearing, Begun

\* A frame that is on its way is not there when nothing is.
LEMMA WayNotEmpty ==
  ASSUME Spoke!HubSpokeAssumption, NEW g, NEW old, NEW f, OnItsWay(<<>>, g, old, f)
  PROVE  FALSE
<1>1. FrameBytes \in Nat /\ Len(<<>>) = 0
  BY SpokeConstants
<1>2. ASSUME NEW k \in 0 .. FrameBytes, NEW p, RestAt(<<>>, f, k, p) PROVE FALSE
  BY <1>1, <1>2 DEF RestAt
<1> QED
  BY <1>1, <1>2 DEF OnItsWay, Nearing, Begun

\* A frame written at a boundary is on its way.
LEMMA WayBegins ==
  ASSUME Spoke!HubSpokeAssumption, NEW q \in Seq(Byte), NEW g, NEW old, NEW f \in Nat,
         \/ q # <<>> /\ q[Len(q)] = Spoke!Delimiter
         \/ q = <<>> /\ (g = <<>> \/ old)
  PROVE  OnItsWay(q \o Append(Spoke!Bytes(f), Spoke!Delimiter), g, old, f)
<1>1. PICK w : w = Append(Spoke!Bytes(f), Spoke!Delimiter)
  OBVIOUS
<1>2. /\ w \in Seq(Byte) /\ Len(w) = FrameBytes + 1
      /\ \A k \in 1 .. FrameBytes : w[k] = <<f, k>>
      /\ w[FrameBytes + 1] = Spoke!Delimiter /\ FrameBytes \in Nat
  BY <1>1, FrameFacts, SpokeConstants
<1>3. PICK n \in Nat, v \in Seq(Byte) : n = Len(q) /\ v = q \o w
  BY <1>2, ConcatFacts
<1>4. /\ Len(v) = n + FrameBytes + 1
      /\ \A i \in 1 .. n : v[i] = q[i]
      /\ \A i \in 1 .. FrameBytes + 1 : v[n + i] = w[i]
  <2>1. Len(v) = n + (FrameBytes + 1)
    <3>1. Len(q \o w) = Len(q) + Len(w)
      BY <1>2, ConcatFacts
    <3> QED
      BY <1>2, <1>3, <3>1
  <2> QED
    BY <1>2, <1>3, <2>1, ConcatFacts
<1>5. RestAt(v, f, 0, n + 1)
  <2>1. n + 1 + (FrameBytes - 0) <= Len(v)
    BY <1>2, <1>4
  <2>2. ASSUME NEW i \in 0 + 1 .. FrameBytes PROVE v[n + 1 + (i - 0) - 1] = <<f, i>>
    <3>1. i \in 1 .. FrameBytes /\ i \in 1 .. FrameBytes + 1 /\ n + 1 + (i - 0) - 1 = n + i
      BY <1>2
    <3> QED
      BY <1>2, <1>4, <3>1
  <2>3. v[n + 1 + (FrameBytes - 0)] = Spoke!Delimiter
    <3>1. n + 1 + (FrameBytes - 0) = n + (FrameBytes + 1) /\ FrameBytes + 1 \in 1 .. FrameBytes + 1
      BY <1>2
    <3> QED
      BY <1>2, <1>4, <3>1
  <2> QED
    BY <2>1, <2>2, <2>3 DEF RestAt
<1>6. Clear(v, n + 1, g, old)
  <2>1. CASE q = <<>>
    BY <1>3, <2>1 DEF Clear
  <2>2. CASE q # <<>>
    <3>1. n # 0 /\ n + 1 # 1 /\ n + 1 - 1 = n /\ n \in 1 .. n
      BY <1>3, <2>2
    <3>2. v[n + 1 - 1] = Spoke!Delimiter
      BY <1>3, <1>4, <2>2, <3>1
    <3> QED
      BY <3>1, <3>2 DEF Clear
  <2> QED
    BY <2>1, <2>2
<1> QED
  BY <1>1, <1>3, <1>5, <1>6 DEF OnItsWay, Nearing

\* Reading takes the first byte of what comes, and arriving leaves it as it is.
LEMMA QueueMoves ==
  ASSUME NEW a \in Seq(Byte), NEW b \in Seq(Byte)
  PROVE  /\ a \o b \in Seq(Byte)
         /\ a # <<>> => /\ a \o b # <<>> /\ Head(a \o b) = Head(a)
                        /\ Tail(a) \o b = Tail(a \o b)
         /\ b # <<>> => Append(a, Head(b)) \o Tail(b) = a \o b
         /\ \A w \in Seq(Byte) : a \o (b \o w) = (a \o b) \o w
         /\ a \o b = <<>> => a = <<>> /\ b = <<>>
<1>1. PICK n \in Nat, m \in Nat, q \in Seq(Byte) : n = Len(a) /\ m = Len(b) /\ q = a \o b
  BY ConcatFacts
<1>2. /\ Len(q) = n + m /\ \A i \in 1 .. n : q[i] = a[i]
      /\ \A i \in 1 .. m : q[n + i] = b[i]
  <2>1. Len(a \o b) = Len(a) + Len(b)
    BY ConcatFacts
  <2> QED
    BY <1>1, <2>1, ConcatFacts
<1>3. ASSUME a # <<>>
      PROVE  q # <<>> /\ Head(q) = Head(a) /\ Tail(a) \o b = Tail(q)
  <2>1. n >= 1 /\ Head(a) = a[1] /\ Tail(a) \in Seq(Byte) /\ Len(Tail(a)) = n - 1
        /\ \A i \in 1 .. n - 1 : Tail(a)[i] = a[i + 1]
    BY <1>1, <1>3, TailFacts
  <2>2. q # <<>>
    BY <1>2, <2>1
  <2>3. Head(q) = q[1] /\ Tail(q) \in Seq(Byte) /\ Len(Tail(q)) = n + m - 1
        /\ \A i \in 1 .. n + m - 1 : Tail(q)[i] = q[i + 1]
    BY <1>1, <1>2, <2>2, TailFacts
  <2>4. PICK u \in Seq(Byte) : u = Tail(a) \o b
    BY <2>1, ConcatFacts
  <2>5. /\ Len(u) = n - 1 + m /\ \A i \in 1 .. n - 1 : u[i] = a[i + 1]
        /\ \A i \in 1 .. m : u[n - 1 + i] = b[i]
    <3>1. Len(Tail(a) \o b) = Len(Tail(a)) + Len(b)
      BY <2>1, ConcatFacts
    <3> QED
      BY <1>1, <2>1, <2>4, <3>1, ConcatFacts
  <2>6. ASSUME NEW i \in 1 .. n + m - 1 PROVE u[i] = Tail(q)[i]
    <3>1. Tail(q)[i] = q[i + 1]
      BY <2>3
    <3>2. CASE i \in 1 .. n - 1
      <4>1. i + 1 \in 1 .. n
        BY <3>2
      <4> QED
        BY <1>2, <2>5, <3>1, <3>2, <4>1
    <3>3. CASE i \notin 1 .. n - 1
      <4>1. PICK j \in 1 .. m : i = n - 1 + j /\ i + 1 = n + j
        <5>1. i - (n - 1) \in 1 .. m
          BY <3>3
        <5> QED
          BY <5>1
      <4> QED
        BY <1>2, <2>5, <3>1, <4>1
    <3> QED
      BY <3>2, <3>3
  <2>7. Len(u) = n + m - 1 /\ Len(Tail(q)) = n + m - 1
    BY <2>3, <2>5
  <2>8. u = Tail(q)
    BY <2>3, <2>6, <2>7
  <2> QED
    BY <1>1, <1>2, <2>1, <2>2, <2>3, <2>4, <2>8
<1>4. ASSUME b # <<>>
      PROVE  Append(a, Head(b)) \o Tail(b) = q
  <2>1. m >= 1 /\ Head(b) = b[1] /\ Head(b) \in Byte /\ Tail(b) \in Seq(Byte)
        /\ Len(Tail(b)) = m - 1 /\ \A i \in 1 .. m - 1 : Tail(b)[i] = b[i + 1]
    BY <1>1, <1>4, TailFacts
  <2>2. PICK v \in Seq(Byte) : v = Append(a, Head(b))
    BY <2>1, AppendFacts
  <2>3. Len(v) = n + 1 /\ v[n + 1] = b[1] /\ \A i \in 1 .. n : v[i] = a[i]
    BY <1>1, <2>1, <2>2, AppendFacts
  <2>4. PICK u \in Seq(Byte) : u = v \o Tail(b)
    BY <2>1, ConcatFacts
  <2>5. /\ Len(u) = n + m /\ \A i \in 1 .. n + 1 : u[i] = v[i]
        /\ \A i \in 1 .. m - 1 : u[n + 1 + i] = b[i + 1]
    <3>1. PICK x \in Seq(Byte) : x = Tail(b)
      BY <2>1
    <3>2. /\ Len(v \o x) = Len(v) + Len(x)
          /\ \A i \in 1 .. Len(v) : (v \o x)[i] = v[i]
          /\ \A i \in 1 .. Len(x) : (v \o x)[Len(v) + i] = x[i]
      BY ConcatFacts
    <3>3. u = v \o x /\ Len(v) = n + 1 /\ Len(x) = m - 1
      BY <2>1, <2>3, <2>4, <3>1
    <3>8. Len(u) = Len(v) + Len(x)
      BY <3>2, <3>3
    <3>4. Len(u) = n + m
      <4>1. n + 1 + (m - 1) = n + m
        OBVIOUS
      <4> QED
        BY <3>3, <3>8, <4>1
    <3>5. \A i \in 1 .. m - 1 : x[i] = b[i + 1]
      BY <2>1, <3>1
    <3>6. \A i \in 1 .. n + 1 : u[i] = v[i]
      BY <3>2, <3>3
    <3>7. \A i \in 1 .. m - 1 : u[n + 1 + i] = x[i]
      BY <3>2, <3>3
    <3> QED
      BY <3>4, <3>5, <3>6, <3>7
  <2>6. ASSUME NEW i \in 1 .. n + m PROVE u[i] = q[i]
    <3>1. CASE i \in 1 .. n
      <4>1. i \in 1 .. n + 1
        BY <3>1
      <4> QED
        BY <1>2, <2>3, <2>5, <3>1, <4>1
    <3>2. CASE i = n + 1
      <4>1. i \in 1 .. n + 1 /\ 1 \in 1 .. m
        BY <2>1, <3>2
      <4> QED
        BY <1>2, <2>3, <2>5, <3>2, <4>1
    <3>3. CASE i \notin 1 .. n /\ i # n + 1
      <4>1. PICK j \in 1 .. m - 1 : i = n + 1 + j
        <5>1. i - (n + 1) \in 1 .. m - 1
          BY <3>3
        <5> QED
          BY <5>1
      <4>2. j + 1 \in 1 .. m /\ i = n + (j + 1)
        BY <4>1
      <4>3. q[i] = b[j + 1]
        BY <1>2, <4>2
      <4>4. u[i] = b[j + 1]
        BY <2>5, <4>1
      <4> QED
        BY <4>3, <4>4
    <3> QED
      BY <3>1, <3>2, <3>3
  <2>7. u = q
    BY <1>2, <2>5, <2>6
  <2> QED
    BY <2>2, <2>4, <2>7
<1>5. ASSUME NEW w \in Seq(Byte) PROVE a \o (b \o w) = (a \o b) \o w
  OBVIOUS
<1>6. q = <<>> => a = <<>> /\ b = <<>>
  BY <1>1, <1>2
<1> QED
  BY <1>1, <1>3, <1>4, <1>5, <1>6

\* Reading brings a frame that is on its way further: it gathers, and once it
\* has gathered whole its delimiter hands it on.
LEMMA WayReads ==
  ASSUME Spoke!HubSpokeAssumption, SpokeTypeOK, Spoke!ReadByte, NEW f \in Nat, f # 0,
         OnItsWay(Incoming, rx, age >= Idle, f)
  PROVE  OnItsWay(Tail(Incoming), rx', age' >= Idle, f) \/ Spoke!IsRouted(f)'
<1>1. PICK q \in Seq(Byte) : q = Incoming /\ q # <<>> /\ Head(q) = Head(fifo)
  BY ReadFacts, QueueMoves DEF Incoming, SpokeTypeOK
<1>2. /\ FrameBytes \in Nat /\ FrameBytes >= 1 /\ Idle \in Nat /\ Idle >= 1
      /\ Cap \in Nat /\ Cap > FrameBytes + 1
  BY SpokeConstants
<1>3. age' = 0 /\ ~(age' >= Idle) /\ out' \in Seq(Handed)
  BY <1>2, ReadFacts
<1>4. rx # <<>> => ~(age >= Idle)
  BY <1>2 DEF Spoke!ReadByte, SpokeTypeOK
<1>5. Tail(q) \in Seq(Byte) /\ rx \in Seq(Byte) /\ out \in Seq(Handed)
  BY <1>1, TailFacts DEF SpokeTypeOK
\* A byte of the frame is gathered.
<1>6. ASSUME NEW k \in 0 .. FrameBytes, k < FrameBytes, rx = FirstBytes(f, k), RestAt(q, f, k, 1)
      PROVE  OnItsWay(Tail(q), rx', age' >= Idle, f)
  <2>1. Head(fifo) = <<f, k + 1>> /\ RestAt(Tail(q), f, k + 1, 1)
    BY <1>1, <1>6, RestShrinks
  <2>2. Head(fifo) # Spoke!Delimiter
    BY <2>1 DEF Spoke!Delimiter
  <2>3. Len(rx) = k
    BY <1>6 DEF FirstBytes
  <2>4. Spoke!Gather
    BY <1>2, <1>6, <2>2, <2>3 DEF Spoke!ReadByte, Spoke!EndFrame, Spoke!Overflow
  <2>5. rx' = Append(FirstBytes(f, k), <<f, k + 1>>)
    BY <1>6, <2>1, <2>4 DEF Spoke!Gather
  <2>6. Append(FirstBytes(f, k), <<f, k + 1>>) = FirstBytes(f, k + 1)
    BY <1>6 DEF FirstBytes
  <2>7. k + 1 \in 1 .. FrameBytes
    BY <1>2, <1>6
  <2> QED
    BY <1>3, <2>1, <2>5, <2>6, <2>7 DEF OnItsWay, Begun
\* Its delimiter hands it on.
<1>7. ASSUME rx = FirstBytes(f, FrameBytes), RestAt(q, f, FrameBytes, 1)
      PROVE  Spoke!IsRouted(f)'
  <2>8. FrameBytes \in 0 .. FrameBytes
    BY <1>2
  <2>1. Head(fifo) = Spoke!Delimiter
    BY <1>1, <1>7, <2>8, RestShrinks
  <2>9. rx = Spoke!Bytes(f)
    BY <1>7 DEF FirstBytes, Spoke!Bytes
  <2>10. 1 \in DOMAIN rx /\ rx[1] = <<f, 1>>
    BY <1>2, <2>9 DEF Spoke!Bytes
  <2>2. rx = Spoke!Bytes(f) /\ rx # <<>> /\ Head(rx) = <<f, 1>>
    <3>1. rx # <<>>
      BY <2>10
    <3> QED
      BY <1>5, <2>9, <2>10, <3>1, TailFacts
  <2>3. Spoke!IsFrame(rx)
    BY <2>2 DEF Spoke!IsFrame
  <2>4. Spoke!EndFrame
    BY <2>1 DEF Spoke!ReadByte, Spoke!Gather, Spoke!Overflow
  <2>5. out' = Append(out, Spoke!Routed(Spoke!Bytes(f)))
    BY <2>2, <2>3, <2>4 DEF Spoke!EndFrame
  <2>6. Spoke!Routed(Spoke!Bytes(f)) \in Handed
    BY <1>5, <2>2 DEF Spoke!Routed, Handed
  <2>7. Len(out) + 1 \in DOMAIN out' /\ out'[Len(out) + 1] = Spoke!Routed(Spoke!Bytes(f))
    BY <1>5, <2>5, <2>6, AppendFacts
  <2> QED
    BY <2>7 DEF Spoke!IsRouted
<1>8. CASE Begun(q, rx, age >= Idle, f)
  <2>1. PICK k \in 1 .. FrameBytes : rx = FirstBytes(f, k) /\ RestAt(q, f, k, 1)
    BY <1>8 DEF Begun
  <2>2. k < FrameBytes \/ k = FrameBytes
    BY <1>2
  <2> QED
    BY <1>1, <1>2, <1>6, <1>7, <2>1, <2>2
<1>9. CASE Nearing(q, rx, age >= Idle, f)
  <2>1. PICK p \in Nat : RestAt(q, f, 0, p) /\ Clear(q, p, rx, age >= Idle)
    BY <1>9 DEF Nearing
  <2>2. 0 \in 0 .. FrameBytes /\ 0 < FrameBytes /\ p >= 1
    BY <1>2, <2>1 DEF RestAt
  <2>3. CASE p = 1
    <3>1. rx = <<>>
      BY <1>4, <2>1, <2>3 DEF Clear
    <3>2. FirstBytes(f, 0) = <<>>
      BY DEF FirstBytes
    <3> QED
      BY <1>1, <1>6, <2>1, <2>2, <2>3, <3>1, <3>2
  <2>4. CASE p # 1
    <3>5. p > 1 /\ p - 1 \in Nat
      BY <2>2, <2>4
    <3>1. RestAt(Tail(q), f, 0, p - 1) /\ p - 1 \in Nat
      BY <1>1, <2>1, <2>2, <3>5, RestShrinks
    <3>2. q[p - 1] = Spoke!Delimiter
      BY <2>1, <2>4 DEF Clear
    <3>3. CASE p - 1 = 1
      <4>1. Head(fifo) = Spoke!Delimiter
        BY <1>1, <3>2, <3>3, TailFacts
      <4>2. Spoke!EndFrame
        BY <4>1 DEF Spoke!ReadByte, Spoke!Gather, Spoke!Overflow
      <4>3. rx' = <<>>
        BY <4>2 DEF Spoke!EndFrame
      <4>4. Clear(Tail(q), p - 1, rx', age' >= Idle)
        BY <3>3, <4>3 DEF Clear
      <4> QED
        BY <1>1, <3>1, <4>4 DEF OnItsWay, Nearing
    <3>4. CASE p - 1 # 1
      <4>1. PICK n \in Nat : n = Len(q) /\ p <= n
        BY <1>2, <2>1 DEF RestAt
      <4>2. p - 1 - 1 \in 1 .. n - 1 /\ (p - 1 - 1) + 1 = p - 1
        BY <2>2, <2>4, <3>4, <4>1
      <4>3. Tail(q)[p - 1 - 1] = q[p - 1]
        BY <1>1, <4>1, <4>2, TailFacts
      <4>4. Clear(Tail(q), p - 1, rx', age' >= Idle)
        BY <3>2, <3>4, <4>3 DEF Clear
      <4> QED
        BY <1>1, <3>1, <4>4 DEF OnItsWay, Nearing
    <3> QED
      BY <3>3, <3>4
  <2> QED
    BY <2>3, <2>4
<1> QED
  BY <1>1, <1>8, <1>9 DEF OnItsWay

\* What was routed stays routed.
LEMMA RoutedStays ==
  ASSUME out \in Seq(Handed), NEW f, Spoke!IsRouted(f),
         out' = out \/ \E o \in Handed : out' = Append(out, o)
  PROVE  Spoke!IsRouted(f)'
<1>1. PICK i \in DOMAIN out : out[i] = Spoke!Routed(Spoke!Bytes(f))
  BY DEF Spoke!IsRouted
<1>2. i \in DOMAIN out' /\ out'[i] = out[i]
  <2>1. CASE out' = out
    BY <2>1
  <2>2. ASSUME NEW o \in Handed, out' = Append(out, o)
        PROVE  i \in DOMAIN out' /\ out'[i] = out[i]
    BY <2>2, AppendFacts
  <2> QED
    BY <2>1, <2>2
<1> QED
  BY <1>1, <1>2 DEF Spoke!IsRouted

\* Every step keeps the due frames.
LEMMA DueNext ==
  ASSUME Spoke!HubSpokeAssumption, SpokeTypeOK, DueKept, [Spoke!Next]_(Spoke!spokeVars)
  PROVE  DueKept'
<1>1. spokeLine \in Seq(Byte) /\ fifo \in Seq(Byte) /\ out \in Seq(Handed) /\ Incoming \in Seq(Byte)
  BY QueueMoves DEF SpokeTypeOK, Incoming
<1>2. \A f \in due : f \in Nat /\ f # 0
  BY DEF SpokeTypeOK
<1>3. CASE Spoke!FlushIdle
  <2>1. /\ rx' = <<>> /\ age >= Idle /\ UNCHANGED <<fifo, spokeLine, age, stalled, due>>
        /\ out' = Append(out, Spoke!Usb(rx)) /\ Spoke!Usb(rx) \in Handed
    BY <1>3 DEF Spoke!FlushIdle, SpokeTypeOK, Spoke!Usb, Handed
  <2>2. ASSUME NEW f \in due, OnItsWay(Incoming, rx, age >= Idle, f)
        PROVE  OnItsWay(Incoming, <<>>, age >= Idle, f)
    BY <2>1, <2>2 DEF OnItsWay, Begun, Nearing, Clear
  <2>3. Incoming' = Incoming
    BY <2>1 DEF Incoming
  <2>4. \A f \in due : Spoke!IsRouted(f) => Spoke!IsRouted(f)'
    BY <1>1, <2>1, RoutedStays
  <2> QED
    BY <2>1, <2>2, <2>3, <2>4 DEF DueKept
<1>4. CASE Spoke!ReadByte
  <2>1. /\ fifo # <<>> /\ fifo' = Tail(fifo) /\ UNCHANGED <<spokeLine, stalled, due>>
        /\ out' = out \/ \E o \in Handed : out' = Append(out, o)
    BY <1>4, ReadFacts
  <2>2. Incoming' = Tail(Incoming)
    BY <1>1, <2>1, QueueMoves DEF Incoming
  <2>3. ASSUME NEW f \in due, Spoke!IsRouted(f) PROVE Spoke!IsRouted(f)'
    BY <1>1, <2>1, <2>3, RoutedStays
  <2>4. ASSUME NEW f \in due, OnItsWay(Incoming, rx, age >= Idle, f)
        PROVE  OnItsWay(Incoming, rx, age >= Idle, f)' \/ Spoke!IsRouted(f)'
    BY <1>2, <1>4, <2>2, <2>4, WayReads
  <2> QED
    BY <2>1, <2>3, <2>4 DEF DueKept
<1>5. CASE Spoke!Stall
  BY <1>5 DEF Spoke!Stall, DueKept, Spoke!IsRouted
<1>6. CASE Spoke!Resume
  BY <1>6 DEF Spoke!Resume, DueKept, Spoke!IsRouted
<1>7. CASE Spoke!WriteFrame
  <2>1. PICK n \in Nat : n = wrote.frames + 1
    BY DEF SpokeTypeOK
  <2>2. PICK w \in Seq(Byte) : w = Append(Spoke!Bytes(n), Spoke!Delimiter)
    BY FrameFacts
  <2>3. /\ spokeLine' = spokeLine \o w /\ UNCHANGED <<fifo, rx, age, stalled, out>>
        /\ due' = due \/ (Spoke!Boundary /\ ~stalled /\ due' = due \cup {n})
    BY <1>7, <2>1, <2>2, WriteFacts
  <2>4. Incoming' = Incoming \o w
    BY <1>1, <2>3, QueueMoves DEF Incoming
  <2>5. ASSUME NEW f \in due, OnItsWay(Incoming, rx, age >= Idle, f)
        PROVE  OnItsWay(Incoming \o w, rx, age >= Idle, f)
    BY <1>1, <2>5, WayGrows
  <2>6. ASSUME Spoke!Boundary PROVE OnItsWay(Incoming \o w, rx, age >= Idle, n)
    BY <1>1, <2>2, <2>6, WayBegins DEF Spoke!Boundary, Incoming
  <2>7. ASSUME NEW f \in due' PROVE Spoke!IsRouted(f)' \/ (~stalled' /\ OnItsWay(Incoming, rx, age >= Idle, f)')
    <3>1. CASE f \in due
      BY <2>3, <2>4, <2>5, <3>1 DEF DueKept, Spoke!IsRouted
    <3>2. CASE f \notin due
      BY <2>3, <2>4, <2>6, <2>7, <3>2
    <3> QED
      BY <3>1, <3>2
  <2> QED
    BY <2>7 DEF DueKept
<1>8. CASE Spoke!WriteText
  <2>1. spokeLine' = Append(spokeLine, Spoke!Text) /\ UNCHANGED <<fifo, rx, age, stalled, out, due>>
    BY <1>8 DEF Spoke!WriteText
  <2>2. <<Spoke!Text>> \in Seq(Byte) /\ Append(spokeLine, Spoke!Text) = spokeLine \o <<Spoke!Text>>
    <3>1. Spoke!Text \in Byte
      BY DEF Spoke!Text, Byte
    <3> QED
      BY <1>1, <3>1
  <2>3. Incoming' = Incoming \o <<Spoke!Text>>
    BY <1>1, <2>1, <2>2, QueueMoves DEF Incoming
  <2>4. ASSUME NEW f \in due, OnItsWay(Incoming, rx, age >= Idle, f)
        PROVE  OnItsWay(Incoming \o <<Spoke!Text>>, rx, age >= Idle, f)
    BY <1>1, <2>2, <2>4, WayGrows
  <2> QED
    BY <2>1, <2>3, <2>4 DEF DueKept, Spoke!IsRouted
<1>9. CASE Spoke!Arrive
  <2>1. /\ spokeLine # <<>> /\ spokeLine' = Tail(spokeLine) /\ UNCHANGED <<rx, age, stalled, out, due>>
        /\ fifo' = Append(fifo, Head(spokeLine)) \/ stalled
    BY <1>9, ArriveFacts
  <2>2. ~stalled => Incoming' = Incoming
    <3>1. Append(fifo, Head(spokeLine)) \o Tail(spokeLine) = fifo \o spokeLine
      BY <1>1, <2>1, QueueMoves
    <3>2. Incoming' = fifo' \o spokeLine'
      BY DEF Incoming
    <3> QED
      BY <2>1, <3>1, <3>2 DEF Incoming
  <2> QED
    BY <2>1, <2>2 DEF DueKept, Spoke!IsRouted
<1>10. CASE Spoke!Tick
  <2>1. spokeLine = <<>> /\ (fifo = <<>> \/ stalled) /\ UNCHANGED <<fifo, rx, spokeLine, stalled, out, due>>
    BY <1>10 DEF Spoke!Tick
  <2>2. ~stalled => Incoming = <<>>
    <3>1. <<>> \o <<>> = <<>>
      OBVIOUS
    <3> QED
      BY <2>1, <3>1 DEF Incoming
  <2>3. \A f \in due : Spoke!IsRouted(f)
    BY <2>2, WayNotEmpty DEF DueKept
  <2> QED
    BY <2>1, <2>3 DEF DueKept, Spoke!IsRouted
<1>11. CASE UNCHANGED Spoke!spokeVars
  BY <1>11 DEF Spoke!spokeVars, DueKept, Spoke!IsRouted, Incoming
<1> QED
  BY <1>3, <1>4, <1>5, <1>6, <1>7, <1>8, <1>9, <1>10, <1>11 DEF Spoke!Next

SpokeInv == SpokeTypeOK /\ Spoke!BytesAccounted /\ OrderKept /\ DueKept

\* For every length of frame and buffer, every idle time and every bound: no byte
\* is lost or doubled between the port and what is handed on, frames are routed
\* in the order they were written, and each that began at a boundary while the
\* loop goes round is routed.
THEOREM SpokeCorrect ==
  ASSUME Spoke!HubSpokeAssumption PROVE Spoke!SpokeSpec => []SpokeRight
<1>1. Spoke!Init => SpokeInv
  <2>1. Spoke!Init => DueKept
    BY DEF Spoke!Init, DueKept
  <2> QED
    BY <2>1, SpokeTypeInit, AccountedInit, OrderInit DEF SpokeInv
<1>2. SpokeInv /\ [Spoke!Next]_(Spoke!spokeVars) => SpokeInv'
  BY SpokeTypeNext, AccountedNext, OrderNext, DueNext DEF SpokeInv
<1>3. SpokeInv => SpokeRight
  <2> SUFFICES ASSUME SpokeInv PROVE Spoke!FramesRouted
    BY DEF SpokeInv, SpokeRight
  <2>1. \A i, j \in DOMAIN out : i < j /\ out[i].to = "frame" /\ out[j].to = "frame"
          => out[i].bytes[1][1] < out[j].bytes[1][1]
    BY DEF SpokeInv, OrderKept, InTurn, Number
  <2>2. ASSUME spokeLine = <<>>, fifo = <<>>, NEW f \in due PROVE Spoke!IsRouted(f)
    <3>1. Incoming = <<>>
      <4>1. <<>> \o <<>> = <<>>
        OBVIOUS
      <4> QED
        BY <2>2, <4>1 DEF Incoming
    <3> QED
      BY <3>1, WayNotEmpty DEF SpokeInv, DueKept
  <2> QED
    BY <2>1, <2>2 DEF Spoke!FramesRouted
<1> QED
  BY <1>1, <1>2, <1>3, PTL DEF Spoke!SpokeSpec

=============================================================================
