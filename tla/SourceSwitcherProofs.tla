------------------------ MODULE SourceSwitcherProofs ------------------------
(***************************************************************************)
(* What holds of SourceSwitcher for every set of senders, both stream      *)
(* policies and both switch modes.  The inductive invariant is Inv below.  *)
(* A reconcile pass breaks parts of it on the way (a slot still shows a    *)
(* sender that was just stopped), so the lemmas follow the threaded state  *)
(* through the pass with the weaker PassOK and PassVisible.                *)
(***************************************************************************)
EXTENDS BenchServer, TLAPS

\* Cold policy: whoever was last told START is counted as streaming.  With
\* LastCommandAgrees this makes the set and the commands the same thing.
StartedAreCounted ==
  ~Warm => \A a \in Senders : lastCmd[a] = "START" => a \in streaming

\* A slot shows what is desired or nothing.
ActiveFollows == \A s \in Slots : active[s] \in {sources[s], Empty}

Inv == TypeOK /\ LastCommandAgrees /\ VisibleIsStreaming /\ ActiveFollows
       /\ ColdStreamsOnlyVisible /\ StartedAreCounted /\ WarmNeverStops
       /\ CommandsReachKnown

\* What every point of a reconcile pass satisfies.
PassOK(sw, reg, kn) ==
  /\ sw \in Threaded
  /\ sw.streaming \subseteq reg /\ sw.stopped \subseteq reg
  /\ sw.streaming \cap sw.stopped = {}
  /\ \A a \in sw.streaming : sw.last[a] = "START"
  /\ \A a \in sw.stopped : sw.last[a] = "STOP"
  /\ Warm => \A a \in Senders : sw.last[a] # "STOP"
  /\ \A s \in Slots : sw.active[s] \in Senders => sw.active[s] \in reg \cap kn
  /\ \A a \in Senders : sw.sent[a] # <<>> => a \in kn

\* The online senders the given slots show are counted as streaming.
PassVisible(sw, slots, on) ==
  \A s \in slots : sw.active[s] \in on => sw.active[s] \in sw.streaming

\* The same of every slot but the one a turn of the loop is dealing with.
OthersVisible(sw, slot, on) ==
  \A s \in Slots : s # slot /\ sw.active[s] \in on
                    => sw.active[s] \in sw.streaming

\* What a turn of the loop does to the slots.
TurnDone(new, sw, slot, desired, reg, on) ==
  /\ new.active[slot] = NextActiveForSlot(desired, reg, on)
  /\ new.active[slot] \in Senders => new.active[slot] \in on
  /\ \A s \in Slots : s # slot => new.active[s] = sw.active[s]

\* A sender that was not told to stop is not told so by a turn for a slot it has
\* not, has not alone, or keeps.
NotToldStop(sw, a) == \A i \in 1 .. Len(sw.sent[a]) : sw.sent[a][i] # "STOP"
Spared(sw, slot, a) ==
  Warm \/ sw.active[slot] # a \/ \E s \in Slots \ {slot} : sw.active[s] = a
TurnSpares(new, sw, slot) ==
  \A a \in Senders :
    (Spared(sw, slot, a) \/ new.active[slot] = a) /\ NotToldStop(sw, a)
      => NotToldStop(new, a)

\* What a pass that began at "from" has told each sender so far: a sender told
\* nothing is accounted for as it was, unless it is offline, and a sender that
\* was accounted for was first told the opposite.  A slot only shows a sender
\* that was counted when the pass began or has been told something since.
ToldOK(sw, from, on) ==
  /\ from.streaming \cap from.stopped = {}
  /\ \A a \in Senders :
       /\ sw.sent[a] = <<>> =>
            /\ sw.last[a] = from.last[a]
            /\ a \in sw.streaming => a \in from.streaming
            /\ a \in on /\ a \in from.streaming => a \in sw.streaming
            /\ a \in on /\ a \in from.stopped => a \in sw.stopped
       /\ sw.sent[a] # <<>> =>
            /\ a \in from.streaming => Head(sw.sent[a]) = "STOP"
            /\ a \in from.stopped => Head(sw.sent[a]) = "START"
            /\ sw.last[a] = sw.sent[a][Len(sw.sent[a])]
  /\ \A s \in Slots : sw.active[s] \in Senders /\ sw.sent[sw.active[s]] = <<>>
                        => sw.active[s] \in from.streaming

\* The streams the policy lets a pass count: all online ones (warm), or no
\* more than the slots show, and then every sender last told START (cold).
Counted(sw, reg, on) ==
  /\ Warm => sw.streaming = reg \cap on
  /\ ~Warm => /\ sw.streaming \subseteq {sw.active[s] : s \in Slots}
              /\ \A a \in Senders : sw.last[a] = "START" => a \in sw.streaming

\* What telling a sender START or STOP does to the threaded state.
AfterStart(new, sw, a) ==
  /\ new \in Threaded /\ new.active = sw.active
  /\ new.streaming = sw.streaming \cup {a}
  /\ new.stopped = sw.stopped \ {a}
  /\ new.last = [sw.last EXCEPT ![a] = "START"]
  /\ new.sent = [sw.sent EXCEPT ![a] = Append(sw.sent[a], "START")]
AfterStop(new, sw, a) ==
  /\ new \in Threaded /\ new.active = sw.active
  /\ new.streaming = sw.streaming \ {a}
  /\ new.stopped = sw.stopped \cup {a}
  /\ new.last = [sw.last EXCEPT ![a] = "STOP"]
  /\ new.sent = [sw.sent EXCEPT ![a] = Append(sw.sent[a], "STOP")]

\* What a policy pass does to it.
AfterSync(new, sw, start, stop, gone) ==
  /\ new.active = sw.active
  /\ new.streaming = ((sw.streaming \cup start) \ stop) \ gone
  /\ new.stopped = ((sw.stopped \cup stop) \ start) \ gone
  /\ \A a \in Senders :
       /\ a \in start => /\ new.sent[a] = Append(sw.sent[a], "START")
                   /\ new.last[a] = "START"
       /\ a \in stop => /\ new.sent[a] = Append(sw.sent[a], "STOP")
                  /\ new.last[a] = "STOP"
       /\ a \notin start \cup stop => /\ new.sent[a] = sw.sent[a]
                               /\ new.last[a] = sw.last[a]

\* All of it at once: what a turn of the loop keeps.
Pass(sw, from, reg, kn, on) ==
  /\ PassOK(sw, reg, kn) /\ PassVisible(sw, Slots, on)
  /\ ToldOK(sw, from, on) /\ Counted(sw, reg, on)

\* The arguments of a pass, of one turn of its loop and of a policy.
PassArgs(reg, kn, on) ==
  reg \in SUBSET Senders /\ kn \in SUBSET Senders /\ on \in SUBSET kn
TurnArgs(slot, desired, reg) ==
  /\ slot \in Slots /\ desired \in Sources
  /\ desired \in Senders => desired \in reg
PolicyArgs(reg, kn, start, stop, gone) ==
  /\ reg \in SUBSET Senders /\ kn \in SUBSET Senders
  /\ start \in SUBSET (reg \cap kn) /\ stop \in SUBSET (reg \cap kn)
  /\ gone \in SUBSET reg /\ start \cap stop = {} /\ (Warm => stop = {})

-----------------------------------------------------------------------------

\* Sending a command keeps the types and records it as the last one.
LEMMA SendType ==
  ASSUME NEW sw \in Threaded, NEW a \in Senders, NEW cmd \in Commands
  PROVE  /\ Send(sw, a, cmd) \in Threaded
         /\ Send(sw, a, cmd).active = sw.active
         /\ Send(sw, a, cmd).streaming = sw.streaming
         /\ Send(sw, a, cmd).stopped = sw.stopped
         /\ Send(sw, a, cmd).last = [sw.last EXCEPT ![a] = cmd]
         /\ Send(sw, a, cmd).sent = [sw.sent EXCEPT ![a] = Append(sw.sent[a], cmd)]
<1>1. sw.sent[a] \in Seq(Commands)
  BY DEF Threaded
<1>2. Append(sw.sent[a], cmd) \in Seq(Commands)
  BY <1>1
<1>3. [sw.sent EXCEPT ![a] = Append(sw.sent[a], cmd)] \in [Senders -> Seq(Commands)]
  BY <1>2 DEF Threaded
<1>4. [sw.last EXCEPT ![a] = cmd] \in [Senders -> Commands \cup {"none"}]
  BY DEF Threaded
<1>5. QED BY <1>3, <1>4 DEF Send, Threaded

\* Asking a known registered sender to stream keeps PassOK and counts it.
LEMMA EnsureOK ==
  ASSUME NEW sw, NEW reg \in SUBSET Senders, NEW kn \in SUBSET Senders,
         NEW a \in reg \cap kn, PassOK(sw, reg, kn),
         NEW new, new = EnsureSenderStreaming(sw, a)
  PROVE  /\ PassOK(new, reg, kn)
         /\ new.active = sw.active
         /\ a \in new.streaming
         /\ \A b \in sw.streaming : b \in new.streaming
         /\ a \in sw.streaming => new = sw
         /\ a \notin sw.streaming => AfterStart(new, sw, a)
<1> DEFINE told == Send(sw, a, "START")
<1>1. CASE a \in sw.streaming
  BY <1>1 DEF EnsureSenderStreaming
<1>2. CASE a \notin sw.streaming
  <2>1. sw \in Threaded /\ a \in Senders
    BY DEF PassOK
  <2>2. /\ told \in Threaded /\ told.active = sw.active
        /\ told.streaming = sw.streaming /\ told.stopped = sw.stopped
        /\ told.last = [sw.last EXCEPT ![a] = "START"]
        /\ told.sent = [sw.sent EXCEPT ![a] = Append(sw.sent[a], "START")]
    BY <2>1, SendType DEF Commands
  <2>3. new = [told EXCEPT !.streaming = sw.streaming \cup {a},
                           !.stopped = sw.stopped \ {a}]
    BY <1>2, <2>2 DEF EnsureSenderStreaming, Threaded
  <2> HIDE DEF told
  <2>4. AfterStart(new, sw, a)
    <3>1. /\ sw.streaming \in SUBSET Senders /\ sw.stopped \in SUBSET Senders
      BY <2>1 DEF Threaded
    <3>2. /\ sw.streaming \cup {a} \in SUBSET Senders
          /\ sw.stopped \ {a} \in SUBSET Senders
      BY <2>1, <3>1
    <3>3. new \in Threaded
      BY <2>2, <2>3, <3>2 DEF Threaded
    <3>4. QED BY <2>2, <2>3, <3>3 DEF Threaded, AfterStart
  <2>5. PassOK(new, reg, kn)
    BY <2>1, <2>4 DEF PassOK, Threaded, AfterStart
  <2>6. QED BY <1>2, <2>4, <2>5 DEF AfterStart
<1>3. QED BY <1>1, <1>2

\* Stopping the sender of a slot keeps PassOK, and every sender another slot
\* shows stays counted.
LEMMA StopOK ==
  ASSUME NEW sw, NEW reg \in SUBSET Senders, NEW kn \in SUBSET Senders,
         NEW on, NEW slot \in Slots, NEW a \in reg \cap kn,
         PassOK(sw, reg, kn), PassVisible(sw, Slots, on), ~Warm,
         NEW new, new = StopSenderIfUnused(sw, a, slot)
  PROVE  /\ PassOK(new, reg, kn)
         /\ new.active = sw.active
         /\ OthersVisible(new, slot, on)
         /\ \/ new = sw /\ \E s \in Slots \ {slot} : sw.active[s] = a
            \/ AfterStop(new, sw, a)
<1> DEFINE told == Send(sw, a, "STOP")
           shared == \E other \in Slots \ {slot} : sw.active[other] = a
<1>1. CASE shared
  BY <1>1 DEF StopSenderIfUnused, PassVisible, OthersVisible
<1>2. CASE ~shared
  <2>1. sw \in Threaded /\ a \in Senders
    BY DEF PassOK
  <2>2. /\ told \in Threaded /\ told.active = sw.active
        /\ told.streaming = sw.streaming /\ told.stopped = sw.stopped
        /\ told.last = [sw.last EXCEPT ![a] = "STOP"]
        /\ told.sent = [sw.sent EXCEPT ![a] = Append(sw.sent[a], "STOP")]
    BY <2>1, SendType DEF Commands
  <2>3. new = [told EXCEPT !.streaming = sw.streaming \ {a},
                           !.stopped = sw.stopped \cup {a}]
    BY <1>2, <2>2 DEF StopSenderIfUnused, Threaded
  <2> HIDE DEF told
  <2>4. AfterStop(new, sw, a)
    <3>1. /\ sw.streaming \in SUBSET Senders /\ sw.stopped \in SUBSET Senders
      BY <2>1 DEF Threaded
    <3>2. /\ sw.streaming \ {a} \in SUBSET Senders
          /\ sw.stopped \cup {a} \in SUBSET Senders
      BY <2>1, <3>1
    <3>3. new \in Threaded
      BY <2>2, <2>3, <3>2 DEF Threaded
    <3>4. QED BY <2>2, <2>3, <3>3 DEF Threaded, AfterStop
  <2>5. PassOK(new, reg, kn)
    BY <2>1, <2>4 DEF PassOK, Threaded, AfterStop
  <2>6. OthersVisible(new, slot, on)
    BY <1>2, <2>4 DEF PassVisible, OthersVisible, AfterStop
  <2>7. QED BY <2>4, <2>5, <2>6 DEF AfterStop
<1>3. QED BY <1>1, <1>2

\* A queue of commands that grows keeps its head and ends in the new one.
LEMMA AppendFacts ==
  ASSUME NEW s \in Seq(Commands), NEW cmd \in Commands
  PROVE  /\ Append(s, cmd) # <<>>
         /\ s = <<>> => Head(Append(s, cmd)) = cmd
         /\ s # <<>> => Head(Append(s, cmd)) = Head(s)
         /\ Append(s, cmd)[Len(Append(s, cmd))] = cmd
  OBVIOUS

LEMMA AppendSpares ==
  ASSUME NEW s \in Seq(Commands), \A i \in 1 .. Len(s) : s[i] # "STOP"
  PROVE  \A i \in 1 .. Len(Append(s, "START")) : Append(s, "START")[i] # "STOP"
  OBVIOUS

\* One more command to a sender keeps ToldOK, if it is the first one only when
\* it is the opposite of what the sender was accounted for.
LEMMA TellOK ==
  ASSUME NEW sw \in Threaded, NEW new \in Threaded, NEW from, NEW on,
         NEW a \in Senders, NEW cmd \in Commands, ToldOK(sw, from, on),
         new.active = sw.active,
         new.sent = [sw.sent EXCEPT ![a] = Append(sw.sent[a], cmd)],
         new.last = [sw.last EXCEPT ![a] = cmd],
         \A b \in Senders \ {a} : /\ b \in new.streaming <=> b \in sw.streaming
                                  /\ b \in new.stopped <=> b \in sw.stopped,
         sw.sent[a] = <<>> => /\ a \in from.streaming => cmd = "STOP"
                              /\ a \in from.stopped => cmd = "START"
  PROVE  ToldOK(new, from, on)
<1>1. sw.sent[a] \in Seq(Commands)
  BY DEF Threaded
<1>2. new.sent[a] = Append(sw.sent[a], cmd) /\ new.last[a] = cmd
  BY DEF Threaded
<1>3. /\ new.sent[a] # <<>>
      /\ sw.sent[a] = <<>> => Head(new.sent[a]) = cmd
      /\ sw.sent[a] # <<>> => Head(new.sent[a]) = Head(sw.sent[a])
      /\ new.sent[a][Len(new.sent[a])] = cmd
  BY <1>1, <1>2, AppendFacts
<1>4. \A b \in Senders \ {a} : new.sent[b] = sw.sent[b] /\ new.last[b] = sw.last[b]
  BY DEF Threaded
<1>5. /\ a \in from.streaming => Head(new.sent[a]) = "STOP"
      /\ a \in from.stopped => Head(new.sent[a]) = "START"
  BY <1>3 DEF ToldOK
<1>6. \A b \in Senders : new.sent[b] = <<>> => b # a /\ sw.sent[b] = <<>>
  BY <1>3, <1>4
<1>7. QED BY <1>2, <1>3, <1>4, <1>5, <1>6 DEF ToldOK

\* Telling an online sender that is not counted to start.
LEMMA StartTold ==
  ASSUME NEW sw \in Threaded, NEW new, NEW from, NEW on, NEW a \in Senders \cap on,
         ToldOK(sw, from, on), a \notin sw.streaming, AfterStart(new, sw, a)
  PROVE  ToldOK(new, from, on)
<1>1. sw.sent[a] = <<>> => a \notin from.streaming
  BY DEF ToldOK
<1>2. \A b \in Senders \ {a} : /\ b \in new.streaming <=> b \in sw.streaming
                              /\ b \in new.stopped <=> b \in sw.stopped
  BY DEF AfterStart
<1>3. QED BY <1>1, <1>2, TellOK DEF AfterStart, Commands

\* Telling the sender of a slot to stop.
LEMMA StopTold ==
  ASSUME NEW sw \in Threaded, NEW new, NEW from, NEW on, NEW slot \in Slots,
         NEW a \in Senders, a = sw.active[slot],
         ToldOK(sw, from, on), AfterStop(new, sw, a)
  PROVE  ToldOK(new, from, on)
<1>1. sw.sent[a] = <<>> => a \notin from.stopped
  BY DEF ToldOK
<1>2. \A b \in Senders \ {a} : /\ b \in new.streaming <=> b \in sw.streaming
                              /\ b \in new.stopped <=> b \in sw.stopped
  BY DEF AfterStop
<1>3. QED BY <1>1, <1>2, TellOK DEF AfterStop, Commands

\* The start half of a slot turn: the next source, if it is a sender, is
\* counted as streaming afterwards and nothing else is lost.
LEMMA StartHalfOK ==
  ASSUME NEW mid, NEW reg \in SUBSET Senders, NEW kn \in SUBSET Senders,
         NEW on, NEW slot, NEW next, next \in reg => next \in kn,
         PassOK(mid, reg, kn), OthersVisible(mid, slot, on),
         NEW fin,
         fin = IF next \in reg THEN EnsureSenderStreaming(mid, next) ELSE mid
  PROVE  /\ PassOK(fin, reg, kn)
         /\ fin.active = mid.active
         /\ OthersVisible(fin, slot, on)
         /\ next \in reg => next \in fin.streaming
         /\ \/ fin = mid
            \/ next \in reg /\ next \notin mid.streaming /\ AfterStart(fin, mid, next)
<1>1. CASE next \in reg
  <2>1. next \in reg \cap kn /\ fin = EnsureSenderStreaming(mid, next)
    BY <1>1
  <2>2. /\ PassOK(fin, reg, kn) /\ fin.active = mid.active
        /\ next \in fin.streaming
        /\ \A b \in mid.streaming : b \in fin.streaming
        /\ next \in mid.streaming => fin = mid
        /\ next \notin mid.streaming => AfterStart(fin, mid, next)
    <3>1. PICK a : a = next
      OBVIOUS
    <3>2. a \in reg \cap kn /\ fin = EnsureSenderStreaming(mid, a)
      BY <2>1, <3>1
    <3>3. /\ PassOK(fin, reg, kn) /\ fin.active = mid.active
          /\ a \in fin.streaming
          /\ \A b \in mid.streaming : b \in fin.streaming
          /\ a \in mid.streaming => fin = mid
          /\ a \notin mid.streaming => AfterStart(fin, mid, a)
      BY <3>2, EnsureOK
    <3>4. QED BY <3>1, <3>3
  <2>3. QED BY <1>1, <2>2 DEF OthersVisible
<1>2. CASE next \notin reg
  BY <1>2
<1>3. QED BY <1>1, <1>2

\* Starts, and stops of others, spare a sender.
LEMMA StartSpares ==
  ASSUME NEW sw \in Threaded, NEW new, NEW b \in Senders, AfterStart(new, sw, b),
         NEW a \in Senders, NotToldStop(sw, a)
  PROVE  NotToldStop(new, a)
<1>1. sw.sent \in [Senders -> Seq(Commands)]
  BY DEF Threaded
<1>2. CASE a # b
  BY <1>1, <1>2 DEF AfterStart, NotToldStop
<1>3. CASE a = b
  <2>1. new.sent[a] = Append(sw.sent[a], "START")
    BY <1>1, <1>3 DEF AfterStart
  <2>2. sw.sent[a] \in Seq(Commands)
    BY <1>1
  <2>3. \A i \in 1 .. Len(Append(sw.sent[a], "START")) : Append(sw.sent[a], "START")[i] # "STOP"
    BY <2>2, AppendSpares DEF NotToldStop
  <2>4. QED BY <2>1, <2>3 DEF NotToldStop
<1>4. QED BY <1>2, <1>3

LEMMA StopSpares ==
  ASSUME NEW sw \in Threaded, NEW new, NEW b \in Senders, AfterStop(new, sw, b),
         NEW a \in Senders \ {b}, NotToldStop(sw, a)
  PROVE  NotToldStop(new, a)
  BY DEF AfterStop, NotToldStop, Threaded

LEMMA SyncSpares ==
  ASSUME NEW sw \in Threaded, NEW new, NEW start, NEW stop, NEW gone,
         AfterSync(new, sw, start, stop, gone),
         NEW a \in Senders, a \notin stop, NotToldStop(sw, a)
  PROVE  NotToldStop(new, a)
<1>1. sw.sent[a] \in Seq(Commands)
  BY DEF Threaded
<1>2. CASE a \in start
  <2>1. new.sent[a] = Append(sw.sent[a], "START")
    BY <1>2 DEF AfterSync
  <2>2. \A i \in 1 .. Len(Append(sw.sent[a], "START")) : Append(sw.sent[a], "START")[i] # "STOP"
    BY <1>1, AppendSpares DEF NotToldStop
  <2>3. QED BY <2>1, <2>2 DEF NotToldStop
<1>3. CASE a \notin start
  BY <1>3 DEF AfterSync, NotToldStop
<1>4. QED BY <1>2, <1>3

\* One turn of the slot loop keeps Pass, leaves the other slot alone and
\* gives this one a source that is not an offline sender.
LEMMA SlotOK ==
  ASSUME NEW sw, NEW from, NEW reg, NEW kn, NEW on, NEW slot, NEW desired,
         PassArgs(reg, kn, on), TurnArgs(slot, desired, reg),
         Pass(sw, from, reg, kn, on),
         NEW new, new = ReconcileSlot(sw, slot, desired, reg, on)
  PROVE  /\ Pass(new, from, reg, kn, on)
         /\ TurnDone(new, sw, slot, desired, reg, on)
         /\ TurnSpares(new, sw, slot)
<1>0. /\ reg \in SUBSET Senders /\ kn \in SUBSET Senders /\ on \in SUBSET kn
      /\ slot \in Slots /\ desired \in Sources
      /\ desired \in Senders => desired \in reg
      /\ PassOK(sw, reg, kn) /\ PassVisible(sw, Slots, on)
      /\ ToldOK(sw, from, on) /\ Counted(sw, reg, on)
  BY DEF PassArgs, TurnArgs, Pass
<1>1. PICK next : next = NextActiveForSlot(desired, reg, on)
  OBVIOUS
<1>2. PICK old : old = sw.active[slot]
  OBVIOUS
<1>3. PICK mid : mid = IF old \in reg /\ ~Warm
                       THEN StopSenderIfUnused(sw, old, slot) ELSE sw
  OBVIOUS
<1>4. PICK fin : fin = IF next \in reg THEN EnsureSenderStreaming(mid, next)
                       ELSE mid
  OBVIOUS
<1>5. new = IF old = next THEN sw
            ELSE [fin EXCEPT !.active = [sw.active EXCEPT ![slot] = next]]
  BY <1>1, <1>2, <1>3, <1>4 DEF ReconcileSlot
<1>6. /\ next \in Sources
      /\ next \in Senders => next \in reg \cap on
      /\ next \in {desired, Empty}
  BY <1>0, <1>1, SwitcherAssumption DEF NextActiveForSlot, Sources
<1>7. old \in reg => old \in kn
  BY <1>0, <1>2 DEF PassOK
<1>8. /\ PassOK(mid, reg, kn) /\ mid.active = sw.active
      /\ OthersVisible(mid, slot, on)
      /\ \/ mid = sw /\ (old \in reg /\ ~Warm
                        => \E s \in Slots \ {slot} : sw.active[s] = old)
         \/ old \in reg /\ ~Warm /\ AfterStop(mid, sw, old)
  <2>1. CASE old \in reg /\ ~Warm
    <3>1. old \in reg \cap kn /\ mid = StopSenderIfUnused(sw, old, slot)
      BY <1>3, <1>7, <2>1
    <3>2. QED BY <1>0, <2>1, <3>1, StopOK
  <2>2. CASE ~(old \in reg /\ ~Warm)
    BY <1>0, <1>3, <2>2 DEF PassVisible, OthersVisible
  <2>3. QED BY <2>1, <2>2
<1>9. next \in reg => next \in kn
  BY <1>0, <1>6
<1>10. /\ PassOK(fin, reg, kn) /\ fin.active = sw.active
       /\ OthersVisible(fin, slot, on)
       /\ next \in reg => next \in fin.streaming
       /\ \/ fin = mid
          \/ next \in reg /\ next \notin mid.streaming /\ AfterStart(fin, mid, next)
  BY <1>0, <1>4, <1>8, <1>9, StartHalfOK
<1>11. ToldOK(mid, from, on)
  BY <1>0, <1>2, <1>8, StopTold DEF PassOK
<1>12. ToldOK(fin, from, on)
  BY <1>0, <1>6, <1>8, <1>10, <1>11, StartTold DEF PassOK
<1>13. CASE old = next
  BY <1>0, <1>1, <1>2, <1>5, <1>6, <1>13 DEF TurnDone, TurnSpares, Pass
<1>14. CASE old # next
  <2>1. new = [fin EXCEPT !.active = [sw.active EXCEPT ![slot] = next]]
    BY <1>5, <1>14
  <2>2. fin \in Threaded /\ sw.active \in [Slots -> Sources]
    BY <1>10 DEF PassOK, Threaded
  <2>3. [sw.active EXCEPT ![slot] = next] \in [Slots -> Sources]
    BY <1>0, <1>6, <2>2
  <2>4. /\ new \in Threaded
        /\ new.active = [sw.active EXCEPT ![slot] = next]
        /\ new.streaming = fin.streaming /\ new.stopped = fin.stopped
        /\ new.sent = fin.sent /\ new.last = fin.last
    BY <2>1, <2>2, <2>3 DEF Threaded
  <2>5. \A s \in Slots : new.active[s] \in Senders
                           => new.active[s] \in reg \cap kn
    BY <1>0, <1>6, <1>10, <2>2, <2>4 DEF PassOK
  <2>6. PassOK(new, reg, kn)
    BY <1>10, <2>4, <2>5 DEF PassOK
  <2>7. new.active[slot] = next
        /\ \A s \in Slots : s # slot => new.active[s] = sw.active[s]
    BY <1>0, <2>2, <2>4
  <2>8. PassVisible(new, Slots, on)
    BY <1>0, <1>6, <1>10, <2>4, <2>7 DEF PassVisible, OthersVisible
  <2>9. ToldOK(new, from, on)
    <3>1. next \in Senders /\ new.sent[next] = <<>> => next \in from.streaming
      BY <1>0, <1>6, <1>10, <1>12, <2>4 DEF ToldOK
    <3>2. \A s \in Slots :
            new.active[s] \in Senders /\ new.sent[new.active[s]] = <<>>
              => new.active[s] \in from.streaming
      BY <1>10, <1>12, <2>4, <2>7, <3>1 DEF ToldOK
    <3>3. QED BY <1>12, <2>4, <3>2 DEF ToldOK
  <2>10. Counted(new, reg, on)
    <3>1. CASE Warm
      BY <1>0, <1>6, <1>8, <1>10, <2>4, <3>1 DEF Counted
    <3>2. CASE ~Warm
      <4>1. \A a \in sw.streaming : a \in reg /\ \E s \in Slots : sw.active[s] = a
        BY <1>0, <3>2 DEF Counted, PassOK
      <4>2. \A a \in mid.streaming :
              \E s \in Slots \ {slot} : sw.active[s] = a
        BY <1>2, <1>8, <3>2, <4>1 DEF AfterStop
      <4>3. \A a \in new.streaming : \E s \in Slots : new.active[s] = a
        BY <1>0, <1>10, <2>4, <2>7, <4>2 DEF AfterStart
      <4>4. \A a \in Senders : mid.last[a] = "START" => a \in mid.streaming
        BY <1>0, <1>8, <3>2 DEF Counted, AfterStop, PassOK, Threaded
      <4>5. \A a \in Senders : fin.last[a] = "START" => a \in fin.streaming
        BY <1>8, <1>10, <4>4 DEF AfterStart, PassOK, Threaded
      <4>6. QED BY <2>4, <3>2, <4>3, <4>5 DEF Counted
    <3>3. QED BY <3>1, <3>2
  <2>11. TurnSpares(new, sw, slot)
    <3> SUFFICES ASSUME NEW a \in Senders, Spared(sw, slot, a) \/ a = next,
                        NotToldStop(sw, a)
                 PROVE  NotToldStop(new, a)
      BY <2>7 DEF TurnSpares
    <3>1. sw \in Threaded /\ mid \in Threaded
      BY <1>0, <1>8 DEF PassOK
    <3>2. NotToldStop(mid, a)
      <4>1. CASE mid = sw
        BY <4>1
      <4>2. CASE old \in reg /\ ~Warm /\ AfterStop(mid, sw, old) /\ a # old
        BY <1>0, <3>1, <4>2, StopSpares
      <4>3. CASE old \in reg /\ ~Warm /\ a = old
        <5>1. \E s \in Slots \ {slot} : sw.active[s] = old
          BY <1>2, <1>14, <4>3 DEF Spared
        <5>2. mid = sw
          BY <1>3, <4>3, <5>1 DEF StopSenderIfUnused
        <5>3. QED BY <5>2
      <4>4. QED BY <1>8, <4>1, <4>2, <4>3
    <3>3. NotToldStop(fin, a)
      <4>1. CASE fin = mid
        BY <3>2, <4>1
      <4>2. CASE next \in reg /\ AfterStart(fin, mid, next)
        <5>1. next \in Senders
          BY <1>0, <4>2
        <5>2. QED BY <3>1, <3>2, <4>2, <5>1, StartSpares
      <4>3. QED BY <1>10, <4>1, <4>2
    <3>4. QED BY <2>4, <3>3 DEF NotToldStop
  <2>12. QED BY <1>1, <1>6, <2>6, <2>7, <2>8, <2>9, <2>10, <2>11 DEF TurnDone, Pass
<1>15. QED BY <1>13, <1>14

\* A policy pass whose starts and stops are apart keeps PassOK.
LEMMA SyncOK ==
  ASSUME NEW sw, NEW reg, NEW kn, NEW start, NEW stop, NEW gone,
         PolicyArgs(reg, kn, start, stop, gone), PassOK(sw, reg, kn),
         NEW new, new = SyncStreams(sw, start, stop, gone)
  PROVE  /\ PassOK(new, reg, kn)
         /\ AfterSync(new, sw, start, stop, gone)
<1> DEFINE Sent == [a \in Senders |->
                      IF a \in start THEN Append(sw.sent[a], "START")
                      ELSE IF a \in stop THEN Append(sw.sent[a], "STOP")
                      ELSE sw.sent[a]]
           Last == [a \in Senders |-> IF a \in start THEN "START"
                                      ELSE IF a \in stop THEN "STOP"
                                      ELSE sw.last[a]]
<1>0. /\ reg \in SUBSET Senders /\ kn \in SUBSET Senders
      /\ start \in SUBSET (reg \cap kn) /\ stop \in SUBSET (reg \cap kn)
      /\ gone \in SUBSET reg /\ start \cap stop = {} /\ (Warm => stop = {})
  BY DEF PolicyArgs
<1>1. sw \in Threaded
  BY DEF PassOK
<1>2. Sent \in [Senders -> Seq(Commands)]
  BY <1>1 DEF Threaded, Commands
<1>3. Last \in [Senders -> Commands \cup {"none"}]
  BY <1>1 DEF Threaded, Commands
<1>4. \A a \in Senders : Sent[a] # <<>> => a \in kn
  BY <1>0, <1>1 DEF PassOK, Threaded
<1>5. \A a \in Senders : Last[a] = IF a \in start THEN "START"
                                   ELSE IF a \in stop THEN "STOP"
                                   ELSE sw.last[a]
  OBVIOUS
<1>6. \A a \in Senders : Sent[a] = IF a \in start THEN Append(sw.sent[a], "START")
                                    ELSE IF a \in stop THEN Append(sw.sent[a], "STOP")
                                    ELSE sw.sent[a]
  OBVIOUS
<1>7. new = [sw EXCEPT !.streaming = ((sw.streaming \cup start) \ stop) \ gone,
                       !.stopped = ((sw.stopped \cup stop) \ start) \ gone,
                       !.sent = Sent, !.last = Last]
  BY DEF SyncStreams
<1> HIDE DEF Sent, Last
<1>8. /\ new \in Threaded /\ new.active = sw.active
      /\ new.streaming = ((sw.streaming \cup start) \ stop) \ gone
      /\ new.stopped = ((sw.stopped \cup stop) \ start) \ gone
      /\ new.sent = Sent /\ new.last = Last
  BY <1>0, <1>1, <1>2, <1>3, <1>7 DEF Threaded
<1>9. PassOK(new, reg, kn)
  BY <1>0, <1>4, <1>5, <1>8 DEF PassOK
<1>10. QED BY <1>0, <1>5, <1>6, <1>8, <1>9 DEF AfterSync

\* A policy pass whose starts go to online senders that are not counted, and
\* whose stops to online ones that are not yet stopped, keeps ToldOK.
LEMMA SyncTold ==
  ASSUME NEW sw, NEW from, NEW reg, NEW kn, NEW on, NEW start, NEW stop, NEW gone,
         PolicyArgs(reg, kn, start, stop, gone), PassOK(sw, reg, kn),
         ToldOK(sw, from, on), start \subseteq on \ sw.streaming,
         stop \subseteq on \ sw.stopped, gone \cap on = {},
         NEW new, AfterSync(new, sw, start, stop, gone)
  PROVE  ToldOK(new, from, on)
<1>1. /\ start \subseteq Senders /\ stop \subseteq Senders
      /\ start \cap stop = {} /\ sw \in Threaded
  BY DEF PolicyArgs, PassOK
<1>2. \A a \in Senders : sw.sent[a] \in Seq(Commands)
  BY <1>1 DEF Threaded
<1>3. ASSUME NEW a \in start
      PROVE  /\ new.sent[a] # <<>> /\ new.last[a] = new.sent[a][Len(new.sent[a])]
             /\ a \in from.streaming => Head(new.sent[a]) = "STOP"
             /\ a \in from.stopped => Head(new.sent[a]) = "START"
  <2>1. sw.sent[a] = <<>> => a \notin from.streaming
    BY <1>1 DEF ToldOK
  <2>2. /\ new.sent[a] # <<>> /\ new.last[a] = new.sent[a][Len(new.sent[a])]
        /\ sw.sent[a] = <<>> => Head(new.sent[a]) = "START"
        /\ sw.sent[a] # <<>> => Head(new.sent[a]) = Head(sw.sent[a])
    <3>1. sw.sent[a] \in Seq(Commands) /\ "START" \in Commands
      BY <1>1, <1>2 DEF Commands
    <3>2. new.sent[a] = Append(sw.sent[a], "START") /\ new.last[a] = "START"
      BY <1>1 DEF AfterSync
    <3>3. QED BY <3>1, <3>2, AppendFacts
  <2>3. QED BY <1>1, <2>1, <2>2 DEF ToldOK
<1>4. ASSUME NEW a \in stop
      PROVE  /\ new.sent[a] # <<>> /\ new.last[a] = new.sent[a][Len(new.sent[a])]
             /\ a \in from.streaming => Head(new.sent[a]) = "STOP"
             /\ a \in from.stopped => Head(new.sent[a]) = "START"
  <2>1. sw.sent[a] = <<>> => a \notin from.stopped
    BY <1>1 DEF ToldOK
  <2>2. /\ new.sent[a] # <<>> /\ new.last[a] = new.sent[a][Len(new.sent[a])]
        /\ sw.sent[a] = <<>> => Head(new.sent[a]) = "STOP"
        /\ sw.sent[a] # <<>> => Head(new.sent[a]) = Head(sw.sent[a])
    <3>1. sw.sent[a] \in Seq(Commands) /\ "STOP" \in Commands
      BY <1>1, <1>2 DEF Commands
    <3>2. new.sent[a] = Append(sw.sent[a], "STOP") /\ new.last[a] = "STOP"
      BY <1>1 DEF AfterSync
    <3>3. QED BY <3>1, <3>2, AppendFacts
  <2>3. QED BY <1>1, <2>1, <2>2 DEF ToldOK
<1>5. \A a \in Senders \ (start \cup stop) :
        /\ new.sent[a] = sw.sent[a] /\ new.last[a] = sw.last[a]
        /\ a \in new.streaming => a \in sw.streaming
        /\ a \in on /\ a \in sw.streaming => a \in new.streaming
        /\ a \in on /\ a \in sw.stopped => a \in new.stopped
  BY DEF AfterSync
<1>6. \A a \in Senders :
        /\ new.sent[a] = <<>> =>
             /\ new.last[a] = from.last[a]
             /\ a \in new.streaming => a \in from.streaming
             /\ a \in on /\ a \in from.streaming => a \in new.streaming
             /\ a \in on /\ a \in from.stopped => a \in new.stopped
        /\ new.sent[a] # <<>> =>
             /\ a \in from.streaming => Head(new.sent[a]) = "STOP"
             /\ a \in from.stopped => Head(new.sent[a]) = "START"
             /\ new.last[a] = new.sent[a][Len(new.sent[a])]
  BY <1>3, <1>4, <1>5 DEF ToldOK
<1>7. \A s \in Slots :
        new.active[s] \in Senders /\ new.sent[new.active[s]] = <<>>
          => new.active[s] \in from.streaming
  BY <1>3, <1>4, <1>5 DEF ToldOK, AfterSync
<1>8. QED BY <1>6, <1>7 DEF ToldOK

\* What every slot the pass has dealt with satisfies.
SlotsOnline(sw, slots, on) ==
  \A s \in slots : sw.active[s] \in Senders => sw.active[s] \in on

\* The loop body for a slot, skipped when the slot is not reconciled.
LoopStep(new, sw, slots, slot, desired, reg, on) ==
  /\ slot \in slots => new = ReconcileSlot(sw, slot, desired, reg, on)
  /\ slot \notin slots => new = sw
TurnTaken(new, sw, slots, slot, desired, reg, on) ==
  /\ \A s \in Slots : s # slot => new.active[s] = sw.active[s]
  /\ new.active[slot] = IF slot \in slots THEN NextActiveForSlot(desired, reg, on)
                        ELSE sw.active[slot]
LoopArgs(slots, slot, desired, reg, ready, after) ==
  /\ ready \in SUBSET Slots /\ after \in SUBSET Slots
  /\ \A s \in after : s \in ready \/ s = slot
  /\ slot \notin slots => slot \in ready
  /\ slot \in slots => TurnArgs(slot, desired, reg)

\* One turn of the loop, taken or skipped: the slots dealt with so far stay
\* online and this one joins them.
LEMMA TurnOK ==
  ASSUME NEW sw, NEW from, NEW reg, NEW kn, NEW on, NEW slot, NEW desired, NEW slots,
         NEW ready, NEW after, LoopArgs(slots, slot, desired, reg, ready, after),
         PassArgs(reg, kn, on), Pass(sw, from, reg, kn, on),
         SlotsOnline(sw, ready, on),
         NEW new, LoopStep(new, sw, slots, slot, desired, reg, on)
  PROVE  /\ Pass(new, from, reg, kn, on) /\ SlotsOnline(new, after, on)
         /\ TurnTaken(new, sw, slots, slot, desired, reg, on)
         /\ TurnSpares(new, sw, slot)
<1>1. CASE slot \in slots
  <2>1. new = ReconcileSlot(sw, slot, desired, reg, on)
        /\ TurnArgs(slot, desired, reg)
    BY <1>1 DEF LoopStep, LoopArgs
  <2>2. /\ Pass(new, from, reg, kn, on) /\ TurnDone(new, sw, slot, desired, reg, on)
        /\ TurnSpares(new, sw, slot)
    BY <2>1, SlotOK
  <2>3. SlotsOnline(new, after, on)
    BY <2>2 DEF SlotsOnline, TurnDone, LoopArgs
  <2>4. TurnTaken(new, sw, slots, slot, desired, reg, on)
    BY <1>1, <2>2 DEF TurnTaken, TurnDone
  <2>5. QED BY <2>2, <2>3, <2>4
<1>2. CASE slot \notin slots
  BY <1>2 DEF SlotsOnline, LoopStep, LoopArgs, TurnTaken, TurnSpares
<1>3. QED BY <1>1, <1>2

\* The warm policy at the start of a pass: every online registered sender is
\* counted, so whatever the slots show stays visible.
LEMMA WarmOK ==
  ASSUME NEW sw, NEW from, NEW reg, NEW kn, NEW on, PassArgs(reg, kn, on),
         PassOK(sw, reg, kn), ToldOK(sw, from, on), Warm,
         NEW new, new = SyncWarmRemoteStreams(sw, reg, on)
  PROVE  /\ Pass(new, from, reg, kn, on) /\ new.active = sw.active
         /\ \A a \in Senders : NotToldStop(sw, a) => NotToldStop(new, a)
<1>1. PICK start : start = (reg \cap on) \ sw.streaming
  OBVIOUS
<1>2. PICK gone : gone = reg \ on
  OBVIOUS
<1>3. PolicyArgs(reg, kn, start, {}, gone)
  BY <1>1, <1>2 DEF PassArgs, PolicyArgs
<1>4. new = SyncStreams(sw, start, {}, gone)
  BY <1>1, <1>2 DEF SyncWarmRemoteStreams
<1>5. PassOK(new, reg, kn) /\ AfterSync(new, sw, start, {}, gone)
  BY <1>3, <1>4, SyncOK
<1>6. ToldOK(new, from, on)
  BY <1>1, <1>2, <1>3, <1>5, SyncTold
<1>7. new.streaming = reg \cap on
  BY <1>1, <1>2, <1>5 DEF AfterSync, PassOK
<1>8. PassVisible(new, Slots, on)
  BY <1>5, <1>7 DEF PassVisible, PassOK, PassArgs
<1>9. \A a \in Senders : NotToldStop(sw, a) => NotToldStop(new, a)
  BY <1>5, SyncSpares DEF PassOK
<1>10. QED BY <1>5, <1>6, <1>7, <1>8, <1>9 DEF Pass, Counted, AfterSync

\* The cold policy at the end of a pass: exactly what the slots show is left
\* streaming, and every other online registered sender is left stopped.
LEMMA ColdOK ==
  ASSUME NEW sw, NEW from, NEW reg, NEW kn, NEW on, PassArgs(reg, kn, on),
         Pass(sw, from, reg, kn, on), SlotsOnline(sw, Slots, on), ~Warm,
         NEW new, new = SyncColdRemoteStreams(sw, reg, on)
  PROVE  /\ Pass(new, from, reg, kn, on)
         /\ new.active = sw.active
         /\ new.stopped = (reg \cap on) \ {new.active[s] : s \in Slots}
         /\ \A a \in Senders \cap {sw.active[s] : s \in Slots} :
              NotToldStop(sw, a) => NotToldStop(new, a)
<1>1. PICK visible : visible = {sw.active[s] : s \in Slots} \cap reg
  OBVIOUS
<1>2. PICK start : start = (visible \cap on) \ sw.streaming
  OBVIOUS
<1>3. PICK stop : stop = ((reg \cap on) \ visible) \ sw.stopped
  OBVIOUS
<1>4. PICK gone : gone = reg \ on
  OBVIOUS
<1>5. /\ PassOK(sw, reg, kn) /\ PassVisible(sw, Slots, on)
      /\ ToldOK(sw, from, on) /\ Counted(sw, reg, on)
  BY DEF Pass
<1>6. PolicyArgs(reg, kn, start, stop, gone)
  BY <1>1, <1>2, <1>3, <1>4 DEF PassArgs, PolicyArgs
<1>7. new = SyncStreams(sw, start, stop, gone)
  BY <1>1, <1>2, <1>3, <1>4 DEF SyncColdRemoteStreams
<1>8. PassOK(new, reg, kn) /\ AfterSync(new, sw, start, stop, gone)
  BY <1>5, <1>6, <1>7, SyncOK
<1>9. ToldOK(new, from, on)
  <2>1. start \subseteq on \ sw.streaming /\ stop \subseteq on \ sw.stopped
        /\ gone \cap on = {}
    BY <1>2, <1>3, <1>4
  <2>2. QED BY <1>5, <1>6, <1>8, <2>1, SyncTold
<1>10. PassVisible(new, Slots, on)
  BY <1>1, <1>3, <1>4, <1>5, <1>8 DEF PassVisible, PassOK, PassArgs, AfterSync
<1>11. visible \subseteq sw.streaming \cap on /\ sw.streaming \subseteq visible
  <2>1. ASSUME NEW a \in visible PROVE a \in sw.streaming \cap on
    <3>1. PICK s \in Slots : a = sw.active[s] /\ a \in reg
      BY <1>1
    <3>2. QED BY <1>5, <3>1 DEF PassVisible, SlotsOnline, PassArgs
  <2>2. sw.streaming \subseteq visible
    BY <1>1, <1>5 DEF Counted, PassOK
  <2>3. QED BY <2>1, <2>2
<1>12. new.streaming = visible
  BY <1>2, <1>3, <1>4, <1>8, <1>11 DEF AfterSync
<1>13. \A a \in Senders : new.last[a] = "START" => a \in new.streaming
  BY <1>2, <1>5, <1>8, <1>11, <1>12 DEF Counted, AfterSync
<1>14. Counted(new, reg, on)
  BY <1>1, <1>8, <1>12, <1>13 DEF Counted, AfterSync
<1>15. new.stopped = (reg \cap on) \ visible
  BY <1>2, <1>3, <1>4, <1>5, <1>8, <1>11 DEF AfterSync, PassOK
<1>16. ASSUME NEW a \in Senders \cap {sw.active[s] : s \in Slots}, NotToldStop(sw, a)
       PROVE  NotToldStop(new, a)
  <2>1. a \in reg /\ sw \in Threaded
    BY <1>5 DEF PassOK
  <2>2. a \notin stop
    BY <1>1, <1>3, <2>1
  <2>3. QED BY <1>8, <1>16, <2>1, <2>2, SyncSpares
<1>17. QED BY <1>1, <1>8, <1>9, <1>10, <1>14, <1>15, <1>16 DEF Pass, AfterSync

\* What a pass asks of its arguments and of the state it starts from, and what
\* it leaves behind: a slot it dealt with has the source desired for it or, while
\* that is a sender which is not online, nothing, and a sender that stays in the
\* picture is not stopped on the way unless it goes from main to PIP.
PassReady(sw, slots, desired, reg, on) ==
  /\ slots \in SUBSET Slots
  /\ \A s \in Slots : s \in slots => TurnArgs(s, desired[s], reg)
  /\ \A s \in Slots \ slots : sw.active[s] \in Senders => sw.active[s] \in on
PassStart(sw, reg, kn, on) ==
  /\ PassOK(sw, reg, kn) /\ PassVisible(sw, Slots, on)
  /\ ToldOK(sw, sw, on) /\ (~Warm => Counted(sw, reg, on))
SlotsTaken(new, sw, slots, desired, reg, on) ==
  \A s \in Slots :
    new.active[s] = IF s \in slots THEN NextActiveForSlot(desired[s], reg, on)
                    ELSE sw.active[s]
StaysShown(new, sw, a) ==
  \/ sw.active[1] = a /\ (new.active[0] = a \/ new.active[1] = a)
  \/ sw.active[0] = a /\ new.active[0] = a
PassSpares(new, sw) ==
  \A a \in Senders : StaysShown(new, sw, a) /\ NotToldStop(sw, a)
                     => NotToldStop(new, a)
StoppedExact(sw, reg, on) ==
  ~Warm => sw.stopped = (reg \cap on) \ {sw.active[s] : s \in Slots}

\* A whole reconcile pass: whatever it starts from, the remote sources it
\* leaves in the slots are online and counted as streaming, under the cold
\* policy the streams and the stops are exactly what the slots ask for, and
\* nobody was told what it had been told before.
LEMMA ReconciledOK ==
  ASSUME NEW sw, NEW reg, NEW kn, NEW on, NEW slots, NEW desired,
         PassArgs(reg, kn, on), PassReady(sw, slots, desired, reg, on),
         PassStart(sw, reg, kn, on),
         NEW new, new = Reconciled(sw, slots, desired, reg, on)
  PROVE  /\ Pass(new, sw, reg, kn, on)
         /\ SlotsOnline(new, Slots, on) /\ StoppedExact(new, reg, on)
         /\ SlotsTaken(new, sw, slots, desired, reg, on)
         /\ PassSpares(new, sw)
<1>1. PICK begun : begun = IF Warm THEN SyncWarmRemoteStreams(sw, reg, on)
                           ELSE sw
  OBVIOUS
<1>2. PICK zero : zero = IF 0 \in slots
                         THEN ReconcileSlot(begun, 0, desired[0], reg, on)
                         ELSE begun
  OBVIOUS
<1>3. PICK one : one = IF 1 \in slots
                       THEN ReconcileSlot(zero, 1, desired[1], reg, on)
                       ELSE zero
  OBVIOUS
<1>4. new = IF Warm THEN one ELSE SyncColdRemoteStreams(one, reg, on)
  BY <1>1, <1>2, <1>3 DEF Reconciled
<1>5. PICK ready : ready = Slots \ slots
  OBVIOUS
<1>6. PICK mid : mid = ready \cup {0}
  OBVIOUS
<1>7. /\ LoopArgs(slots, 0, desired[0], reg, ready, mid)
      /\ LoopArgs(slots, 1, desired[1], reg, mid, Slots)
  BY <1>5, <1>6 DEF Slots, LoopArgs, PassReady
<1>8. /\ Pass(begun, sw, reg, kn, on) /\ SlotsOnline(begun, ready, on)
      /\ begun.active = sw.active
      /\ \A a \in Senders : NotToldStop(sw, a) => NotToldStop(begun, a)
  <2>1. SlotsOnline(sw, ready, on)
    BY <1>5 DEF SlotsOnline, PassReady
  <2>2. CASE Warm
    <3>1. begun = SyncWarmRemoteStreams(sw, reg, on)
      BY <1>1, <2>2
    <3>2. /\ Pass(begun, sw, reg, kn, on) /\ begun.active = sw.active
          /\ \A a \in Senders : NotToldStop(sw, a) => NotToldStop(begun, a)
      BY <2>2, <3>1, WarmOK DEF PassStart
    <3>3. QED BY <2>1, <3>2 DEF SlotsOnline
  <2>3. CASE ~Warm
    BY <1>1, <2>1, <2>3 DEF PassStart, Pass
  <2>4. QED BY <2>2, <2>3
<1>9. /\ Pass(zero, sw, reg, kn, on) /\ SlotsOnline(zero, mid, on)
      /\ TurnTaken(zero, begun, slots, 0, desired[0], reg, on)
      /\ TurnSpares(zero, begun, 0)
  <2>1. LoopStep(zero, begun, slots, 0, desired[0], reg, on)
    BY <1>2 DEF LoopStep
  <2>2. QED BY <1>7, <1>8, <2>1, TurnOK
<1>10. /\ Pass(one, sw, reg, kn, on) /\ SlotsOnline(one, Slots, on)
       /\ TurnTaken(one, zero, slots, 1, desired[1], reg, on)
       /\ TurnSpares(one, zero, 1)
  <2>1. LoopStep(one, zero, slots, 1, desired[1], reg, on)
    BY <1>3 DEF LoopStep
  <2>2. QED BY <1>7, <1>9, <2>1, TurnOK
<1>11. one.active[0] = zero.active[0] /\ zero.active[1] = sw.active[1]
  BY <1>8, <1>9, <1>10 DEF TurnTaken, Slots
<1>12. SlotsTaken(one, sw, slots, desired, reg, on)
  BY <1>8, <1>9, <1>10, <1>11 DEF TurnTaken, SlotsTaken, Slots
<1>13. PassSpares(one, sw)
  <2> SUFFICES ASSUME NEW a \in Senders, StaysShown(one, sw, a), NotToldStop(sw, a)
               PROVE  NotToldStop(one, a)
    BY DEF PassSpares
  <2>1. 1 \in Slots \ {0} /\ 0 \in Slots \ {1}
    BY DEF Slots
  <2>2. /\ Spared(begun, 0, a) \/ zero.active[0] = a
        /\ Spared(zero, 1, a) \/ one.active[1] = a
    BY <1>8, <1>11, <2>1 DEF Spared, StaysShown
  <2>3. NotToldStop(zero, a)
    BY <1>8, <1>9, <2>2 DEF TurnSpares
  <2>4. QED BY <1>10, <2>2, <2>3 DEF TurnSpares
<1>14. CASE Warm
  BY <1>4, <1>10, <1>12, <1>13, <1>14 DEF StoppedExact
<1>15. CASE ~Warm
  <2>1. new = SyncColdRemoteStreams(one, reg, on)
    BY <1>4, <1>15
  <2>2. /\ Pass(new, sw, reg, kn, on) /\ new.active = one.active
        /\ new.stopped = (reg \cap on) \ {new.active[s] : s \in Slots}
        /\ \A a \in Senders \cap {one.active[s] : s \in Slots} :
             NotToldStop(one, a) => NotToldStop(new, a)
    BY <1>10, <1>15, <2>1, ColdOK
  <2>3. SlotsOnline(new, Slots, on)
    BY <1>10, <2>2 DEF SlotsOnline
  <2>4. SlotsTaken(new, sw, slots, desired, reg, on)
    BY <1>12, <2>2 DEF SlotsTaken
  <2>5. PassSpares(new, sw)
    <3> SUFFICES ASSUME NEW a \in Senders, StaysShown(new, sw, a), NotToldStop(sw, a)
                 PROVE  NotToldStop(new, a)
      BY DEF PassSpares
    <3>1. StaysShown(one, sw, a)
      BY <2>2 DEF StaysShown
    <3>2. a \in {one.active[s] : s \in Slots}
      BY <3>1 DEF StaysShown, Slots
    <3>3. QED BY <1>13, <2>2, <3>1, <3>2 DEF PassSpares
  <2>6. QED BY <2>2, <2>3, <2>4, <2>5 DEF StoppedExact
<1>16. QED BY <1>14, <1>15

\* The state a handler hands to a reconcile pass, and the facts about it that
\* the invariant gives.
Threading == [active |-> active, streaming |-> streaming, stopped |-> stopped,
              sent |-> NoCommands, last |-> lastCmd]

LEMMA ThreadingOK ==
  ASSUME Inv, NEW reg \in SUBSET Senders, registered \subseteq reg,
         NEW on \in SUBSET online
  PROVE  PassStart(Threading, reg, online, on)
<1>1. NoCommands \in [Senders -> Seq(Commands)]
      /\ \A a \in Senders : NoCommands[a] = <<>>
  BY DEF NoCommands
<1>2. streaming \in SUBSET Senders /\ stopped \in SUBSET Senders
  BY DEF Inv, TypeOK
<1>3. Threading \in Threaded
  BY <1>1, <1>2 DEF Threading, Threaded, Inv, TypeOK
<1>4. \A s \in Slots : active[s] \in Senders
        => active[s] \in streaming /\ active[s] \in reg \cap online
  BY DEF Inv, TypeOK, VisibleIsStreaming, VisibleSenders
<1>5. PassOK(Threading, reg, online)
  BY <1>1, <1>2, <1>3, <1>4
     DEF PassOK, Threading, Inv, TypeOK, LastCommandAgrees, WarmNeverStops
<1>6. \A s \in Slots : active[s] \in on => active[s] \in streaming
  BY <1>4 DEF Inv, TypeOK
<1>7. ToldOK(Threading, Threading, on)
  BY <1>1, <1>4 DEF ToldOK, Threading, Inv, LastCommandAgrees
<1>8. ~Warm => Counted(Threading, reg, on)
  BY DEF Counted, Threading, Inv, ColdStreamsOnlyVisible, StartedAreCounted,
     VisibleSenders
<1>9. QED BY <1>5, <1>6, <1>7, <1>8 DEF PassStart, PassVisible, Threading

\* The pipeline keeps its types whatever set_sources comes to.
LEMMA PipelineOK ==
  ASSUME TypeOK, NEW new \in [Slots -> Sources],
         SetPipelineSources(PipelineTarget(active, new))
  PROVE  shown' \in [Slots -> Sources] /\ playing' \in BOOLEAN
<1>1. PICK target : target = PipelineTarget(active, new)
  OBVIOUS
<1>2. target \in [Slots -> Sources]
  BY <1>1 DEF PipelineTarget, TypeOK
<1>3. SetPipelineSources(target)
  BY <1>1
<1>4. (shown' = shown \/ shown' = target)
      /\ (playing' = playing \/ playing' \in BOOLEAN)
  BY <1>3 DEF SetPipelineSources, pipelineVars
<1>5. QED BY <1>2, <1>4 DEF TypeOK

\* What every handler that ends in a reconcile hands to the pass: the slots it
\* leaves out show nobody who just went offline.
HandlerReady(slots) ==
  /\ slots \in SUBSET Slots
  /\ known' = known /\ online' \in SUBSET online
  /\ registered' \in SUBSET Senders /\ registered \subseteq registered'
  /\ sources' \in [Slots -> Sources]
  /\ \A s \in Slots : sources'[s] \in Senders => sources'[s] \in registered'
  /\ \A s \in Slots \ slots :
       sources'[s] = sources[s] /\ (active[s] \in Senders => active[s] \in online')
  /\ ReconcileWith(slots, sources', registered', online')

\* The threaded state such a handler ends in, with what the pass leaves.
Ended ==
  [active |-> active', streaming |-> streaming', stopped |-> stopped',
   sent |-> sent', last |-> lastCmd']

\* The pass of such a handler, from the invariant: it addresses nobody but
\* senders that were online before it.
LEMMA HandlerPass ==
  ASSUME Inv, NEW slots, HandlerReady(slots)
  PROVE  /\ Pass(Ended, Threading, registered', online, online')
         /\ SlotsOnline(Ended, Slots, online')
         /\ StoppedExact(Ended, registered', online')
         /\ SlotsTaken(Ended, Threading, slots, sources', registered', online')
         /\ PassSpares(Ended, Threading)
         /\ SetPipelineSources(PipelineTarget(active, active'))
<1>1. PICK sw : sw = Reconciled(Threading, slots, sources', registered', online')
  OBVIOUS
<1>2. /\ active' = sw.active /\ streaming' = sw.streaming
      /\ stopped' = sw.stopped /\ sent' = sw.sent /\ lastCmd' = sw.last
      /\ SetPipelineSources(PipelineTarget(active, sw.active))
  BY <1>1 DEF HandlerReady, ReconcileWith, Threading
<1>3. online' \in SUBSET online /\ online \in SUBSET Senders
  BY DEF HandlerReady, Inv, TypeOK
<1>4. PassStart(Threading, registered', online, online')
  BY <1>3, ThreadingOK DEF HandlerReady
<1>5. PassArgs(registered', online, online')
  BY <1>3 DEF HandlerReady, PassArgs
<1>6. \A s \in Slots : s \in slots => TurnArgs(s, sources'[s], registered')
  BY DEF HandlerReady, TurnArgs
<1>7. PassReady(Threading, slots, sources', registered', online')
  BY <1>6 DEF HandlerReady, PassReady, Threading
<1>8. /\ Pass(sw, Threading, registered', online, online')
      /\ SlotsOnline(sw, Slots, online') /\ StoppedExact(sw, registered', online')
      /\ SlotsTaken(sw, Threading, slots, sources', registered', online')
      /\ PassSpares(sw, Threading)
  BY <1>1, <1>4, <1>5, <1>7, ReconciledOK
<1>9. sw \in Threaded
  BY <1>8 DEF Pass, PassOK
<1>10. Ended = sw
  BY <1>2, <1>9 DEF Ended, Threaded
<1>11. QED BY <1>2, <1>8, <1>10

\* A handler that ends in a reconcile establishes the invariant.
LEMMA HandlerOK ==
  ASSUME Inv, NEW slots, HandlerReady(slots)
  PROVE  Inv'
<1>1. /\ PassOK(Ended, registered', online) /\ PassVisible(Ended, Slots, online')
      /\ Counted(Ended, registered', online')
      /\ SlotsOnline(Ended, Slots, online')
      /\ SlotsTaken(Ended, Threading, slots, sources', registered', online')
      /\ SetPipelineSources(PipelineTarget(active, active'))
  BY HandlerPass DEF Pass
<1>2. Ended \in Threaded
  BY <1>1 DEF PassOK
<1>3. /\ Ended.active = active' /\ Ended.streaming = streaming'
      /\ Ended.stopped = stopped' /\ Ended.sent = sent' /\ Ended.last = lastCmd'
  BY DEF Ended
<1> HIDE DEF Ended
<1>4. /\ online' \in SUBSET known /\ known \in SUBSET Senders
      /\ online \in SUBSET known
  BY DEF HandlerReady, Inv, TypeOK
<1>5. TypeOK'
  <2>1. active' \in [Slots -> Sources]
    BY <1>2, <1>3 DEF Threaded
  <2>2. shown' \in [Slots -> Sources] /\ playing' \in BOOLEAN
    BY <1>1, <2>1, PipelineOK DEF Inv
  <2>3. QED BY <1>1, <1>2, <1>3, <1>4, <2>2
            DEF HandlerReady, TypeOK, PassOK, Threaded
<1>6. LastCommandAgrees'
  BY <1>1, <1>3 DEF LastCommandAgrees, PassOK
<1>7. WarmNeverStops'
  BY <1>1, <1>3 DEF WarmNeverStops, PassOK
<1>8. VisibleIsStreaming'
  BY <1>1, <1>3
     DEF VisibleIsStreaming, VisibleSenders, PassOK, PassVisible, SlotsOnline
<1>9. ColdStreamsOnlyVisible' /\ StartedAreCounted'
  BY <1>1, <1>2, <1>3
     DEF Counted, ColdStreamsOnlyVisible, StartedAreCounted, VisibleSenders, Threaded
<1>10. CommandsReachKnown'
  BY <1>1, <1>3 DEF HandlerReady, CommandsReachKnown, PassOK, Inv, TypeOK
<1>11. ActiveFollows'
  BY <1>1, <1>3
     DEF SlotsTaken, NextActiveForSlot, Threading, ActiveFollows, HandlerReady, Inv
<1>12. QED BY <1>5, <1>6, <1>7, <1>8, <1>9, <1>10, <1>11 DEF Inv

\* The three handlers that end in a reconcile hand it what it asks for.
LEMMA TickReady ==
  ASSUME Inv, NEW lost \in SUBSET online, Tick(lost)
  PROVE  HandlerReady(Slots)
  BY DEF HandlerReady, Tick, Inv, TypeOK

LEMMA SetSourceReady ==
  ASSUME Inv, NEW slot \in Slots, NEW src \in Sources, SetSource(slot, src)
  PROVE  HandlerReady({slot})
<1>1. \A s \in Slots \ {slot} : active[s] \in Senders => active[s] \in online'
  BY DEF SetSource, Inv, VisibleIsStreaming, VisibleSenders
<1>2. QED BY <1>1 DEF HandlerReady, SetSource, Inv, TypeOK

LEMMA SetSourcesReady ==
  ASSUME Inv, NEW requested \in [Slots -> Sources], SetSources(requested)
  PROVE  HandlerReady(Slots)
  BY DEF HandlerReady, SetSources, Inv, TypeOK

-----------------------------------------------------------------------------

LEMMA InitInv == Init => Inv
<1> SUFFICES ASSUME Init PROVE Inv
  OBVIOUS
<1>1. FirstActive \in [Slots -> Sources] /\ ConstructedShown \in [Slots -> Sources]
      /\ \A s \in Slots : FirstActive[s] \notin Senders
  BY SwitcherAssumption DEF FirstActive, ConstructedShown, Sources
<1>2. NoCommands \in [Senders -> Seq(Commands)]
      /\ \A a \in Senders : NoCommands[a] = <<>>
  BY DEF NoCommands
<1>3. lastCmd \in [Senders -> Commands \cup {"none"}]
  BY DEF Init
<1>4. shown \in [Slots -> Sources]
  BY <1>1 DEF Init, FirstShown
<1>5. TypeOK
  BY <1>1, <1>2, <1>3, <1>4, SwitcherAssumption DEF Init, TypeOK
<1>6. VisibleSenders = {}
  BY <1>1 DEF Init, VisibleSenders
<1>7. QED
  BY <1>2, <1>5, <1>6 DEF Init, Inv, LastCommandAgrees, VisibleIsStreaming,
     ActiveFollows, FirstActive, ColdStreamsOnlyVisible, StartedAreCounted,
     WarmNeverStops, CommandsReachKnown

\* One step per action; Hear and Connect only let a sender in, the other
\* three end in a reconcile.
LEMMA NextInv == Inv /\ [Next]_vars => Inv'
<1> SUFFICES ASSUME Inv, [Next]_vars PROVE Inv'
  OBVIOUS
<1>0. NoCommands \in [Senders -> Seq(Commands)]
      /\ \A a \in Senders : NoCommands[a] = <<>>
  BY DEF NoCommands
<1>1. ASSUME NEW a \in Senders, Hear(a) PROVE Inv'
  <2>1. TypeOK'
    BY <1>0, <1>1 DEF Hear, Inv, TypeOK, switcherVars, pipelineVars
  <2>2. VisibleIsStreaming'
    BY <1>1 DEF Hear, Inv, VisibleIsStreaming, VisibleSenders, switcherVars
  <2>3. QED
    BY <1>0, <1>1, <2>1, <2>2 DEF Hear, Inv, LastCommandAgrees, switcherVars,
       ActiveFollows, ColdStreamsOnlyVisible, StartedAreCounted,
       VisibleSenders, WarmNeverStops, CommandsReachKnown
<1>2. ASSUME NEW a \in Senders, Connect(a) PROVE Inv'
  <2>1. TypeOK'
    BY <1>0, <1>2 DEF Connect, Inv, TypeOK, pipelineVars
  <2>2. VisibleIsStreaming'
    BY <1>2 DEF Connect, Inv, VisibleIsStreaming, VisibleSenders
  <2>3. QED
    BY <1>0, <1>2, <2>1, <2>2 DEF Connect, Inv, LastCommandAgrees,
       ActiveFollows, ColdStreamsOnlyVisible, StartedAreCounted,
       VisibleSenders, WarmNeverStops, CommandsReachKnown
<1>3. ASSUME NEW lost \in SUBSET online, Tick(lost) PROVE Inv'
  BY <1>3, TickReady, HandlerOK
<1>4. ASSUME NEW slot \in Slots, NEW src \in Sources, SetSource(slot, src)
      PROVE  Inv'
  BY <1>4, SetSourceReady, HandlerOK
<1>5. ASSUME NEW requested \in [Slots -> Sources], SetSources(requested)
      PROVE  Inv'
  BY <1>5, SetSourcesReady, HandlerOK
<1>6. CASE UNCHANGED vars
  BY <1>6 DEF vars, switcherVars, controllerVars, pipelineVars, Inv, TypeOK,
     LastCommandAgrees, VisibleIsStreaming, VisibleSenders,
     ActiveFollows, ColdStreamsOnlyVisible, StartedAreCounted,
     WarmNeverStops, CommandsReachKnown
<1>7. QED BY <1>1, <1>2, <1>3, <1>4, <1>5, <1>6 DEF Next

\* The invariant holds of every behaviour of the switcher.
THEOREM SwitcherInvariant == Spec => []Inv
  BY InitInv, NextInv, PTL DEF Spec

\* Every variable keeps its type, for every set of senders.
THEOREM TypeCorrect == Spec => []TypeOK
<1>1. Inv => TypeOK BY DEF Inv
<1>2. QED BY <1>1, SwitcherInvariant, PTL

\* The switcher's two sets always agree with the last commands sent.
THEOREM LastCommandCorrect == Spec => []LastCommandAgrees
<1>1. Inv => LastCommandAgrees BY DEF Inv
<1>2. QED BY <1>1, SwitcherInvariant, PTL

\* A remote source is in a slot only while its sender is online and was asked to
\* stream, and the cold policy counts nobody as streaming who is not visible.
THEOREM StreamsCorrect == Spec => []StreamsFollowSlots
<1>1. Inv => StreamsFollowSlots BY DEF Inv, StreamsFollowSlots
<1>2. QED BY <1>1, SwitcherInvariant, PTL

\* No reconcile commands a sender the Controller has not heard of, so none
\* ends the tick loop with a ControllerError.
THEOREM CommandsCorrect == Spec => []CommandsReachKnown
<1>1. Inv => CommandsReachKnown BY DEF Inv
<1>2. QED BY <1>1, SwitcherInvariant, PTL

\* Cold policy: the senders reported as transmitting are exactly those the
\* switcher keeps streaming.
THEOREM ReportCorrect == Spec => []ReportMatchesStreams
<1>1. Inv => ReportMatchesStreams
  BY DEF Inv, LastCommandAgrees, StartedAreCounted, VisibleIsStreaming, TypeOK,
     ColdStreamsOnlyVisible, ReportMatchesStreams, ReportedTransmitting
<1>2. QED BY <1>1, SwitcherInvariant, PTL

\* Warm policy: no sender is ever told to stop, whatever the slots show.
THEOREM WarmCorrect == Spec => []WarmNeverStops
<1>1. Inv => WarmNeverStops BY DEF Inv
<1>2. QED BY <1>1, SwitcherInvariant, PTL

\* What the pipeline is set to show: what active_sources says (a live selector
\* switch), or at least not the one local camera twice (rebuild mode).
ShownRight == (Selector => PipelineShowsActive) /\ OneLocalCamera

\* A request to the pipeline keeps it so.
LEMMA ShownStaysRight ==
  ASSUME Inv, ShownRight, active' \in [Slots -> Sources],
         SetPipelineSources(PipelineTarget(active, active'))
  PROVE  ShownRight'
<1>1. PICK target : target = PipelineTarget(active, active')
  OBVIOUS
<1>2. /\ shown' = target \/ (~Selector /\ shown' = shown)
      /\ ~Selector => shown' = shown \/ \E s \in Slots : target[s] # Local
  BY <1>1 DEF SetPipelineSources, pipelineVars
<1>3. Selector => shown' = active'
  BY <1>1, <1>2 DEF PipelineTarget, ShownRight, PipelineShowsActive, Inv, TypeOK
<1>4. ~Selector => \E s \in Slots : shown'[s] # Local
  BY <1>2 DEF ShownRight, OneLocalCamera
<1>5. QED BY <1>3, <1>4 DEF ShownRight, PipelineShowsActive, OneLocalCamera

\* The compositor of a selector pipeline never falls out of step with
\* active_sources, and a rebuild pipeline never opens the camera twice.
THEOREM ShownCorrect == Spec => []ShownRight
<1>1. Init => ShownRight
  <2>1. Empty # Local
    BY SwitcherAssumption
  <2>2. 0 \in Slots /\ 1 \in Slots
    BY DEF Slots
  <2>3. QED BY <2>1, <2>2 DEF Init, ShownRight, PipelineShowsActive, OneLocalCamera,
               ConstructedShown, FirstShown, FirstActive
<1>2. Inv /\ ShownRight /\ [Next]_vars => ShownRight'
  <2> SUFFICES ASSUME Inv, ShownRight, [Next]_vars PROVE ShownRight'
    OBVIOUS
  <2>1. active' \in [Slots -> Sources]
    BY NextInv DEF Inv, TypeOK
  <2>2. CASE active' = active /\ shown' = shown
    BY <2>2 DEF ShownRight, PipelineShowsActive, OneLocalCamera
  <2>3. ASSUME NEW slots, HandlerReady(slots) PROVE ShownRight'
    BY <2>1, <2>3, HandlerPass, ShownStaysRight
  <2>4. ASSUME NEW a \in Senders, Hear(a) \/ Connect(a) PROVE ShownRight'
    BY <2>2, <2>4 DEF Hear, Connect, switcherVars, pipelineVars
  <2>5. CASE UNCHANGED vars
    BY <2>2, <2>5 DEF vars, switcherVars, pipelineVars
  <2>6. QED
    BY <2>3, <2>4, <2>5, TickReady, SetSourceReady, SetSourcesReady DEF Next
<1>3. QED BY <1>1, <1>2, SwitcherInvariant, PTL DEF Spec

\* A request to the pipeline leaves the picture behind the books by the local
\* camera only: it is refused only when every slot it would change is to show
\* that camera, and what it would not change was behind by nothing else.
LEMMA PictureStays ==
  ASSUME Inv, PictureFollows, active' \in [Slots -> Sources],
         SetPipelineSources(PipelineTarget(active, active'))
  PROVE  PictureFollows'
<1>1. PICK target : target = PipelineTarget(active, active')
  OBVIOUS
<1>2. \/ shown' = target
      \/ shown' = shown /\ \A s \in Slots : target[s] = Local
  BY <1>1 DEF SetPipelineSources, pipelineVars
<1>3. \A s \in Slots : target[s] = IF active'[s] # active[s] THEN active'[s]
                                   ELSE shown[s]
  BY <1>1 DEF PipelineTarget
<1>4. QED BY <1>2, <1>3 DEF PictureFollows

\* The picture never falls behind the books by more than the local camera, in
\* both switch modes and whatever was refused or failed to start before.
THEOREM PictureCorrect == Spec => []PictureFollows
<1>1. Init => PictureFollows
  BY SwitcherAssumption DEF Init, PictureFollows, FirstShown, ConstructedShown
<1>2. Inv /\ PictureFollows /\ [Next]_vars => PictureFollows'
  <2> SUFFICES ASSUME Inv, PictureFollows, [Next]_vars PROVE PictureFollows'
    OBVIOUS
  <2>1. active' \in [Slots -> Sources]
    BY NextInv DEF Inv, TypeOK
  <2>2. CASE active' = active /\ shown' = shown
    BY <2>2 DEF PictureFollows
  <2>3. ASSUME NEW slots, HandlerReady(slots) PROVE PictureFollows'
    BY <2>1, <2>3, HandlerPass, PictureStays
  <2>4. ASSUME NEW a \in Senders, Hear(a) \/ Connect(a) PROVE PictureFollows'
    BY <2>2, <2>4 DEF Hear, Connect, switcherVars, pipelineVars
  <2>5. CASE UNCHANGED vars
    BY <2>2, <2>5 DEF vars, switcherVars, pipelineVars
  <2>6. QED
    BY <2>3, <2>4, <2>5, TickReady, SetSourceReady, SetSourcesReady DEF Next
<1>3. QED BY <1>1, <1>2, SwitcherInvariant, PTL DEF Spec

-----------------------------------------------------------------------------

\* A pass never begins by telling a sender it accounts for what it was last
\* told, so neither does a handler.
LEMMA HandlerNotRedundant ==
  ASSUME Inv, NEW slots, HandlerReady(slots), NEW a \in streaming \cup stopped,
         sent'[a] # <<>>
  PROVE  Head(sent'[a]) # lastCmd[a]
<1>1. ToldOK(Ended, Threading, online')
  BY HandlerPass DEF Pass
<1>2. a \in Senders
  BY DEF Inv, TypeOK
<1>3. /\ a \in streaming => Head(sent'[a]) = "STOP" /\ lastCmd[a] = "START"
      /\ a \in stopped => Head(sent'[a]) = "START" /\ lastCmd[a] = "STOP"
  BY <1>1, <1>2 DEF ToldOK, Ended, Threading, Inv, LastCommandAgrees
<1>4. QED BY <1>3

\* What no step does.
NotRedundant ==
  \A a \in streaming \cup stopped : sent'[a] # <<>> => Head(sent'[a]) # lastCmd[a]

\* A sender the switcher accounts for is never sent what it was last sent.
THEOREM NotRedundantCorrect == Spec => NoRedundantCommand
<1>1. Inv /\ [Next]_vars => [NotRedundant]_vars
  <2> SUFFICES ASSUME Inv, Next PROVE NotRedundant
    OBVIOUS
  <2>1. ASSUME NEW a \in Senders, Hear(a) \/ Connect(a) PROVE NotRedundant
    BY <2>1 DEF Hear, Connect, NoCommands, NotRedundant, Inv, TypeOK
  <2>2. ASSUME NEW lost \in SUBSET online, Tick(lost) PROVE NotRedundant
    BY <2>2, TickReady, HandlerNotRedundant DEF NotRedundant
  <2>3. ASSUME NEW slot \in Slots, NEW src \in Sources, SetSource(slot, src)
        PROVE  NotRedundant
    BY <2>3, SetSourceReady, HandlerNotRedundant DEF NotRedundant
  <2>4. ASSUME NEW requested \in [Slots -> Sources], SetSources(requested)
        PROVE  NotRedundant
    BY <2>4, SetSourcesReady, HandlerNotRedundant DEF NotRedundant
  <2>5. QED BY <2>1, <2>2, <2>3, <2>4 DEF Next
<1>2. QED BY <1>1, SwitcherInvariant, PTL DEF Spec, NoRedundantCommand, NotRedundant

\* A tick leaves every slot with the source desired for it, or with nothing while
\* that is a sender which is not online, and exactly the streams the policy wants:
\* no step that leaves anything else is a tick.
THEOREM TickCorrect == Spec => TickSettles
<1>1. Inv /\ [Next]_vars => [Settles]_vars
  <2> SUFFICES ASSUME Inv, Inv', NEW lost \in SUBSET online, Tick(lost)
               PROVE  AsDesired' /\ AsPolicyWants'
    BY NextInv DEF Settles, Next
  <2>1. HandlerReady(Slots) /\ registered' = registered
    BY TickReady DEF Tick
  <2>2. /\ Warm => streaming' = registered' \cap online'
        /\ ~Warm => stopped' = (registered' \cap online') \ {active'[s] : s \in Slots}
    BY <2>1, HandlerPass DEF Pass, Counted, StoppedExact, Ended
  <2>3. ~Warm => streaming' = VisibleSenders'
    BY DEF Inv, VisibleIsStreaming, ColdStreamsOnlyVisible
  <2>4. AsPolicyWants'
    BY <2>2, <2>3 DEF AsPolicyWants, VisibleSenders, Inv, TypeOK
  <2>5. \A s \in Slots :
          active'[s] = NextActiveForSlot(sources'[s], registered', online')
    BY <2>1, HandlerPass DEF SlotsTaken, Ended
  <2>6. \A s \in Slots :
          sources'[s] \in registered' \ online' <=> sources'[s] \in Senders \ online'
    BY DEF Inv, TypeOK
  <2>7. AsDesired'
    BY <2>5, <2>6 DEF AsDesired, NextActiveForSlot
  <2>8. QED BY <2>4, <2>7
<1>2. QED BY <1>1, SwitcherInvariant, PTL DEF Spec, TickSettles

-----------------------------------------------------------------------------
(* The bench control server: the invariant of the switcher holds of what   *)
(* its commands and its task do, and the task's place is within its list.  *)

TaskOK ==
  /\ task \in [verb : {"none", "cycle", "rotate"}, slot : Slots, list : Seq(Sources),
               idx : Nat, runs : BOOLEAN]
  /\ task.runs => task.idx < Len(task.list) /\ task.verb # "none"

BenchInv == Inv /\ TaskOK /\ BenchTypeOK

\* Places in a list of n, counted around.
LEMMA Within ==
  ASSUME NEW n \in Nat, n >= 1, NEW i \in Nat
  PROVE  i % n \in 0 .. (n - 1)
  OBVIOUS

LEMMA NotAround ==
  ASSUME NEW n \in Nat, n >= 1, NEW i \in Nat, i < n
  PROVE  i % n = i
  OBVIOUS

LEMMA Around ==
  ASSUME NEW n \in Nat, n >= 1, NEW i \in Nat, i < n
  PROVE  (i + n) % n = i
  OBVIOUS

\* What the list holds is a source, so a rotation asks for sources.
LEMMA PlaceOK ==
  ASSUME NEW list \in Seq(Sources), list # <<>>, NEW i \in Nat
  PROVE  At(list, i) \in Sources /\ Rotation(list, i) \in [Slots -> Sources]
<1>1. Len(list) \in Nat /\ Len(list) >= 1
  OBVIOUS
<1>2. ASSUME NEW k \in Nat PROVE At(list, k) \in Sources
  <2>1. k % Len(list) \in 0 .. (Len(list) - 1)
    BY <1>1, Within
  <2>2. 1 + (k % Len(list)) \in 1 .. Len(list)
    BY <1>1, <2>1
  <2>3. QED BY <2>2 DEF At
<1>3. \A s \in Slots : At(list, i + s) \in Sources
  BY <1>2 DEF Slots
<1>4. QED BY <1>2, <1>3 DEF Rotation

\* From one turn to the next, PIP becomes main and nothing else of the picture
\* is kept.
OnlyPipStays(was, next) ==
  was[1] = next[0] /\ was[0] # next[0] /\ was[0] # next[1] /\ was[1] # next[1]

LEMMA RotationTurns ==
  ASSUME NEW list \in Seq(Sources), Varied(list), NEW i \in Nat, i < Len(list)
  PROVE  OnlyPipStays(Rotation(list, i + Len(list) - 1), Rotation(list, i))
<1>1. PICK n : n = Len(list)
  OBVIOUS
<1>2. n \in Nat /\ n >= 3
  BY <1>1 DEF Varied
<1>3. \A j, k \in 1 .. n : list[j] = list[k] => j = k
  BY <1>1 DEF Varied
<1>4. PICK before : before = (i + n - 1) % n
  OBVIOUS
<1>5. PICK after : after = (i + 1) % n
  OBVIOUS
<1>6. before = IF i = 0 THEN n - 1 ELSE i - 1
  <2>1. CASE i = 0
    <3>1. n - 1 \in Nat /\ n - 1 < n /\ i + n - 1 = n - 1
      BY <1>2, <2>1
    <3>2. (n - 1) % n = n - 1
      BY <1>2, <3>1, NotAround
    <3>3. QED BY <1>4, <2>1, <3>1, <3>2
  <2>2. CASE i # 0
    <3>1. PICK k \in Nat : k = i - 1
      BY <2>2
    <3>2. k < n /\ i + n - 1 = k + n
      BY <1>1, <1>2, <3>1
    <3>3. (k + n) % n = k
      BY <1>2, <3>2, Around
    <3>4. QED BY <1>4, <2>2, <3>1, <3>2, <3>3
  <2>3. QED BY <2>1, <2>2
<1>7. after = IF i = n - 1 THEN 0 ELSE i + 1
  <2>1. CASE i = n - 1
    <3>1. i + 1 = 0 + n
      BY <1>2, <2>1
    <3>2. (0 + n) % n = 0
      BY <1>2, Around
    <3>3. QED BY <1>5, <2>1, <3>1, <3>2
  <2>2. CASE i # n - 1
    <3>1. PICK k \in Nat : k = i + 1
      OBVIOUS
    <3>2. k < n
      BY <1>1, <1>2, <2>2, <3>1
    <3>3. k % n = k
      BY <1>2, <3>2, NotAround
    <3>4. QED BY <1>5, <2>2, <3>1, <3>3
  <2>3. QED BY <2>1, <2>2
<1>8. (i + n - 1 + 1) % n = i /\ (i + 0) % n = i
  <2>1. i + n - 1 + 1 = i + n /\ i + 0 = i
    BY <1>2
  <2>2. (i + n) % n = i
    BY <1>1, <1>2, Around
  <2>3. i % n = i
    BY <1>1, <1>2, NotAround
  <2>4. QED BY <2>1, <2>2, <2>3
<1>9. PICK was : was = Rotation(list, i + n - 1)
  OBVIOUS
<1>10. PICK next : next = Rotation(list, i)
  OBVIOUS
<1>11. was[0] = list[1 + before]
  <2>1. i + n - 1 + 0 = i + n - 1
    BY <1>2
  <2>2. QED BY <1>1, <1>4, <1>9, <2>1 DEF Rotation, At, Slots
<1>12. was[1] = list[1 + i]
  BY <1>1, <1>8, <1>9 DEF Rotation, At, Slots
<1>13. next[0] = list[1 + i]
  BY <1>1, <1>8, <1>10 DEF Rotation, At, Slots
<1>14. next[1] = list[1 + after]
  BY <1>1, <1>5, <1>10 DEF Rotation, At, Slots
<1>15. 1 + before \in 1 .. n /\ 1 + i \in 1 .. n /\ 1 + after \in 1 .. n
  BY <1>1, <1>2, <1>6, <1>7
<1>16. OnlyPipStays(was, next)
  <2>1. /\ list[1 + before] # list[1 + i]
        /\ list[1 + before] # list[1 + after]
        /\ list[1 + i] # list[1 + after]
    <3>1. /\ 1 + before # 1 + i /\ 1 + before # 1 + after /\ 1 + i # 1 + after
      BY <1>1, <1>2, <1>6, <1>7
    <3>2. QED BY <1>3, <1>15, <3>1
  <2>2. QED BY <1>11, <1>12, <1>13, <1>14, <2>1 DEF OnlyPipStays
<1>17. QED BY <1>1, <1>9, <1>10, <1>16

\* A command that leaves the switcher alone keeps its invariant.
LEMMA UnswitchedInv == Inv /\ Unswitched => Inv'
<1> SUFFICES ASSUME Inv, Unswitched PROVE Inv'
  OBVIOUS
<1>1. NoCommands \in [Senders -> Seq(Commands)]
      /\ \A a \in Senders : NoCommands[a] = <<>>
  BY DEF NoCommands
<1>2. TypeOK'
  BY <1>1 DEF Unswitched, switcherVars, pipelineVars, Inv, TypeOK
<1>3. QED
  BY <1>1, <1>2 DEF Unswitched, switcherVars, pipelineVars, Inv, LastCommandAgrees,
     VisibleIsStreaming, VisibleSenders, ActiveFollows, ColdStreamsOnlyVisible,
     StartedAreCounted, WarmNeverStops, CommandsReachKnown

\* A turn of the task is a request to the switcher it can meet.
LEMMA StepReady ==
  ASSUME Inv, TaskOK, Step
  PROVE  /\ \/ \E slot \in Slots, src \in Sources : SetSource(slot, src)
            \/ \E requested \in [Slots -> Sources] : SetSources(requested)
         /\ TaskOK'
<1>1. /\ task.list \in Seq(Sources) /\ task.idx \in Nat /\ task.slot \in Slots
      /\ task.idx < Len(task.list)
  BY DEF TaskOK, Step
<1>2. PICK list \in Seq(Sources) : list = task.list
  BY <1>1
<1>3. PICK i \in Nat : i = task.idx
  BY <1>1
<1>4. list # <<>> /\ Len(list) \in Nat /\ Len(list) >= 1
  BY <1>1, <1>2, <1>3
<1>5. At(list, i) \in Sources /\ Rotation(list, i) \in [Slots -> Sources]
  BY <1>4, PlaceOK
<1>6. \/ SetSource(task.slot, At(list, i)) \/ SetSources(Rotation(list, i))
  BY <1>2, <1>3 DEF Step
<1>7. TaskOK'
  <2>1. PICK next : next = (i + 1) % Len(list)
    OBVIOUS
  <2>2. i + 1 \in Nat
    OBVIOUS
  <2>3. next \in 0 .. (Len(list) - 1)
    BY <1>4, <2>1, <2>2, Within
  <2>4. PICK going \in BOOLEAN : going = ~Raised
    OBVIOUS
  <2>5. task' = [task EXCEPT !.idx = next, !.runs = going]
    BY <1>2, <1>3, <2>1, <2>4 DEF Step
  <2>6. task'.list = list /\ task'.idx = next /\ task'.verb = task.verb
    BY <1>2, <2>5 DEF TaskOK
  <2>7. next \in Nat /\ next < Len(list)
    BY <1>4, <2>3
  <2>8. QED BY <2>5, <2>6, <2>7 DEF TaskOK, Step
<1>8. QED BY <1>1, <1>5, <1>6, <1>7

LEMMA BenchInitInv == BenchInit => BenchInv
<1>1. task = NoTask /\ reply = "none" /\ commands = 0 => TaskOK /\ BenchTypeOK
  BY BenchAssumption DEF TaskOK, BenchTypeOK, NoTask, Replies, Slots
<1>2. QED BY <1>1, InitInv DEF BenchInit, BenchInv

\* One step per action: a command line, a turn of the task, or what else runs.
LEMMA BenchNextInv == BenchInv /\ [BenchNext]_allVars => BenchInv'
<1> SUFFICES ASSUME BenchInv, [BenchNext]_allVars PROVE BenchInv'
  OBVIOUS
<1>0. Inv /\ TaskOK /\ reply \in Replies /\ commands \in 0 .. MaxCommands
  BY DEF BenchInv, BenchTypeOK
<1>1. ASSUME Line PROVE commands' \in 0 .. MaxCommands
  BY <1>0, <1>1, BenchAssumption DEF Line
<1>2. TaskOK' /\ reply' \in Replies /\ commands' \in 0 .. MaxCommands => BenchTypeOK'
  <2> SUFFICES ASSUME TaskOK', reply' \in Replies, commands' \in 0 .. MaxCommands
               PROVE  BenchTypeOK'
    OBVIOUS
  <2>1. task'.list \in Seq(Sources) /\ task'.idx \in Nat
        /\ task'.verb \in {"none", "cycle", "rotate"}
    BY DEF TaskOK
  <2>2. \A i \in DOMAIN task'.list : task'.list[i] \in Sources
    BY <2>1
  <2>3. task'.runs => task'.idx \in 0 .. (Len(task'.list) - 1)
                      /\ task'.verb \in {"cycle", "rotate"}
    BY <2>1 DEF TaskOK
  <2>4. QED BY <2>2, <2>3 DEF BenchTypeOK
<1>3. CASE Answered
  BY <1>0, <1>1, <1>2, <1>3, UnswitchedInv DEF Answered, BenchInv, TaskOK, Replies
<1>4. CASE StopCycle
  <2>1. TaskOK'
    BY <1>4 DEF StopCycle, TaskOK, NoTask, Slots
  <2>2. QED BY <1>0, <1>1, <1>2, <1>4, <2>1, UnswitchedInv DEF StopCycle, BenchInv, Replies
<1>5. CASE Step
  <2>1. TaskOK' /\ [Next]_vars
    BY <1>0, <1>5, StepReady DEF Next
  <2>2. QED BY <1>0, <1>2, <1>5, <2>1, NextInv DEF Step, BenchInv
<1>6. CASE Other
  <2>1. [Next]_vars
    BY <1>6 DEF Other, Next
  <2>2. TaskOK' /\ reply' \in Replies /\ commands' \in 0 .. MaxCommands
    BY <1>0, <1>6 DEF Other, benchVars, TaskOK
  <2>3. QED BY <1>0, <1>2, <2>1, <2>2, NextInv DEF BenchInv
<1>7. ASSUME NEW slot \in Slots, NEW src \in Sources, Source(slot, src)
      PROVE  BenchInv'
  <2>1. [Next]_vars
    BY <1>7 DEF Source, Next
  <2>2. TaskOK' /\ reply' \in Replies /\ commands' \in 0 .. MaxCommands
    BY <1>0, <1>1, <1>7 DEF Source, TaskOK, Replies
  <2>3. QED BY <1>0, <1>2, <2>1, <2>2, NextInv DEF BenchInv
<1>8. ASSUME NEW verb \in {"cycle", "rotate"}, NEW slot \in Slots, NEW list \in Lists,
             Begin(verb, slot, list)
      PROVE  BenchInv'
  <2>1. list \in Seq(Sources) /\ list # <<>>
    BY BenchAssumption
  <2>2. Len(list) \in Nat /\ 0 < Len(list)
    BY <2>1
  <2>3. TaskOK'
    BY <1>8, <2>1, <2>2 DEF Begin, TaskOK
  <2>4. QED BY <1>0, <1>1, <1>2, <1>8, <2>3, UnswitchedInv DEF Begin, BenchInv, Replies
<1>9. ASSUME NEW slot \in Slots, NEW src \in Sources, FlightComputer(slot, src)
      PROVE  BenchInv'
  <2>1. [Next]_vars
    BY <1>9 DEF FlightComputer, Next
  <2>2. TaskOK' /\ reply' \in Replies /\ commands' \in 0 .. MaxCommands
    BY <1>0, <1>9 DEF FlightComputer, benchVars, TaskOK
  <2>3. QED BY <1>0, <1>2, <2>1, <2>2, NextInv DEF BenchInv
<1>10. CASE UNCHANGED allVars
  <2>1. [Next]_vars /\ UNCHANGED benchVars
    BY <1>10 DEF allVars
  <2>2. TaskOK' /\ reply' \in Replies /\ commands' \in 0 .. MaxCommands
    BY <1>0, <2>1 DEF benchVars, TaskOK
  <2>3. QED BY <1>0, <1>2, <2>1, <2>2, NextInv DEF BenchInv
<1>11. QED
  <2>1. 0 \in Slots
    BY DEF Slots
  <2>2. QED BY <1>3, <1>4, <1>5, <1>6, <1>7, <1>8, <1>9, <1>10, <2>1 DEF BenchNext

LEMMA BenchInvariant == BenchSpec => []BenchInv
  BY BenchInitInv, BenchNextInv, PTL DEF BenchSpec

\* The task is always at a place of its list, whatever list it was given and
\* however long it has gone around.
THEOREM BenchTypeCorrect == BenchSpec => []BenchTypeOK
<1>1. BenchInv => BenchTypeOK BY DEF BenchInv
<1>2. QED BY <1>1, BenchInvariant, PTL

\* A step that ends in a pass stops a sender it finds and leaves in the picture
\* only when that goes from main to PIP.
LEMMA HandlerKeeps ==
  ASSUME Inv, NEW slots, HandlerReady(slots),
         NEW a \in VisibleSenders \cap VisibleSenders', ToldStop(a)
  PROVE  active[0] = a /\ active'[1] = a
<1>1. PassSpares(Ended, Threading) /\ Ended \in Threaded
  BY HandlerPass DEF Pass, PassOK
<1>2. /\ a \in Senders /\ (a = active[0] \/ a = active[1])
      /\ a = active'[0] \/ a = active'[1]
  BY DEF VisibleSenders, Slots
<1>3. NotToldStop(Threading, a)
  BY <1>2 DEF NotToldStop, Threading, NoCommands
<1>4. ~NotToldStop(Ended, a)
  <2>1. sent'[a] \in Seq(Commands)
    BY <1>1, <1>2 DEF Threaded, Ended
  <2>2. QED BY <2>1 DEF ToldStop, NotToldStop, Ended
<1>5. ~StaysShown(Ended, Threading, a)
  BY <1>1, <1>2, <1>3, <1>4 DEF PassSpares
<1>6. QED BY <1>2, <1>5 DEF StaysShown, Ended, Threading

\* In a turn of a rotation of three nothing goes from main to PIP, if main was
\* what the turn before asked for.
LEMMA TurnExchangesNothing ==
  ASSUME BenchInv, BenchInv', TurnOfThree, NEW a \in Senders
  PROVE  ~(active[0] = a /\ active'[1] = a)
<1>0. Inv /\ Inv' /\ TaskOK
  BY DEF BenchInv
<1>1. PICK list \in Seq(Sources) : list = task.list
  BY <1>0 DEF TaskOK
<1>2. PICK i \in Nat : i = task.idx
  BY <1>0 DEF TaskOK
<1>3. /\ i < Len(list) /\ Varied(list)
      /\ sources[0] = Rotation(list, i + Len(list) - 1)[0]
  BY <1>0, <1>1, <1>2 DEF TurnOfThree, Step, TaskOK
<1>4. Rotation(list, i + Len(list) - 1)[0] # Rotation(list, i)[1]
  BY <1>3, RotationTurns DEF OnlyPipStays
<1>5. sources' = Rotation(list, i)
  BY <1>1, <1>2 DEF TurnOfThree, Step, SetSources
<1>6. active[0] \in {sources[0], Empty} /\ active'[1] \in {sources'[1], Empty}
  BY <1>0 DEF Inv, ActiveFollows, Slots
<1>7. QED BY <1>3, <1>4, <1>5, <1>6, SwitcherAssumption

\* One step per action: what lets a sender in, and a command that leaves the
\* switcher alone, tells nobody anything, and all others end in a pass.
LEMMA BenchKeepsVisible ==
  ASSUME BenchInv, BenchInv', BenchNext,
         NEW a \in VisibleSenders \cap VisibleSenders', ToldStop(a)
  PROVE  active[0] = a /\ active'[1] = a
<1>0. Inv /\ TaskOK /\ a \in Senders
  BY DEF BenchInv, VisibleSenders
<1>1. sent' # NoCommands
  BY <1>0 DEF ToldStop, NoCommands
<1>2. CASE Answered \/ StopCycle
  BY <1>1, <1>2 DEF Answered, StopCycle, Unswitched
<1>3. CASE Step
  BY <1>0, <1>3, StepReady, SetSourceReady, SetSourcesReady, HandlerKeeps
<1>4. CASE Other
  <2>1. PICK lost \in SUBSET online : Tick(lost)
    BY <1>1, <1>4 DEF Other, Hear, Connect
  <2>2. QED BY <1>0, <2>1, TickReady, HandlerKeeps
<1>5. ASSUME NEW slot \in Slots, NEW src \in Sources,
             Source(slot, src) \/ FlightComputer(slot, src)
      PROVE  active[0] = a /\ active'[1] = a
  <2>1. SetSource(slot, src)
    BY <1>5 DEF Source, FlightComputer
  <2>2. QED BY <1>0, <2>1, SetSourceReady, HandlerKeeps
<1>6. ASSUME NEW verb, NEW slot, NEW list, Begin(verb, slot, list) PROVE FALSE
  BY <1>1, <1>6 DEF Begin, Unswitched
<1>7. QED BY <1>2, <1>3, <1>4, <1>5, <1>6 DEF BenchNext

\* Whoever asks for other sources, and whatever was lost or came back, a sender
\* that is in the picture before and after is stopped on the way only if it goes
\* from main to PIP; and a turn of a rotation of three stops none, if the picture
\* in main is still what the turn before asked for, or nothing.
THEOREM RotationCorrect == BenchSpec => RotationKeepsVisible
<1>1. BenchInv /\ BenchInv' /\ [BenchNext]_allVars => [KeepsVisible]_allVars
  <2> SUFFICES ASSUME BenchInv, BenchInv', BenchNext,
                      NEW a \in VisibleSenders \cap VisibleSenders', ToldStop(a)
               PROVE  active[0] = a /\ active'[1] = a /\ ~TurnOfThree
    BY DEF KeepsVisible
  <2>1. active[0] = a /\ active'[1] = a
    BY BenchKeepsVisible
  <2>2. QED BY <2>1, TurnExchangesNothing DEF VisibleSenders
<1>2. QED BY <1>1, BenchInvariant, PTL DEF BenchSpec, RotationKeepsVisible

=============================================================================
