----------------------------- MODULE BenchServer -----------------------------
(***************************************************************************)
(* The bench control server (arc/bench_server.py) on top of the source     *)
(* switching: commands from the localhost socket, one per connection, and  *)
(* the task behind "cycle" and "rotate", which goes on between them while  *)
(* ticks and frames of senders go on too.                                  *)
(*                                                                         *)
(* A command that execute refuses with ValueError changes nothing, like    *)
(* "status" and "help".                                                    *)
(***************************************************************************)
EXTENDS SourceSwitcher

CONSTANTS
  Lists,       \* the source lists given to "cycle" and "rotate"
  MaxCommands  \* bound: command lines received

\* _cycle and _rotate refuse a line without a source, _parse_source a source
\* that is none.
ASSUME BenchAssumption ==
  Lists \subseteq Seq(Sources) \ {<<>>} /\ MaxCommands \in Nat

VARIABLES
  task,     \* _cycle_task: NoTask, or what it goes through, and whether it still runs
  reply,    \* how the last command line was answered
  commands

benchVars == <<task, reply, commands>>
allVars == <<vars, benchVars>>

NoTask == [verb |-> "none", slot |-> 0, list |-> <<>>, idx |-> 0, runs |-> FALSE]
Replies == {"none", "OK", "ERR", "closed"}

\* A pass of the switcher ended with PipelineError: two local cameras in a
\* rebuild pipeline, or a pipeline that did not start again.
Raised ==
  LET new == PipelineTarget(active, active')
  IN  /\ ~Selector
      /\ \/ playing /\ ~playing'
         \/ shown # new /\ \A s \in Slots : new[s] = Local

Unswitched ==
  /\ sent' = NoCommands
  /\ UNCHANGED <<switcherVars, known, online, lastCmd, pipelineVars>>

-----------------------------------------------------------------------------
(* Command lines.                                                          *)

Line == commands < MaxCommands /\ commands' = commands + 1

\* status, help, a line refused; layout moves the pads of the compositor only.
Answered ==
  /\ Line /\ Unswitched
  /\ reply' \in {"OK", "ERR"}
  /\ UNCHANGED task

\* _source: execute lets PipelineError through, so that _handle closes the
\* connection without an answer.
Source(slot, src) ==
  /\ Line /\ SetSource(slot, src)
  /\ reply' = IF Raised THEN "closed" ELSE "OK"
  /\ UNCHANGED task

\* _cycle, _rotate: a running task is cancelled first.
Begin(verb, slot, list) ==
  /\ Line /\ Unswitched
  /\ task' = [verb |-> verb, slot |-> slot, list |-> list, idx |-> 0, runs |-> TRUE]
  /\ reply' = "OK"

StopCycle ==
  /\ Line /\ Unswitched
  /\ task' = NoTask /\ reply' = "OK"

-----------------------------------------------------------------------------
(* The task.                                                               *)

At(list, i) == list[1 + (i % Len(list))]

\* _rotate_once: main and the next one as picture in picture.
RotationLags(list, i) == [s \in Slots |-> IF s = 0 THEN At(list, i + 1) ELSE At(list, i)]
RotationShort(list, i) ==
  [s \in Slots |-> list[1 + ((i + s) % (Len(list) - 1))]]
Rotation(list, i) == [s \in Slots |-> At(list, i + s)]

\* One turn of _cycle_loop or _rotate_loop up to the sleep.  An exception of the
\* switcher ends the task, which nobody awaits.
Step ==
  /\ task.runs
  /\ \/ task.verb = "cycle" /\ SetSource(task.slot, At(task.list, task.idx))
     \/ task.verb = "rotate" /\ SetSources(Rotation(task.list, task.idx))
  /\ task' = [task EXCEPT !.idx = (@ + 1) % Len(task.list), !.runs = ~Raised]
  /\ UNCHANGED <<reply, commands>>

-----------------------------------------------------------------------------

BenchInit == Init /\ task = NoTask /\ reply = "none" /\ commands = 0

\* SET_SOURCE of the flight computer.  on_fc_video logs a PipelineError.
FlightComputer(slot, src) ==
  /\ SetSource(slot, src)
  /\ UNCHANGED benchVars

\* What else runs on the loop: frames of senders and ticks.
Other ==
  /\ \/ \E a \in Senders : Hear(a) \/ Connect(a)
     \/ \E lost \in SUBSET online : Tick(lost)
  /\ UNCHANGED benchVars

BenchNext ==
  \/ Answered \/ StopCycle \/ Step \/ Other
  \/ \E slot \in Slots, src \in Sources : Source(slot, src) \/ FlightComputer(slot, src)
  \/ \E slot \in Slots, list \in Lists : Begin("cycle", slot, list) \/ Begin("rotate", 0, list)

BenchSpec == BenchInit /\ [][BenchNext]_allVars

\* The loop sleeps for a finite interval, and wakes up: a running task goes on
\* to its next turn, whatever comes of the switch.
Turn ==
  /\ task.runs
  /\ task' \in {[task EXCEPT !.idx = (@ + 1) % Len(task.list), !.runs = b] : b \in BOOLEAN}
BenchFairness == WF_task(Turn)
FairBenchSpec == BenchSpec /\ BenchFairness

-----------------------------------------------------------------------------
(* Properties.                                                             *)

\* Types: the task's place is within its list.
BenchTypeOK ==
  /\ task.runs => task.idx \in 0..(Len(task.list) - 1) /\ task.verb \in {"cycle", "rotate"}
  /\ \A i \in DOMAIN task.list : task.list[i] \in Sources
  /\ reply \in Replies /\ commands \in 0..MaxCommands

\* "rotate three pictures through main, offscreen/rest, and PIP": while a
\* rotation runs every online sender of its list comes up as the main picture
\* again and again, whatever the ticks, frames and other requests for sources
\* in between do.
RotationShowsAll ==
  \A a \in Senders :
    <>[](task.verb = "rotate" /\ a \in online /\ \E i \in DOMAIN task.list : task.list[i] = a)
      => []<>(active[0] = a)

\* Three sources or more, none twice.
Varied(list) ==
  Len(list) >= 3 /\ \A i, j \in DOMAIN list : list[i] = list[j] => i = j

\* A sender that is in the picture before and after a step, whoever's, is told
\* to stop on the way only when it goes from main to PIP: slot 0 gives it up
\* before slot 1 asks for it.  A rotation of three never does that, as it goes
\* from PIP to main and then out, whatever was lost, came back or was asked for
\* as PIP since its last turn, as long as nobody else chose the main picture.
ToldStop(a) == \E i \in DOMAIN sent'[a] : sent'[a][i] = "STOP"
TurnOfThree ==
  /\ Step /\ task.verb = "rotate" /\ Varied(task.list)
  /\ sources[0] = Rotation(task.list, task.idx + Len(task.list) - 1)[0]
KeepsVisible ==
  \A a \in VisibleSenders \cap VisibleSenders' :
    ToldStop(a) => active[0] = a /\ active'[1] = a /\ ~TurnOfThree
RotationKeepsVisible == [][KeepsVisible]_allVars

\* "one-line-in / one-line-out": every command line gets an answer.
EveryLineAnswered == reply # "closed"

\* What was answered "OK cycling" goes on until it is stopped or replaced.
CycleGoesOn == task # NoTask => task.runs

=============================================================================
