------------------------------- MODULE MCTools -------------------------------
(* The tools beside the system for TLC, one part at a time:                  *)
(*   fetch    the script that fetches recordings (FetchRecordings)           *)
(*   smoke    the ground station's smoke test over a link that works, and    *)
(*   faulty   over one that loses, delays and reverts (GroundStation)        *)
(*   console  its console and the Controller's answers (Console)            *)
(*   hitl     the HITL bridge (HitlBridge)                                  *)
(*   ports    two ports of the fake nodes, three commands (FakeNode), and    *)
(*   nodes    the same while nodes and sessions are switched                 *)
(* The variables of the parts that do not run stay as they are.              *)
EXTENDS FetchRecordings, Tools

CONSTANTS r1, r2

VARIABLE part

gsVars == <<smoke, heardAny, heardMore, last, event, seq, cmdSeq, acks, wake, owed,
            acking, first, post, ble, up, flight, ground>>
fakeVars == <<active, session, addr, nextSeq, pending, typed, verdict, flying, fakeAcks,
              received, obeyed, known, used, emitted, switches>>
conVars == <<repl, pinged, sends, conAcks, conWake, conOwed, conUp, down, unacked, pongs,
             reached, printed, losses>>
hitlVars == <<hitl, clock, started, next, samples, alt, vel, reading, grounded, base, got,
              broken>>
toolsVars == <<part, vars, gsVars, fakeVars, conVars, hitlVars>>

Switched == INSTANCE FakeNode WITH
  Sessions <- {1, 2}, MaxCommands <- 2, MaxSeq <- 1, MaxSwitches <- 2, acks <- fakeAcks

ASSUME ToolsAssumed ==
  /\ Fake!FakeNodeAssumption /\ Switched!FakeNodeAssumption
  /\ Con!ConsoleAssumption /\ Hitl!HitlAssumption

ToolsInit ==
  /\ part \in {"fetch", "smoke", "faulty", "console", "hitl", "ports", "nodes"}
  /\ Init /\ Smoke!Init /\ Con!Init /\ Hitl!Init
  /\ IF part = "nodes" THEN Switched!Init
     ELSE Fake!Init /\ (part # "ports" => active = 1)

FetchStep ==
  part = "fetch" /\ Next /\ UNCHANGED <<part, gsVars, fakeVars, conVars, hitlVars>>
SmokeStep ==
  /\ part \in {"smoke", "faulty"}
  /\ Smoke!Steps \/ (part = "faulty" /\ Smoke!Faults)
  /\ UNCHANGED <<part, vars, fakeVars, conVars, hitlVars>>
FakeStep ==
  /\ (part = "ports" /\ Fake!Next) \/ (part = "nodes" /\ Switched!Next)
  /\ UNCHANGED <<part, vars, gsVars, conVars, hitlVars>>
ConsoleStep ==
  part = "console" /\ Con!Next /\ UNCHANGED <<part, vars, gsVars, fakeVars, hitlVars>>
HitlStep ==
  part = "hitl" /\ Hitl!Next /\ UNCHANGED <<part, vars, gsVars, fakeVars, conVars>>

ToolsNext == FetchStep \/ SmokeStep \/ FakeStep \/ ConsoleStep \/ HitlStep

\* The fairness of PatientSpec, FairFakeSpec and Console, for the part that runs.
ToolsSpec ==
  /\ ToolsInit /\ [][ToolsNext]_toolsVars
  /\ WF_gsVars(part = "smoke" /\ Smoke!Notify) /\ WF_gsVars(part = "smoke" /\ Smoke!Begin)
  /\ WF_gsVars(part = "smoke" /\ Smoke!FirstBeat) /\ WF_gsVars(part = "smoke" /\ Smoke!Sent)
  /\ WF_gsVars(part = "smoke" /\ Smoke!Acked) /\ WF_gsVars(part = "smoke" /\ Smoke!PostBeat)
  /\ WF_gsVars(part = "smoke" /\ Smoke!Beats("radio"))
  /\ WF_gsVars(part = "smoke" /\ Smoke!Takes(FALSE))
  /\ WF_conVars(part = "console" /\ Con!Notify) /\ WF_conVars(part = "console" /\ Con!Take)
  /\ WF_conVars(part = "console" /\ Con!Retries)
  /\ WF_fakeVars(part = "nodes" /\ Switched!Tick)
  /\ \A p \in Ports : WF_fakeVars(part = "nodes" /\ Switched!Timeout(p))

MCRecordings == {r1, r2}
MCHostOf == [r \in MCRecordings |-> 1]
MCPorts == {1, 2}
MCNodes == {"fc-n", "fc-c"}
MCSession == {1}
MCHome == [p \in MCPorts |-> IF p = 1 THEN "fc-n" ELSE "fc-c"]

\* Over a link that works the smoke test passes, over one that loses a frame a
\* status request that was taken is answered, and whatever is switched, each port
\* of the fake nodes comes back to waiting for nothing.
ToolsServed ==
  /\ part = "smoke" => Smoke!Passes
  /\ part = "console" => Con!Answered
  /\ part = "nodes" => Switched!SlotsFreed

=============================================================================
