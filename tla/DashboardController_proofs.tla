---------------------- MODULE DashboardController_proofs ----------------------
(***************************************************************************)
(* At most one runtime, the meaning of "stopped", and the finality of a    *)
(* stop, for any number of runtime threads, any scenarios, and any bound   *)
(* on the cycles.                                                          *)
(*                                                                         *)
(* The argument: only a thread that is alone changes the stop event back,  *)
(* a start because no thread is alive and the end of a thread because it   *)
(* is the only one, so a thread that a stop found alive sees the event     *)
(* until it has left its loop (AskedThreadsLeave).                         *)
(*                                                                         *)
(* A scenario is announced for the cycle after the one recorded last,      *)
(* which may be under way already; it is never later than the next cycle   *)
(* of the runtime (AnnouncedAhead).                                        *)
(***************************************************************************)
EXTENDS DashboardController, FiniteSetTheorems, TLAPS

Status == {"stopped", "starting", "running", "stopping"}

(* Where a thread may still begin a cycle. *)
InLoop == {"loading", "building", "config", "check", "cycle", "sleep"}

Place == InLoop \cup {"unborn", "leaving", "returned", "raised", "finally",
                      "cleared", "ending", "dead"}

Shape ==
  /\ limit \in DemoMax /\ power \in Power
  /\ settings \in [scenario : Scenario, start : 1..(MaxCycles + 1)]
  /\ status \in Status
  /\ stop \in BOOLEAN
  /\ recorded \in 0..MaxCycles
  /\ pc \in [Thread -> Place]
  /\ cycle \in [Thread -> 0..MaxCycles]
  /\ final \in [Thread -> {"none", "completed", "stopped_operator"}]
  /\ asked \subseteq Thread

OneAlive == \A t, u \in Thread : Alive(t) /\ Alive(u) => t = u

StoppedLeft == status = "stopped" => \A t \in Thread : pc[t] \notin InLoop

AskedThreadsLeave ==
  \A t \in asked : /\ pc[t] # "unborn"
                   /\ Alive(t) => stop \/ pc[t] \in {"cleared", "ending"}

(* The inductive invariant. *)
Inductive == Shape /\ OneAlive /\ StoppedLeft /\ AskedThreadsLeave

LEMMA InitInductive == Init => Inductive
<1> SUFFICES ASSUME Init PROVE Inductive
  OBVIOUS
<1>1. MaxCycles \in Nat \ {0} /\ "normal" \in Scenario
  BY DashboardAssumption
<1>2. \A t \in Thread : pc[t] = "unborn"
  BY DEF Init
<1>3. Shape
  <2>1. settings \in [scenario : Scenario, start : 1..(MaxCycles + 1)]
    BY <1>1 DEF Init
  <2>2. /\ pc \in [Thread -> Place]
        /\ cycle \in [Thread -> 0..MaxCycles]
        /\ final \in [Thread -> {"none", "completed", "stopped_operator"}]
    BY <1>1 DEF Init, Place
  <2>3. status \in Status /\ recorded \in 0..MaxCycles
    BY <1>1 DEF Init, Status
  <2>4. limit \in DemoMax /\ power \in Power /\ asked \subseteq Thread /\ stop \in BOOLEAN
    BY Zenon DEF Init
  <2>5. QED BY <2>1, <2>2, <2>3, <2>4 DEF Shape
<1>4. QED BY <1>2, <1>3 DEF Init, Inductive, OneAlive, StoppedLeft, AskedThreadsLeave,
                           Alive, InLoop

(* An operator's command. *)
LEMMA CommandStep == Inductive /\ Command => Inductive'
<1> SUFFICES ASSUME Inductive, Command PROVE Inductive'
  OBVIOUS
<1> USE DashboardAssumption
<1>1. CASE StartIgnored
  BY <1>1 DEF StartIgnored, vars, controlVars, threadVars, historyVars, Inductive,
              Shape, OneAlive, StoppedLeft, AskedThreadsLeave, Alive
<1>2. ASSUME NEW t \in Thread, StartRuntime(t) PROVE Inductive'
  <2>1. \A u \in Thread : ~ Alive(u)
    BY <1>2 DEF StartRuntime, StartAllowed, Running
  <2>2. /\ pc' = [pc EXCEPT ![t] = "loading"] /\ pc[t] = "unborn"
        /\ stop' = FALSE /\ status' = "starting" /\ recorded' = 0
        /\ UNCHANGED <<limit, power, settings, cycle, taken, final, asked, announced>>
    BY <1>2 DEF StartRuntime, historyVars
  <2>3. Shape'
    <3>1. stop' \in BOOLEAN
      BY <2>2, Zenon
    <3>2. "loading" \in Place /\ "starting" \in Status /\ 0 \in 0..MaxCycles
      BY DEF Place, InLoop, Status
    <3>3. QED BY <2>2, <3>1, <3>2 DEF Inductive, Shape
  <2>4. \A u \in Thread : u # t => ~ Alive(u)'
    BY <2>1, <2>2 DEF Inductive, Shape, Alive
  <2>5. t \notin asked
    BY <2>2 DEF Inductive, AskedThreadsLeave
  <2>6. OneAlive'
    BY <2>4 DEF OneAlive
  <2>7. AskedThreadsLeave'
    BY <2>2, <2>4, <2>5 DEF Inductive, Shape, AskedThreadsLeave
  <2>8. QED BY <2>2, <2>3, <2>6, <2>7 DEF Inductive, StoppedLeft
<1>3. CASE StopRuntime
  <2>1. /\ stop' = TRUE /\ asked' = asked \cup Running
        /\ status' = IF Running # {} THEN "stopping" ELSE "stopped"
        /\ UNCHANGED <<limit, power, settings, recorded, pc, cycle, taken, final>>
    BY <1>3 DEF StopRuntime, threadVars
  <2>2. Shape'
    BY <2>1 DEF Inductive, Shape, Running, Status
  <2>3. OneAlive' /\ AskedThreadsLeave'
    BY <2>1 DEF Inductive, OneAlive, AskedThreadsLeave, Running, Alive
  <2>4. StoppedLeft'
    BY <2>1 DEF StoppedLeft, Running, Alive, InLoop
  <2>5. QED BY <2>2, <2>3, <2>4 DEF Inductive
<1>4. ASSUME NEW scenario \in Scenario, SetScenario(scenario) PROVE Inductive'
  <2>1. AppliesOn \in 1..(MaxCycles + 1)
    BY DEF AppliesOn, Inductive, Shape
  <2>2. Shape'
    BY <1>4, <2>1 DEF SetScenario, threadVars, Inductive, Shape
  <2>3. QED BY <1>4, <2>2 DEF SetScenario, threadVars, Inductive, OneAlive,
                             StoppedLeft, AskedThreadsLeave, Alive
<1>5. ASSUME NEW level \in Power, SetPower(level) PROVE Inductive'
  BY <1>5 DEF SetPower, threadVars, historyVars, Inductive, Shape, OneAlive,
              StoppedLeft, AskedThreadsLeave, Alive
<1>6. QED BY <1>1, <1>2, <1>3, <1>4, <1>5 DEF Command

(* A step of the only thread alive: the operator's settings stay, the      *)
(* event is only cleared on the way out, and the status says stopped only  *)
(* outside of the loop.                                                    *)
LEMMA MoveStep ==
  ASSUME Inductive, NEW t \in Thread, Alive(t),
         NEW to \in Place \ {"unborn"}, pc' = [pc EXCEPT ![t] = to],
         pc[t] \in {"cleared", "ending"} => to \in {"ending", "dead"},
         UNCHANGED <<limit, power, settings, asked>>,
         status' \in Status, status' = "stopped" => to \notin InLoop,
         stop' \in BOOLEAN, to = "cleared" \/ stop' = stop,
         recorded' \in 0..MaxCycles, cycle' \in [Thread -> 0..MaxCycles],
         final' \in [Thread -> {"none", "completed", "stopped_operator"}]
  PROVE  Inductive'
<1>1. /\ pc'[t] = to
      /\ \A u \in Thread : u # t => pc'[u] = pc[u] /\ ~ Alive(u)
  BY DEF Inductive, Shape, OneAlive
<1>2. Shape'
  BY DEF Inductive, Shape
<1>3. OneAlive'
  BY <1>1 DEF OneAlive, Alive
<1>4. StoppedLeft'
  BY <1>1 DEF StoppedLeft, Alive, InLoop
<1>5. AskedThreadsLeave'
  <2> SUFFICES ASSUME NEW u \in asked
               PROVE  /\ pc'[u] # "unborn"
                      /\ Alive(u)' => stop' \/ pc'[u] \in {"cleared", "ending"}
    BY DEF AskedThreadsLeave
  <2>1. u \in Thread /\ pc[u] # "unborn"
    BY DEF Inductive, Shape, AskedThreadsLeave
  <2>2. CASE u # t
    BY <1>1, <2>1, <2>2 DEF Alive
  <2>3. CASE u = t
    <3>1. stop \/ pc[t] \in {"cleared", "ending"}
      BY <2>3 DEF Inductive, AskedThreadsLeave
    <3>2. CASE to = "cleared"
      BY <1>1, <2>3, <3>2
    <3>3. CASE pc[t] \in {"cleared", "ending"}
      BY <1>1, <2>3, <3>3 DEF Alive
    <3>4. CASE stop /\ stop' = stop
      <4>1. stop'
        BY <3>4, Zenon
      <4>2. QED BY <1>1, <2>3, <4>1
    <3>5. QED BY <3>1, <3>2, <3>3, <3>4, Zenon
  <2>4. QED BY <2>2, <2>3
<1>6. QED BY <1>2, <1>3, <1>4, <1>5 DEF Inductive

(* What the values of the variables a step leaves alone are. *)
LEMMA Values ==
  ASSUME Inductive, NEW t \in Thread
  PROVE  /\ pc[t] \in Place /\ cycle[t] \in 0..MaxCycles
         /\ status \in Status /\ stop \in BOOLEAN /\ recorded \in 0..MaxCycles
         /\ cycle \in [Thread -> 0..MaxCycles]
         /\ final \in [Thread -> {"none", "completed", "stopped_operator"}]
         /\ final[t] # "active"
         /\ status = "stopped" => pc[t] \notin InLoop
         /\ NextCycle(t) \in 0..MaxCycles
BY DashboardAssumption DEF Inductive, Shape, StoppedLeft, NextCycle

LEMMA ThreadStep ==
  ASSUME Inductive, NEW t \in Thread, Step(t)
  PROVE  Inductive'
<1> USE Values, DashboardAssumption
<1>1. CASE Load(t) \/ Build(t) \/ ReadConfig(t) \/ Wake(t) \/ EndThread(t)
  <2>1. UNCHANGED <<limit, power, settings, asked, status, stop, recorded, cycle, final>>
    BY <1>1 DEF Load, Build, ReadConfig, Wake, EndThread, controlVars, historyVars
  <2>2. PICK to \in {"building", "config", "check", "dead"} :
          /\ pc' = [pc EXCEPT ![t] = to]
          /\ to = "dead" \/ pc[t] \in InLoop
          /\ pc[t] \notin {"unborn", "dead", "cleared"}
          /\ pc[t] = "ending" => to = "dead"
    BY <1>1 DEF Load, Build, ReadConfig, Wake, EndThread, Goto, InLoop
  <2>3. to \in Place \ {"unborn"}
    BY DEF Place, InLoop
  <2>4. status = "stopped" => to \notin InLoop
    BY <2>2 DEF InLoop
  <2>5. QED BY <2>1, <2>2, <2>3, <2>4, MoveStep DEF Alive
<1>2. CASE StartCycle(t)
  <2>1. /\ UNCHANGED <<limit, power, settings, asked, status, stop, recorded, final>>
        /\ pc[t] = "check" /\ pc' = [pc EXCEPT ![t] = "cycle"]
        /\ cycle' = [cycle EXCEPT ![t] = NextCycle(t)]
    BY <1>2 DEF StartCycle, Goto, controlVars, historyVars
  <2>2. "cycle" \in Place \ {"unborn"} /\ status # "stopped" /\ Alive(t)
    BY <2>1 DEF Place, InLoop, Alive
  <2>3. QED BY <2>1, <2>2, MoveStep
<1>3. CASE LeaveLoop(t)
  <2>1. /\ UNCHANGED <<limit, power, settings, asked, status, stop, recorded, cycle>>
        /\ pc[t] \in {"check", "sleep"} /\ pc' = [pc EXCEPT ![t] = "leaving"]
    BY <1>3 DEF LeaveLoop, Goto, controlVars, historyVars
  <2>2. final' \in [Thread -> {"none", "completed", "stopped_operator"}]
    BY <1>3 DEF LeaveLoop
  <2>3. "leaving" \in Place \ {"unborn"} /\ "leaving" \notin InLoop /\ Alive(t)
    BY <2>1 DEF Place, InLoop, Alive
  <2>4. QED BY <2>1, <2>2, <2>3, MoveStep
<1>4. CASE EndCycle(t)
  <2>1. UNCHANGED <<limit, power, settings, asked, stop, cycle>> /\ pc[t] = "cycle"
    BY <1>4 DEF EndCycle, Goto, historyVars
  <2>2. recorded' \in 0..MaxCycles
    BY <1>4 DEF EndCycle, Record
  <2>3. CASE Goto(t, "cycle", "sleep") /\ Record(t, "active") /\ UNCHANGED final
    <3>1. status' = "running" /\ pc' = [pc EXCEPT ![t] = "sleep"]
      BY <2>3 DEF Record, Goto
    <3>2. "sleep" \in Place \ {"unborn"} /\ "running" \in Status /\ Alive(t)
      BY <2>1 DEF Place, InLoop, Status, Alive
    <3>3. QED BY <2>1, <2>2, <2>3, <3>1, <3>2, MoveStep
  <2>4. CASE /\ Goto(t, "cycle", "returned") /\ Record(t, "completed")
             /\ final' = [final EXCEPT ![t] = "completed"]
    <3>1. status' \in Status /\ pc' = [pc EXCEPT ![t] = "returned"]
      BY <2>4 DEF Record, Goto, Status
    <3>2. "returned" \in Place \ {"unborn"} /\ "returned" \notin InLoop /\ Alive(t)
      BY <2>1 DEF Place, InLoop, Alive
    <3>3. final' \in [Thread -> {"none", "completed", "stopped_operator"}]
      BY <2>4
    <3>4. QED BY <2>1, <2>2, <3>1, <3>2, <3>3, MoveStep
  <2>5. QED BY <1>4, <2>3, <2>4 DEF EndCycle
<1>5. CASE RecordFinal(t)
  <2>1. UNCHANGED <<limit, power, settings, asked, stop, cycle, final>>
    BY <1>5 DEF RecordFinal, historyVars
  <2>2. recorded' \in 0..MaxCycles /\ status' \in Status
    BY <1>5 DEF RecordFinal, Record, Status
  <2>3. PICK to \in {"returned", "finally"} :
          pc' = [pc EXCEPT ![t] = to] /\ pc[t] \in {"leaving", "returned"}
    BY <1>5 DEF RecordFinal, Goto
  <2>4. to \in Place \ {"unborn"} /\ to \notin InLoop /\ Alive(t)
    BY <2>3 DEF Place, InLoop, Alive
  <2>5. QED BY <2>1, <2>2, <2>3, <2>4, MoveStep
<1>6. CASE Raises(t) \/ HandleError(t) \/ SetStopped(t)
  <2>1. /\ UNCHANGED <<limit, power, settings, asked, stop, recorded, cycle, final>>
        /\ status' \in {status, "stopped"}
    BY <1>6 DEF Raises, HandleError, SetStopped, controlVars, historyVars
  <2>2. PICK to \in {"raised", "finally", "ending"} :
          /\ pc' = [pc EXCEPT ![t] = to]
          /\ pc[t] \notin {"unborn", "dead", "ending"}
          /\ pc[t] = "cleared" => to = "ending"
    BY <1>6 DEF Raises, HandleError, SetStopped, Goto
  <2>3. to \in Place \ {"unborn"} /\ to \notin InLoop /\ "stopped" \in Status
    BY DEF Place, InLoop, Status
  <2>4. QED BY <2>1, <2>2, <2>3, MoveStep DEF Alive
<1>7. CASE ClearEvent(t)
  <2>1. /\ UNCHANGED <<limit, power, settings, asked, status, recorded, cycle, final>>
        /\ pc[t] = "finally" /\ pc' = [pc EXCEPT ![t] = "cleared"]
    BY <1>7 DEF ClearEvent, Goto, historyVars
  <2>2. stop' \in BOOLEAN
    BY <1>7, Zenon DEF ClearEvent
  <2>3. "cleared" \in Place \ {"unborn"} /\ "cleared" \notin InLoop /\ Alive(t)
    BY <2>1 DEF Place, InLoop, Alive
  <2>4. QED BY <2>1, <2>2, <2>3, MoveStep
<1>8. QED BY <1>1, <1>2, <1>3, <1>4, <1>5, <1>6, <1>7 DEF Step

THEOREM InductiveHolds == Spec => []Inductive
<1>1. Inductive /\ [Next]_vars => Inductive'
  <2> SUFFICES ASSUME Inductive, [Next]_vars PROVE Inductive'
    OBVIOUS
  <2>1. CASE UNCHANGED vars
    BY <2>1 DEF vars, controlVars, threadVars, historyVars, Inductive, Shape,
                OneAlive, StoppedLeft, AskedThreadsLeave, Alive
  <2>2. CASE Command
    BY <2>2, CommandStep
  <2>3. CASE \E t \in Thread : Step(t)
    BY <2>3, ThreadStep
  <2>4. QED BY <2>1, <2>2, <2>3 DEF Next
<1>2. QED BY <1>1, InitInductive, PTL DEF Spec

(* The values the controller's and the threads' variables take. *)
THEOREM TypeOKHolds == Spec => []TypeOK
<1>1. Inductive => TypeOK
  BY DEF Inductive, Shape, TypeOK, Status
<1>2. QED BY <1>1, InductiveHolds, PTL

(* start_runtime never lets two runtimes be alive at once. *)
THEOREM AtMostOneRuntimeHolds == Spec => []AtMostOneRuntime
<1>1. Inductive => AtMostOneRuntime
  <2> SUFFICES ASSUME Inductive PROVE Cardinality(Running) <= 1
    BY DEF AtMostOneRuntime
  <2>1. CASE Running = {}
    BY <2>1, FS_EmptySet
  <2>2. CASE Running # {}
    <3>1. PICK t \in Thread : t \in Running
      BY <2>2 DEF Running
    <3>2. Running = {t}
      BY <3>1 DEF Inductive, OneAlive, Running
    <3>3. Cardinality({t}) = 1
      BY FS_Singleton
    <3>4. QED BY <3>2, <3>3
  <2>3. QED BY <2>1, <2>2
<1>2. QED BY <1>1, InductiveHolds, PTL

(* A status of stopped is never shown for a runtime that may still begin a *)
(* cycle.                                                                  *)
THEOREM StoppedRunsNoCycleHolds == Spec => []StoppedRunsNoCycle
<1>1. Inductive => StoppedRunsNoCycle
  BY DEF Inductive, StoppedLeft, StoppedRunsNoCycle, InLoop
<1>2. QED BY <1>1, InductiveHolds, PTL

(* A runtime a stop found alive begins no further cycle, whatever the      *)
(* operator does before it is gone.                                        *)
THEOREM StopIsFinalHolds == Spec => StopIsFinal
<1> DEFINE NoNewCycle ==
      \A t \in asked : cycle'[t] = cycle[t] /\ (pc[t] # "cycle" => pc'[t] # "cycle")
<1>1. Inductive /\ [Next]_vars => [NoNewCycle]_vars
  <2> SUFFICES ASSUME Inductive, Next PROVE NoNewCycle
    BY Zenon
  <2> SUFFICES ASSUME NEW u \in asked
               PROVE  cycle'[u] = cycle[u] /\ (pc[u] # "cycle" => pc'[u] # "cycle")
    BY Zenon
  <2>1. /\ u \in Thread /\ pc \in [Thread -> Place] /\ cycle \in [Thread -> 0..MaxCycles]
        /\ Alive(u) => stop \/ pc[u] \in {"cleared", "ending"}
    BY DEF Inductive, Shape, AskedThreadsLeave
  <2>2. CASE Command
    <3>1. /\ cycle' = cycle
          /\ pc' = pc \/ \E t \in Thread : pc' = [pc EXCEPT ![t] = "loading"]
      BY <2>2 DEF Command, StartIgnored, StartRuntime, StopRuntime, SetScenario,
                  SetPower, vars, threadVars, historyVars
    <3>2. QED BY <2>1, <3>1
  <2>3. ASSUME NEW t \in Thread, Step(t)
        PROVE  cycle'[u] = cycle[u] /\ (pc[u] # "cycle" => pc'[u] # "cycle")
    <3>1. CASE StartCycle(t)
      <4>1. ~ stop /\ pc[t] = "check" /\ pc' = [pc EXCEPT ![t] = "cycle"]
        BY <3>1, Zenon DEF StartCycle, StopSeen, Goto
      <4>2. u # t
        BY <2>1, <4>1 DEF Alive
      <4>3. cycle' = [cycle EXCEPT ![t] = NextCycle(t)]
        BY <3>1 DEF StartCycle
      <4>4. QED BY <2>1, <4>1, <4>2, <4>3
    <3>2. CASE ~ StartCycle(t)
      <4>1. cycle' = cycle
        BY <2>3, <3>2 DEF Step, Load, Build, ReadConfig, LeaveLoop, EndCycle, Wake,
             RecordFinal, Raises, HandleError, ClearEvent, SetStopped, EndThread
      <4>2. \E to \in Place \ {"cycle"} : pc' = [pc EXCEPT ![t] = to]
        BY <2>3, <3>2 DEF Step, Load, Build, ReadConfig, LeaveLoop, EndCycle, Wake,
             RecordFinal, Raises, HandleError, ClearEvent, SetStopped, EndThread,
             Goto, Place, InLoop
      <4>3. QED BY <2>1, <4>1, <4>2
    <3>3. QED BY <3>1, <3>2
  <2>4. QED BY <2>2, <2>3 DEF Next
<1>2. QED BY <1>1, InductiveHolds, PTL DEF Spec, StopIsFinal

-----------------------------------------------------------------------------
(* The scenario a command announced. *)

(* What was announced to a runtime is what is configured, and starts no    *)
(* later than its next cycle: the cycle recorded last, from which          *)
(* set_scenario counts, is no later than the current cycle of the runtime  *)
(* that is alive.                                                          *)
AnnouncedAhead ==
  /\ taken \in [Thread -> [scenario : Scenario, start : 1..(MaxCycles + 1)]]
  /\ \A t \in Thread : Alive(t) => recorded <= cycle[t]
  /\ \A t \in Thread : announced.thread = t =>
       /\ settings.scenario = announced.scenario
       /\ settings.start <= cycle[t] + 1

(* Cycles only go up. *)
LEMMA CyclesAdvance ==
  ASSUME Inductive, NEW t \in Thread, Step(t)
  PROVE  \A u \in Thread : cycle[u] \in Nat /\ cycle'[u] \in Nat /\ cycle[u] <= cycle'[u]
<1>1. cycle \in [Thread -> 0..MaxCycles] /\ NextCycle(t) \in 0..MaxCycles /\ cycle[t] <= NextCycle(t)
  BY Values, DashboardAssumption DEF NextCycle
<1>2. cycle' = cycle \/ cycle' = [cycle EXCEPT ![t] = NextCycle(t)]
  BY DEF Step, Load, Build, ReadConfig, StartCycle, LeaveLoop, EndCycle, Wake,
         RecordFinal, Raises, HandleError, ClearEvent, SetStopped, EndThread
<1>3. MaxCycles \in Nat
  BY DashboardAssumption
<1>4. QED BY <1>1, <1>2, <1>3

LEMMA AnnouncedCommand ==
  ASSUME Inductive, AnnouncedAhead, Command
  PROVE  AnnouncedAhead'
<1> USE DashboardAssumption
<1>1. \A t \in Thread : cycle[t] \in Nat
  BY DEF Inductive, Shape
<1>2. CASE StartIgnored \/ StopRuntime \/ \E level \in Power : SetPower(level)
  BY <1>2 DEF StartIgnored, StopRuntime, SetPower, vars, controlVars, threadVars,
              historyVars, AnnouncedAhead, Alive
<1>3. ASSUME NEW t \in Thread, StartRuntime(t)
      PROVE  AnnouncedAhead'
  BY <1>1, <1>3 DEF StartRuntime, historyVars, AnnouncedAhead
<1>4. ASSUME NEW scenario \in Scenario, SetScenario(scenario)
      PROVE  AnnouncedAhead'
  <2>1. /\ settings'.scenario = scenario /\ settings'.start = AppliesOn
        /\ announced'.scenario = scenario
        /\ UNCHANGED <<recorded, pc, cycle, taken>>
    BY <1>4 DEF SetScenario, threadVars
  <2>2. ASSUME NEW t \in Thread, announced'.thread = t
        PROVE  settings'.start <= cycle[t] + 1
    <3>1. Live /\ Running # {} /\ t = CHOOSE u \in Running : TRUE
      BY <1>4, <2>2 DEF SetScenario, Thread
    <3>2. Alive(t)
      BY <3>1 DEF Running
    <3>3. recorded <= cycle[t] /\ recorded \in Nat
      BY <3>2 DEF AnnouncedAhead, Inductive, Shape
    <3>4. settings'.start = recorded + 1
      BY <2>1, <3>1 DEF AppliesOn
    <3>5. QED BY <1>1, <3>3, <3>4
  <2>3. QED BY <2>1, <2>2 DEF AnnouncedAhead, Alive
<1>5. QED BY <1>2, <1>3, <1>4 DEF Command

LEMMA AnnouncedStep ==
  ASSUME Inductive, AnnouncedAhead, NEW t \in Thread, Step(t)
  PROVE  AnnouncedAhead'
<1>1. UNCHANGED <<settings, announced>>
  BY DEF Step, Load, Build, ReadConfig, StartCycle, LeaveLoop, EndCycle, Wake,
         RecordFinal, Raises, HandleError, ClearEvent, SetStopped, EndThread,
         controlVars, historyVars
<1>2. taken' = taken \/ taken' = [taken EXCEPT ![t] = settings]
  BY DEF Step, Load, Build, ReadConfig, StartCycle, LeaveLoop, EndCycle, Wake,
         RecordFinal, Raises, HandleError, ClearEvent, SetStopped, EndThread
<1>3. taken' \in [Thread -> [scenario : Scenario, start : 1..(MaxCycles + 1)]]
  BY <1>2 DEF AnnouncedAhead, Inductive, Shape
<1>4. /\ Alive(t)
      /\ \A u \in Thread : u # t => pc'[u] = pc[u]
  BY DEF Step, Load, Build, ReadConfig, StartCycle, LeaveLoop, EndCycle, Wake,
         RecordFinal, Raises, HandleError, ClearEvent, SetStopped, EndThread,
         Goto, Alive, Inductive, Shape
<1>5. recorded' = recorded \/ (recorded' = cycle[t] /\ cycle' = cycle)
  BY DEF Step, Load, Build, ReadConfig, StartCycle, LeaveLoop, EndCycle, Wake,
         RecordFinal, Raises, HandleError, ClearEvent, SetStopped, EndThread,
         Record, controlVars
<1>6. ASSUME NEW u \in Thread, Alive(u)'
      PROVE  recorded' <= cycle'[u]
  <2>1. u = t
    BY <1>4, <1>6 DEF Alive, Inductive, OneAlive
  <2>2. recorded <= cycle[t] /\ recorded \in Int
    BY <1>4 DEF AnnouncedAhead, Inductive, Shape
  <2>3. QED BY <1>5, <2>1, <2>2, CyclesAdvance
<1>7. ASSUME NEW u \in Thread, announced'.thread = u
      PROVE  settings'.scenario = announced'.scenario /\ settings'.start <= cycle'[u] + 1
  <2>1. settings.start <= cycle[u] + 1 /\ settings.scenario = announced.scenario
    BY <1>1, <1>7 DEF AnnouncedAhead
  <2>2. settings.start \in Int
    BY DEF Inductive, Shape
  <2>3. QED BY <1>1, <2>1, <2>2, CyclesAdvance
<1>8. QED BY <1>3, <1>6, <1>7 DEF AnnouncedAhead

LEMMA AnnouncedAheadHolds == Spec => []AnnouncedAhead
<1>1. Init => AnnouncedAhead
  BY DashboardAssumption DEF Init, AnnouncedAhead, NothingAnnounced, Thread, Alive
<1>2. Inductive /\ AnnouncedAhead /\ [Next]_vars => AnnouncedAhead'
  <2> SUFFICES ASSUME Inductive, AnnouncedAhead, [Next]_vars PROVE AnnouncedAhead'
    OBVIOUS
  <2>1. CASE UNCHANGED vars
    BY <2>1 DEF vars, controlVars, threadVars, historyVars, AnnouncedAhead, Alive
  <2>2. QED BY <2>1, AnnouncedCommand, AnnouncedStep DEF Next
<1>3. QED BY <1>1, <1>2, InductiveHolds, PTL DEF Spec

(* set_scenario: the next cycle to read the configuration                  *)
(* (config_provider) runs under the announced scenario, however the        *)
(* command, the end of a cycle and the recording of its payload interleave.*)
THEOREM NextCycleTakesScenarioHolds == Spec => NextCycleTakesScenario
<1> DEFINE Takes ==
      \A t \in Thread :
        (/\ pc[t] = "config" /\ pc'[t] = "check" /\ announced.thread = t
         /\ cycle[t] < MaxCycles)
          => Active(taken'[t], NextCycle(t)) = announced.scenario
<1>1. Inductive /\ AnnouncedAhead /\ [Next]_vars => [Takes]_vars
  <2> SUFFICES ASSUME Inductive, AnnouncedAhead, Next,
                      NEW t \in Thread,
                      pc[t] = "config", pc'[t] = "check", announced.thread = t,
                      cycle[t] < MaxCycles
               PROVE  Active(taken'[t], NextCycle(t)) = announced.scenario
    BY Zenon
  <2>1. ~ Command
    <3>1. ASSUME Command
          PROVE  pc' = pc \/ \E u \in Thread : pc' = [pc EXCEPT ![u] = "loading"]
      BY <3>1 DEF Command, StartIgnored, StartRuntime, StopRuntime, SetScenario,
                  SetPower, vars, threadVars, historyVars
    <3>2. QED BY <3>1 DEF Inductive, Shape
  <2>2. PICK u \in Thread : Step(u)
    BY <2>1 DEF Next
  <2>3. ReadConfig(u)
    BY <2>2 DEF Step, Load, Build, StartCycle, LeaveLoop, EndCycle, Wake,
         RecordFinal, Raises, HandleError, ClearEvent, SetStopped, EndThread,
         Goto, Inductive, Shape
  <2>4. u = t /\ taken' = [taken EXCEPT ![t] = settings]
    BY <2>3 DEF ReadConfig, Goto, Inductive, Shape
  <2>5. taken'[t] = settings
    BY <2>4 DEF AnnouncedAhead
  <2>6. settings.scenario = announced.scenario /\ settings.start <= cycle[t] + 1
    BY DEF AnnouncedAhead
  <2>7. NextCycle(t) = cycle[t] + 1 /\ cycle[t] \in Int /\ settings.start \in Int
    BY DEF NextCycle, Inductive, Shape
  <2>8. QED BY <2>5, <2>6, <2>7 DEF Active
<1>2. QED BY <1>1, InductiveHolds, AnnouncedAheadHolds, PTL DEF Spec, NextCycleTakesScenario
=============================================================================
