------------------------ MODULE DashboardController ------------------------
(***************************************************************************)
(* The operator dashboard's controller and the runtime it starts.  HTTP    *)
(* threads call the operator's commands, each under the controller's lock; *)
(* the runtime is a thread of its own that runs the autonomous loop, takes *)
(* the lock only to read the configuration and to record a payload, and    *)
(* looks at the stop event between cycles and while it sleeps.             *)
(*                                                                         *)
(* Runtime threads are numbered in the order they are started.  What the   *)
(* dashboard only displays (action log, last error, contents of the last   *)
(* payload) is left out.                                                   *)
(***************************************************************************)
EXTENDS Integers, FiniteSets

CONSTANTS Scenario,   \* SUPPORTED_DEMO_SCENARIOS
          Power,      \* operating levels after clamping
          DemoMax,    \* values of demo_max_cycles, 0 for no limit
          MaxCycles,  \* bound: later cycles count as this one
          MaxRuns     \* bound on the runtime threads

ASSUME DashboardAssumption ==
  /\ "normal" \in Scenario
  /\ Power # {}
  /\ DemoMax \subseteq Nat
  /\ MaxCycles \in Nat \ {0}
  /\ MaxRuns \in Nat

VARIABLES limit,      \* demo_max_cycles of this process
          power,      \* configured compressor power
          settings,   \* configured scenario and its start cycle
          status,     \* _runtime_status
          stop,       \* _stop_event
          recorded,   \* current_cycle of the latest payload, 0 without one
          pc,         \* pc[t]: where thread t is
          cycle,      \* cycle[t]: cycle_index of its loop
          taken,      \* taken[t]: the configuration its loop last read
          final,      \* final[t]: status of the payload its loop returns
          asked,      \* history: threads that a stop found alive
          announced   \* history: the runtime and scenario of the last scenario command

controlVars == <<limit, power, settings, status, stop, recorded>>
threadVars == <<pc, cycle, taken, final>>
historyVars == <<asked, announced>>
vars == <<controlVars, threadVars, historyVars>>

Thread == 1..MaxRuns

Alive(t) == pc[t] \notin {"unborn", "dead"}
Running == {t \in Thread : Alive(t)}

(* _is_runtime_active_locked *)
Live == status \in {"starting", "running", "stopping"}

(* resolve_runtime_scenario_control_stage *)
Active(config, n) == IF n < config.start THEN "normal" ELSE config.scenario

NothingAnnounced == [thread |-> 0, scenario |-> "normal"]

Init ==
  /\ limit \in DemoMax /\ power \in Power
  /\ settings = [scenario |-> "normal", start |-> 1]
  /\ status = "stopped" /\ stop = FALSE /\ recorded = 0
  /\ pc = [t \in Thread |-> "unborn"]
  /\ cycle = [t \in Thread |-> 0]
  /\ taken = [t \in Thread |-> settings]
  /\ final = [t \in Thread |-> "none"]
  /\ asked = {} /\ announced = NothingAnnounced

-----------------------------------------------------------------------------
(* The operator's commands. *)

(* Slips: the runtime's status is trusted instead of the thread; the stop  *)
(* event is cleared before the thread is looked at.                        *)
Slip_StartAllowed == ~ Live
Slip_StartIgnored ==
  /\ Running # {}
  /\ stop' = FALSE
  /\ UNCHANGED <<limit, power, settings, status, recorded, threadVars, historyVars>>

StartAllowed == Running = {}

(* A start that finds the runtime alive is only logged. *)
StartIgnored == ~ StartAllowed /\ UNCHANGED vars

StartRuntime(t) ==
  /\ StartAllowed
  /\ pc[t] = "unborn" /\ \A u \in 1..(t - 1) : pc[u] # "unborn"
  /\ stop' = FALSE /\ status' = "starting" /\ recorded' = 0
  /\ pc' = [pc EXCEPT ![t] = "loading"]
  /\ UNCHANGED <<limit, power, settings, cycle, taken, final, historyVars>>

(* Slip: a stop is reported as done at once. *)
Slip_StopRuntime ==
  /\ stop' = TRUE
  /\ status' = "stopped"
  /\ asked' = asked \cup Running
  /\ UNCHANGED <<limit, power, settings, recorded, threadVars, announced>>

StopRuntime ==
  /\ stop' = TRUE
  /\ status' = IF Running # {} THEN "stopping" ELSE "stopped"
  /\ asked' = asked \cup Running
  /\ UNCHANGED <<limit, power, settings, recorded, threadVars, announced>>

(* Slip: the scenario starts at the cycle after the next. *)
Slip_AppliesOn == IF Live THEN recorded + 2 ELSE 1

AppliesOn == IF Live THEN recorded + 1 ELSE 1

SetScenario(scenario) ==
  /\ settings' = [scenario |-> scenario, start |-> AppliesOn]
  /\ announced' = [thread   |-> IF Live /\ Running # {}
                                  THEN CHOOSE t \in Running : TRUE ELSE 0,
                   scenario |-> scenario]
  /\ UNCHANGED <<limit, power, status, stop, recorded, threadVars, asked>>

SetPower(level) ==
  /\ power' = level
  /\ UNCHANGED <<limit, settings, status, stop, recorded, threadVars, historyVars>>

-----------------------------------------------------------------------------
(* The runtime thread. *)

Goto(t, from, to) == pc[t] = from /\ pc' = [pc EXCEPT ![t] = to]

(* The module is imported outside of the try: an error ends the thread.    *)
Load(t) ==
  /\ Goto(t, "loading", "building") \/ Goto(t, "loading", "dead")
  /\ UNCHANGED <<controlVars, cycle, taken, final, historyVars>>

Build(t) ==
  /\ Goto(t, "building", "config")
  /\ UNCHANGED <<controlVars, cycle, taken, final, historyVars>>

(* config_provider, at the top of the loop *)
ReadConfig(t) ==
  /\ Goto(t, "config", "check")
  /\ taken' = [taken EXCEPT ![t] = settings]
  /\ UNCHANGED <<controlVars, cycle, final, historyVars>>

NextCycle(t) == IF cycle[t] < MaxCycles THEN cycle[t] + 1 ELSE MaxCycles

LastCycle(t) == limit > 0 /\ cycle[t] >= limit

(* Slip: the event is looked at while sleeping only. *)
Slip_StopSeen(t) == stop /\ pc[t] = "sleep"

StopSeen(t) == stop

StartCycle(t) ==
  /\ Goto(t, "check", "cycle")
  /\ ~ StopSeen(t) /\ ~ LastCycle(t)
  /\ cycle' = [cycle EXCEPT ![t] = NextCycle(t)]
  /\ UNCHANGED <<controlVars, taken, final, historyVars>>

LeaveLoop(t) ==
  /\ \/ /\ Goto(t, "check", "leaving")
        /\ StopSeen(t) \/ LastCycle(t)
        /\ final' = [final EXCEPT ![t] =
             IF StopSeen(t) THEN "stopped_operator" ELSE "completed"]
     \/ /\ Goto(t, "sleep", "leaving")
        /\ StopSeen(t)
        /\ final' = [final EXCEPT ![t] = "stopped_operator"]
  /\ UNCHANGED <<controlVars, cycle, taken, historyVars>>

(* _record_runtime_payload *)
Record(t, payloadStatus) ==
  /\ recorded' = cycle[t]
  /\ status' = IF payloadStatus = "active" THEN "running"
               ELSE IF status # "stopping" THEN "stopped"
               ELSE status

EndCycle(t) ==
  /\ \/ /\ Goto(t, "cycle", "sleep")
        /\ ~ LastCycle(t)
        /\ Record(t, "active")
        /\ UNCHANGED final
     \/ /\ Goto(t, "cycle", "returned")
        /\ LastCycle(t)
        /\ Record(t, "completed")
        /\ final' = [final EXCEPT ![t] = "completed"]
  /\ UNCHANGED <<limit, power, settings, stop, cycle, taken, historyVars>>

Wake(t) ==
  /\ Goto(t, "sleep", "config")
  /\ ~ StopSeen(t)
  /\ UNCHANGED <<controlVars, cycle, taken, final, historyVars>>

(* The payload is recorded by the loop and again by _run_runtime. *)
RecordFinal(t) ==
  /\ Goto(t, "leaving", "returned") \/ Goto(t, "returned", "finally")
  /\ Record(t, final[t])
  /\ UNCHANGED <<limit, power, settings, stop, cycle, taken, final, historyVars>>

(* The components cannot be built, a cycle raises, or the log cannot be    *)
(* written.                                                                *)
Raises(t) ==
  /\ pc[t] \in {"building", "cycle", "leaving"}
  /\ pc' = [pc EXCEPT ![t] = "raised"]
  /\ UNCHANGED <<controlVars, cycle, taken, final, historyVars>>

HandleError(t) ==
  /\ Goto(t, "raised", "finally")
  /\ status' = "stopped"
  /\ UNCHANGED <<limit, power, settings, stop, recorded, cycle, taken, final, historyVars>>

ClearEvent(t) ==
  /\ Goto(t, "finally", "cleared")
  /\ stop' = FALSE
  /\ UNCHANGED <<limit, power, settings, status, recorded, cycle, taken, final, historyVars>>

SetStopped(t) ==
  /\ Goto(t, "cleared", "ending")
  /\ status' = "stopped"
  /\ UNCHANGED <<limit, power, settings, stop, recorded, cycle, taken, final, historyVars>>

EndThread(t) ==
  /\ Goto(t, "ending", "dead")
  /\ UNCHANGED <<controlVars, cycle, taken, final, historyVars>>

-----------------------------------------------------------------------------
Command ==
  \/ StartIgnored
  \/ \E t \in Thread : StartRuntime(t)
  \/ StopRuntime
  \/ \E scenario \in Scenario : SetScenario(scenario)
  \/ \E level \in Power : SetPower(level)

Step(t) ==
  \/ Load(t) \/ Build(t)
  \/ ReadConfig(t) \/ StartCycle(t) \/ LeaveLoop(t)
  \/ EndCycle(t) \/ Wake(t) \/ RecordFinal(t)
  \/ Raises(t) \/ HandleError(t)
  \/ ClearEvent(t) \/ SetStopped(t) \/ EndThread(t)

Next == Command \/ \E t \in Thread : Step(t)

Spec == Init /\ [][Next]_vars

(* The runtime's thread is scheduled, and every cycle ends: its calls time *)
(* out.                                                                    *)
FairSpec == Spec /\ \A t \in Thread : WF_vars(Step(t))

-----------------------------------------------------------------------------
(* Properties. *)

TypeOK ==
  /\ limit \in DemoMax /\ power \in Power
  /\ settings \in [scenario : Scenario, start : 1..(MaxCycles + 1)]
  /\ status \in {"stopped", "starting", "running", "stopping"}
  /\ stop \in BOOLEAN
  /\ recorded \in 0..MaxCycles
  /\ cycle \in [Thread -> 0..MaxCycles]
  /\ asked \subseteq Thread

(* start_runtime never lets two runtimes loop, publish and write to the    *)
(* store at once, whatever the operator clicks while one is winding down.  *)
AtMostOneRuntime == Cardinality(Running) <= 1

(* A status of stopped is never shown for a runtime that may still begin a *)
(* cycle (_runtime_status in stop_runtime, _record_runtime_payload and     *)
(* _run_runtime).                                                          *)
StoppedRunsNoCycle ==
  status = "stopped" =>
    \A t \in Thread :
      pc[t] \notin {"loading", "building", "config", "check", "cycle", "sleep"}

(* A runtime that was asked to stop begins no further cycle, whatever else *)
(* the operator does before it is gone.                                    *)
StopIsFinal ==
  [][\A t \in asked : cycle'[t] = cycle[t] /\ (pc[t] # "cycle" => pc'[t] # "cycle")]_vars

(* ... and it does go. *)
StopEndsRuntime == \A t \in Thread : t \in asked ~> ~ Alive(t)

(* A scenario set while a runtime is live is the one the next cycle to     *)
(* read its configuration runs under (the dashboard applies scenario       *)
(* changes to the next eligible cycle).                                    *)
NextCycleTakesScenario ==
  [][\A t \in Thread :
       (/\ pc[t] = "config" /\ pc'[t] = "check" /\ announced.thread = t
        /\ cycle[t] < MaxCycles)
         => Active(taken'[t], NextCycle(t)) = announced.scenario]_vars
=============================================================================
