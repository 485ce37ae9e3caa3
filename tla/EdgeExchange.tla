---------------------------- MODULE EdgeExchange ----------------------------
(***************************************************************************)
(* The edges of the runtime and the exchange of their observations over    *)
(* MQTT.  Each edge acquires one sensor, publishes every reading, and      *)
(* keeps its own replicated view: the last observation it consumed of each *)
(* sensor.  The runtime's main thread publishes a few steps for all edges, *)
(* waits a fixed time, copies the views one after the other into the       *)
(* consensus round and submits it, with the configured faults injected.    *)
(*                                                                         *)
(* "passive" transport calls the subscribers back inside publish; "real"   *)
(* transport gives every edge a client of its own, whose network thread    *)
(* consumes what the broker sends it while the main thread goes on.  The   *)
(* broker and the client library are external: a subscription is           *)
(* registered some time after it was asked for, messages to one client     *)
(* keep their order, and a lost connection loses them and the subscription *)
(* (QoS 0, clean session, no subscribe after a reconnection).              *)
(*                                                                         *)
(* An observation of an edge is named by its acquisition number, and       *)
(* Process[s][n] is the value sensor s had at its n-th acquisition.        *)
(***************************************************************************)
EXTENDS RoundEvaluation, Sequences

CONSTANTS EdgeOrder,   \* the edges in the order the runtime lists them
          SensorOf,    \* the sensor an edge acquires
          Transports,  \* the transports considered: "passive", "real"
          Steps,       \* demo_steps: acquisitions of an edge per cycle
          Process,     \* the compressor: Process[s][n]
          FaultTargets,\* the sequences of edges a cycle may make faulty
          MaxCycles    \* bound on the cycles of one runtime

N == Cardinality(Edge)

ASSUME ExchangeAssumption ==
  /\ EdgeOrder \in [1..N -> Edge]
  /\ \A e \in Edge : \E i \in 1..N : EdgeOrder[i] = e
  /\ SensorOf \in [Edge -> Sensor]
  /\ \A e, f \in Edge : SensorOf[e] = SensorOf[f] => e = f
  /\ \A s \in Sensor : \E e \in Edge : SensorOf[e] = s
  /\ Transports \subseteq {"passive", "real"}
  /\ Steps \in Nat \ {0}
  /\ MaxCycles \in Nat

VARIABLES cycle,      \* the runtime's current cycle, 0 before the first
          published,  \* publications of this cycle
          faulty,     \* the edges this cycle makes faulty, in order
          round,      \* the views copied into the round so far
          result,     \* what became of the round
          acquired,   \* acquired[e]: acquisition_count of edge e
          view,       \* view[e]: observations by sensor
          link,       \* link[e]: e's connection to the broker, or "direct"
          inbox       \* inbox[e]: messages the broker sent e, in order

mainVars == <<cycle, published, faulty, round, result, acquired>>
vars == <<cycle, published, faulty, round, result, acquired, view, link, inbox>>

Nothing == [s \in {} |-> 0]

(* What became of a round; the other statuses are those of EvaluateRound.  *)
Pending == [status |-> "pending"]
Rejected == [status |-> "rejected"]
Raised == [status |-> "raised"]

(* An exception left execute_demo_cycle, and the loop with it. *)
Ended == result \in {Rejected, Raised}

(* Slip: the first observation of a sensor is kept. *)
Slip_Updated(observations, s, n) ==
  [r \in DOMAIN observations \cup {s} |->
     IF r \in DOMAIN observations THEN observations[r] ELSE n]

(* update_from_payload *)
Updated(observations, s, n) ==
  [r \in DOMAIN observations \cup {s} |-> IF r = s THEN n ELSE observations[r]]

-----------------------------------------------------------------------------
(* build_demo_runtime_components: new edges, and the transport the process *)
(* is configured with, subscribed.                                         *)
FreshRuntime(transport) ==
  [acquired |-> [e \in Edge |-> 0],
   view |-> [e \in Edge |-> Nothing],
   link |-> [e \in Edge |-> IF transport = "passive" THEN "direct" ELSE "subscribing"],
   inbox |-> [e \in Edge |-> << >>]]

Passive == \E e \in Edge : link[e] = "direct"

Init ==
  /\ cycle = 0 /\ published = 0 /\ faulty = << >>
  /\ round = [e \in {} |-> Nothing] /\ result = Pending
  /\ \E transport \in Transports :
       LET fresh == FreshRuntime(transport)
       IN  /\ acquired = fresh.acquired /\ view = fresh.view
           /\ link = fresh.link /\ inbox = fresh.inbox

(* The dashboard or the command line starts the runtime again after it     *)
(* stopped between two cycles or raised, with new edges.                    *)
StartRuntime ==
  /\ result # Pending
  /\ cycle' = 0 /\ published' = 0 /\ faulty' = << >>
  /\ round' = [e \in {} |-> Nothing] /\ result' = Pending
  /\ LET fresh == FreshRuntime(IF Passive THEN "passive" ELSE "real")
     IN  /\ acquired' = fresh.acquired /\ view' = fresh.view
         /\ link' = fresh.link /\ inbox' = fresh.inbox

StartCycle(targets) ==
  /\ cycle = 0 \/ result # Pending
  /\ ~ Ended
  /\ cycle < MaxCycles
  /\ cycle' = cycle + 1
  /\ published' = 0
  /\ faulty' = targets
  /\ round' = [e \in {} |-> Nothing]
  /\ result' = Pending
  /\ UNCHANGED <<acquired, view, link, inbox>>

(* The main thread's turn: every edge once per step, in order. *)
Turn(e) ==
  /\ cycle > 0 /\ result = Pending
  /\ published < Steps * N
  /\ e = EdgeOrder[(published % N) + 1]

(* acquire, and the edge's own view in publish_local_observation. *)
Observe(e) ==
  /\ acquired' = [acquired EXCEPT ![e] = @ + 1]
  /\ published' = published + 1
  /\ UNCHANGED <<cycle, faulty, round, link>>

PublishPassive(e) ==
  /\ Passive
  /\ Turn(e)
  /\ Observe(e)
  /\ view' = [f \in Edge |-> Updated(view[f], SensorOf[e], acquired'[e])]
  /\ UNCHANGED <<result, inbox>>

(* Slip: the edge waits for its own message to come back. *)
Slip_PublishReal(e) ==
  /\ ~ Passive
  /\ Turn(e)
  /\ Observe(e)
  /\ inbox' = [f \in Edge |->
       IF link[e] # "lost" /\ link[f] = "subscribed"
         THEN Append(inbox[f], [from |-> e, number |-> acquired'[e]]) ELSE inbox[f]]
  /\ UNCHANGED <<view, result>>

(* The broker sends the message to every subscriber, its publisher's own   *)
(* client included; without a connection it is dropped.                    *)
PublishReal(e) ==
  /\ ~ Passive
  /\ Turn(e)
  /\ Observe(e)
  /\ view' = [view EXCEPT ![e] = Updated(@, SensorOf[e], acquired'[e])]
  /\ inbox' = [f \in Edge |->
       IF link[e] # "lost" /\ link[f] = "subscribed"
         THEN Append(inbox[f], [from |-> e, number |-> acquired'[e]]) ELSE inbox[f]]
  /\ UNCHANGED result

(* Slip: the client does not filter its own messages. *)
Slip_Consumed(e, m) == Updated(view[e], SensorOf[m.from], m.number)

(* consume_peer_observation, whatever the reading's age. *)
Consumed(e, m) ==
  IF m.from = e THEN view[e] ELSE Updated(view[e], SensorOf[m.from], m.number)

(* The network thread of e's client takes the next message. *)
Deliver(e) ==
  /\ inbox[e] # << >>
  /\ view' = [view EXCEPT ![e] = Consumed(e, Head(inbox[e]))]
  /\ inbox' = [inbox EXCEPT ![e] = Tail(@)]
  /\ UNCHANGED <<mainVars, link>>

(* The network thread adds a sensor to the view while to_dict iterates     *)
(* over it in publish_local_observation: the dictionary changed size, and  *)
(* the main thread raises before the transport's publish.                  *)
PublishRaises(e) ==
  /\ ~ Passive
  /\ Turn(e)
  /\ inbox[e] # << >>
  /\ LET m == Head(inbox[e])
     IN  /\ m.from # e
         /\ SensorOf[m.from] \notin DOMAIN view[e]
         /\ view' = [view EXCEPT ![e] =
              Updated(Consumed(e, m), SensorOf[e], acquired[e] + 1)]
  /\ inbox' = [inbox EXCEPT ![e] = Tail(@)]
  /\ Observe(e)
  /\ result' = Raised

-----------------------------------------------------------------------------
(* The connections of the clients. *)

Subscribe(e) ==
  /\ link[e] = "subscribing"
  /\ link' = [link EXCEPT ![e] = "subscribed"]
  /\ UNCHANGED <<mainVars, view, inbox>>

(* Also the end of a network thread in which the callback raised. *)
Disconnect(e) ==
  /\ link[e] \notin {"lost", "direct"}
  /\ link' = [link EXCEPT ![e] = "lost"]
  /\ inbox' = [inbox EXCEPT ![e] = << >>]
  /\ UNCHANGED <<mainVars, view>>

Reconnect(e) ==
  /\ link[e] = "lost"
  /\ link' = [link EXCEPT ![e] = "unsubscribed"]
  /\ UNCHANGED <<mainVars, view, inbox>>

-----------------------------------------------------------------------------
(* Building and submitting the round. *)

(* replicated_state_contract of the next edge in order. *)
CopyView(e) ==
  /\ cycle > 0 /\ result = Pending
  /\ published = Steps * N
  /\ Cardinality(DOMAIN round) < N
  /\ e = EdgeOrder[Cardinality(DOMAIN round) + 1]
  /\ round' = [f \in DOMAIN round \cup {e} |->
                 IF f = e THEN view[e] ELSE round[f]]
  /\ UNCHANGED <<cycle, published, faulty, result, acquired, view, link, inbox>>

(* The offsets of inject_faults alternate over the faulty edges. *)
Raise == [temperature |-> 40000, pressure |-> 3400, rpm |-> 1490000]
Lower == [temperature |-> -60000, pressure |-> -5000, rpm |-> -2300000]

(* Slip: every faulty edge gets the first offset. *)
Slip_Offset(targets, e, s) ==
  IF \E i \in DOMAIN targets : targets[i] = e THEN Raise[s] ELSE 0

(* A later index of the same edge overwrites an earlier one. *)
Offset(targets, e, s) ==
  IF \E i \in DOMAIN targets : targets[i] = e
    THEN LET last == CHOOSE i \in DOMAIN targets :
                       /\ targets[i] = e
                       /\ \A j \in DOMAIN targets : targets[j] = e => j <= i
         IN  IF last % 2 = 1 THEN Raise[s] ELSE Lower[s]
    ELSE 0

InjectFaults(targets) ==
  [e \in Edge |-> [s \in DOMAIN round[e] |->
                     Process[s][round[e][s]] + Offset(targets, e, s)]]

(* The application skips a transaction with an incomplete view, and the    *)
(* query for its round then raises.                                        *)
SubmitRound ==
  /\ cycle > 0 /\ result = Pending
  /\ DOMAIN round = Edge
  /\ result' = LET values == InjectFaults(faulty)
               IN  IF Comparable(Edge, values) THEN EvaluateRound(Edge, values)
                                               ELSE Rejected
  /\ UNCHANGED <<cycle, published, faulty, round, acquired, view, link, inbox>>

-----------------------------------------------------------------------------
Main ==
  \/ StartRuntime
  \/ \E targets \in FaultTargets : StartCycle(targets)
  \/ \E e \in Edge :
       PublishPassive(e) \/ PublishReal(e) \/ PublishRaises(e) \/ CopyView(e)
  \/ SubmitRound

Network == \E e \in Edge : Deliver(e) \/ Subscribe(e)

Next ==
  \/ Main
  \/ Network
  \/ \E e \in Edge : Disconnect(e) \/ Reconnect(e)

Spec == Init /\ [][Next]_vars

(* The main thread keeps running its cycles and every connection stays up; *)
(* the network threads and the broker keep working.                        *)
RunCycle ==
  \/ \E targets \in FaultTargets : StartCycle(targets)
  \/ \E e \in Edge : PublishPassive(e) \/ PublishReal(e) \/ CopyView(e)
  \/ SubmitRound

ConnectedSpec ==
  /\ Init /\ [][RunCycle \/ Network]_vars
  /\ WF_vars(RunCycle)
  /\ \A e \in Edge : WF_vars(Deliver(e)) /\ WF_vars(Subscribe(e))

-----------------------------------------------------------------------------
(* Properties. *)

Holds(e) == DOMAIN view[e]

(* update_from_payload keeps whatever comes, without looking at the        *)
(* reading's time; still no edge ever replaces a reading by an older one   *)
(* while a runtime lasts, its own readings included.                       *)
ViewsNeverRegress ==
  [][\/ StartRuntime
     \/ \A e \in Edge : /\ Holds(e) \subseteq DOMAIN view'[e]
                        /\ \A s \in Holds(e) : view[e][s] <= view'[e][s]]_vars

(* build_consensus_round_input: each edge speaks for its own sensor with   *)
(* the last reading it acquired, and no view is ahead of what the owner of *)
(* a sensor acquired.                                                      *)
RoundHoldsLatestReadings ==
  \A e \in DOMAIN round :
    /\ SensorOf[e] \in DOMAIN round[e]
    /\ \A f \in Edge : SensorOf[f] \in DOMAIN round[e] =>
         /\ round[e][SensorOf[f]] <= acquired[f]
         /\ e = f => round[e][SensorOf[f]] = acquired[f]

(* With the passive relay the configured fault decides the round: without  *)
(* faulty edges nobody is excluded; one faulty edge is excluded alone, as  *)
(* suspected; two leave no edge with a majority and consensus fails.       *)
FaultDecidesRound ==
  Passive /\ result # Pending =>
    CASE Len(faulty) = 0 ->
           result.status = "success" /\ result.sources = Edge
      [] Len(faulty) = 1 ->
           /\ result.status = "success"
           /\ result.sources = Edge \ {faulty[1]}
           /\ result.exclusions = [e \in {faulty[1]} |-> "suspected_byzantine_behavior"]
      [] Len(faulty) = 2 ->
           /\ result.status = "failed_consensus"
           /\ result.exclusions = [e \in Edge |-> "suspected_byzantine_behavior"]

(* With real connections an edge may miss readings without knowing; as     *)
(* long as a majority of the edges that are not made faulty held the last  *)
(* reading of every sensor when its view was copied, the round succeeds    *)
(* with all of them among its sources.                                     *)
UpToDate ==
  {e \in Edge : /\ Offset(faulty, e, "rpm") = 0
                /\ DOMAIN round[e] = Sensor
                /\ \A f \in Edge : round[e][SensorOf[f]] = acquired[f]}

UpToDateMajorityPrevails ==
  (/\ result \notin {Pending, Rejected, Raised}
   /\ Cardinality(UpToDate) >= Quorum(Edge))
     => result.status = "success" /\ UpToDate \subseteq result.sources

(* Once the broker knows every subscription and while the connections      *)
(* last, every edge comes to hold a reading of every sensor that is at     *)
(* least as new as the last one of the cycle.                              *)
SubscribedViewsConverge ==
  \A c \in 1..MaxCycles :
    (/\ cycle = c /\ published = 0
     /\ \A e \in Edge : link[e] = "subscribed")
      ~> (\A e, f \in Edge : /\ SensorOf[f] \in Holds(e)
                             /\ view[e][SensorOf[f]] >= c * Steps)
=============================================================================
