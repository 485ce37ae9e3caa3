------------------------- MODULE EdgeExchange_proofs -------------------------
(***************************************************************************)
(* What a round says about its edges, for any edges and order of them, any *)
(* number of acquisitions per cycle and of cycles, any faults and any      *)
(* compressor.                                                             *)
(*                                                                         *)
(* A view takes whatever message comes, so that it never regresses is a    *)
(* fact about the messages on their way: those of one publisher come in    *)
(* the order they were acquired, and none is older than what the view has  *)
(* of it.  An edge speaks with its last reading because every acquisition  *)
(* goes into its own view first, and because a round is built after every  *)
(* edge had its turn.                                                      *)
(*                                                                         *)
(* What the invariant says of an edge is an operator of its view, its      *)
(* inbox and the acquisitions (Sound); the lemmas say what keeps it: an    *)
(* acquisition, of its own or of a peer, a message sent to it and a        *)
(* message consumed.  The actions combine these.                           *)
(*                                                                         *)
(* What a subscribed edge lacks is on its way to it: the last reading of a *)
(* peer is in its view or in its inbox (SubscribersMissNothing).           *)
(*                                                                         *)
(* With the passive relay more is true: every view has the last reading of *)
(* every sensor (RelayKeepsUp), so the views of a round differ by the      *)
(* injected offsets alone.  The distances between edges are then those of  *)
(* the offsets, and the result of the round can be computed from them.     *)
(***************************************************************************)
EXTENDS EdgeExchange, FiniteSetTheorems, SequenceTheorems, TLAPS

Link == {"direct", "subscribing", "subscribed", "unsubscribed", "lost"}
Message == [from : Edge, number : Nat]
Views == UNION {[held -> Nat] : held \in SUBSET Sensor}
Counts == [Edge -> Nat]

(* The owner of view v, with what it acquired last. *)
OwnReading(e, v, counts) ==
  /\ counts[e] > 0 => SensorOf[e] \in DOMAIN v
  /\ SensorOf[e] \in DOMAIN v => v[SensorOf[e]] = counts[e]

(* No reading in view v is newer than the last acquisition of its sensor.  *)
NotAhead(v, counts) ==
  \A f \in Edge : SensorOf[f] \in DOMAIN v => v[SensorOf[f]] <= counts[f]

(* Message m to e is no newer than what its publisher acquired and, from a *)
(* peer, no older than what view v has of it.                              *)
Fits(e, m, v, counts) ==
  /\ m.number <= counts[m.from]
  /\ m.from # e /\ SensorOf[m.from] \in DOMAIN v => v[SensorOf[m.from]] <= m.number

(* The messages of one publisher come in the order of their acquisition.   *)
InOrder(q) ==
  \A i, j \in 1..Len(q) : i < j /\ q[i].from = q[j].from => q[i].number <= q[j].number

Sound(e, v, q, counts) ==
  /\ v \in Views
  /\ q \in Seq(Message)
  /\ OwnReading(e, v, counts)
  /\ NotAhead(v, counts)
  /\ \A i \in 1..Len(q) : Fits(e, q[i], v, counts)
  /\ InOrder(q)

(* View w has whatever v has, and nothing older. *)
Grows(v, w) ==
  /\ DOMAIN v \subseteq DOMAIN w
  /\ \A s \in DOMAIN v : v[s] <= w[s]

(* All edges have one transport, and the passive one needs no inbox. *)
OneTransport ==
  \/ \A e \in Edge : link[e] = "direct" /\ inbox[e] = << >>
  \/ \A e \in Edge : link[e] # "direct"

(* The edges that had a turn in this cycle acquired a reading. *)
EveryoneAcquires ==
  \A i \in 1..N : i <= published => acquired[EdgeOrder[i]] > 0

(* Views are copied after the last publication of the cycle. *)
RoundIsCurrent ==
  /\ DOMAIN round \subseteq Edge
  /\ DOMAIN round # {} => published = Steps * N
  /\ RoundHoldsLatestReadings

Shape ==
  /\ published \in Nat
  /\ acquired \in Counts
  /\ view \in [Edge -> Views]
  /\ link \in [Edge -> Link]
  /\ inbox \in [Edge -> Seq(Message)]

Inductive ==
  /\ Shape /\ OneTransport /\ EveryoneAcquires /\ RoundIsCurrent
  /\ \A e \in Edge : Sound(e, view[e], inbox[e], acquired)

-----------------------------------------------------------------------------
LEMMA NPositive == N \in Nat \ {0}
  BY EdgeAssumption, FS_CardinalityType, FS_EmptySet DEF N

(* Owners are told apart by their sensors. *)
LEMMA Owners ==
  /\ \A e \in Edge : SensorOf[e] \in Sensor
  /\ \A e, f \in Edge : SensorOf[e] = SensorOf[f] => e = f
  BY ExchangeAssumption

LEMMA MessageInInbox ==
  ASSUME NEW q \in Seq(Message), NEW i \in 1..Len(q)
  PROVE  q[i] \in Message /\ q[i].from \in Edge /\ q[i].number \in Nat
<1>1. q[i] \in Message
  OBVIOUS
<1> QED BY <1>1 DEF Message

LEMMA ViewReads ==
  ASSUME NEW v \in Views
  PROVE  /\ DOMAIN v \subseteq Sensor
         /\ \A s \in DOMAIN v : v[s] \in Nat
  BY DEF Views

(* update_from_payload changes one sensor of a view. *)
LEMMA UpdatedView ==
  ASSUME NEW v \in Views, NEW s \in Sensor, NEW n \in Nat
  PROVE  /\ Updated(v, s, n) \in Views
         /\ DOMAIN Updated(v, s, n) = DOMAIN v \cup {s}
         /\ Updated(v, s, n)[s] = n
         /\ \A r \in DOMAIN v : r # s => Updated(v, s, n)[r] = v[r]
<1> DEFINE held == DOMAIN v \cup {s}
           u == Updated(v, s, n)
<1>1. held \in SUBSET Sensor
  BY ViewReads
<1>2. u = [r \in held |-> IF r = s THEN n ELSE v[r]]
  BY DEF Updated
<1>3. \A r \in held : (IF r = s THEN n ELSE v[r]) \in Nat
  BY ViewReads
<1>4. u \in [held -> Nat]
  BY <1>2, <1>3
<1>5. u \in Views
  BY <1>1, <1>4 DEF Views
<1> QED BY <1>2, <1>5

-----------------------------------------------------------------------------
(* What keeps an edge's view and inbox sound. *)

LEMMA ViewGrows ==
  ASSUME NEW v \in Views, NEW s \in Sensor, NEW n \in Nat,
         s \in DOMAIN v => v[s] <= n
  PROVE  Grows(v, Updated(v, s, n))
<1> DEFINE u == Updated(v, s, n)
<1>1. /\ DOMAIN u = DOMAIN v \cup {s}
      /\ u[s] = n
      /\ \A r \in DOMAIN v : r # s => u[r] = v[r]
  BY UpdatedView
<1> HIDE DEF u
<1>2. \A r \in DOMAIN v : v[r] \in Nat
  BY ViewReads
<1>3. \A r \in DOMAIN v : v[r] <= u[r]
  BY <1>1, <1>2
<1>4. Grows(v, u)
  BY <1>1, <1>3 DEF Grows
<1> QED BY <1>4 DEF u

LEMMA GrowsTransitive ==
  ASSUME NEW u \in Views, NEW v \in Views, NEW w \in Views, Grows(u, v), Grows(v, w)
  PROVE  Grows(u, w)
<1>1. \A s \in DOMAIN u : u[s] <= v[s] /\ v[s] <= w[s] /\ u[s] \in Nat /\ v[s] \in Nat /\ w[s] \in Nat
  BY ViewReads DEF Grows
<1> QED BY <1>1 DEF Grows

LEMMA GrowsReflexive == ASSUME NEW v \in Views PROVE Grows(v, v)
  BY ViewReads DEF Grows

(* An edge acquires a reading, and its own view takes it. *)
LEMMA OwnAcquisition ==
  ASSUME NEW e \in Edge, NEW v, NEW q, NEW counts \in Counts, NEW after \in Counts,
         Sound(e, v, q, counts),
         after = [counts EXCEPT ![e] = @ + 1]
  PROVE  /\ Sound(e, Updated(v, SensorOf[e], counts[e] + 1), q, after)
         /\ Grows(v, Updated(v, SensorOf[e], counts[e] + 1))
<1> DEFINE s == SensorOf[e]  k == counts[e] + 1  w == Updated(v, s, k)
<1>1. /\ v \in Views /\ q \in Seq(Message) /\ s \in Sensor
      /\ counts[e] \in Nat /\ k \in Nat /\ after[e] = k
      /\ \A f \in Edge : /\ counts[f] \in Nat /\ after[f] \in Nat
                         /\ counts[f] <= after[f]
  BY Owners DEF Sound, Counts
<1>2. /\ w \in Views
      /\ DOMAIN w = DOMAIN v \cup {s}
      /\ w[s] = k
      /\ \A r \in DOMAIN v : r # s => w[r] = v[r]
  <2> HIDE DEF s, k
  <2>1. v \in Views /\ s \in Sensor /\ k \in Nat
    BY <1>1
  <2> QED BY <2>1, UpdatedView, Zenon
<1>3. Grows(v, w)
  <2>1. s \in DOMAIN v => v[s] <= k
    BY <1>1 DEF Sound, OwnReading
  <2> HIDE DEF s, k
  <2> QED BY <1>1, <2>1, ViewGrows
<1>4. \A f \in Edge : f # e => SensorOf[f] # s
  BY Owners
<1> HIDE DEF w
<1>5. OwnReading(e, w, after)
  BY <1>1, <1>2 DEF OwnReading
<1>6. NotAhead(w, after)
  <2> SUFFICES ASSUME NEW f \in Edge, SensorOf[f] \in DOMAIN w
               PROVE  w[SensorOf[f]] <= after[f]
    BY DEF NotAhead
  <2>1. CASE f = e
    BY <1>1, <1>2, <2>1
  <2>2. CASE f # e
    <3>1. SensorOf[f] \in DOMAIN v /\ w[SensorOf[f]] = v[SensorOf[f]]
      BY <1>2, <1>4, <2>2
    <3>2. v[SensorOf[f]] \in Nat /\ v[SensorOf[f]] <= counts[f]
      BY <1>1, <3>1, ViewReads DEF Sound, NotAhead
    <3> QED BY <1>1, <3>1, <3>2
  <2> QED BY <2>1, <2>2
<1>7. ASSUME NEW i \in 1..Len(q)
      PROVE  Fits(e, q[i], w, after)
  <2>1. /\ q[i] \in Message /\ q[i].from \in Edge /\ q[i].number \in Nat
        /\ Fits(e, q[i], v, counts)
    BY <1>1, MessageInInbox DEF Sound
  <2>2. q[i].number <= after[q[i].from]
    BY <1>1, <2>1 DEF Fits
  <2>3. q[i].from # e /\ SensorOf[q[i].from] \in DOMAIN w => w[SensorOf[q[i].from]] <= q[i].number
    BY <1>2, <1>4, <2>1 DEF Fits
  <2> QED BY <2>2, <2>3 DEF Fits
<1>8. Sound(e, w, q, after)
  BY <1>1, <1>2, <1>5, <1>6, <1>7 DEF Sound
<1> QED BY <1>3, <1>8 DEF w

(* A peer acquires a reading, and nothing of it has arrived. *)
LEMMA PeerAcquisition ==
  ASSUME NEW e \in Edge, NEW f \in Edge, f # e,
         NEW v, NEW q, NEW counts \in Counts, NEW after \in Counts,
         Sound(f, v, q, counts),
         after = [counts EXCEPT ![e] = @ + 1]
  PROVE  Sound(f, v, q, after)
<1>1. /\ after[f] = counts[f]
      /\ \A g \in Edge : counts[g] \in Nat /\ after[g] \in Nat /\ counts[g] <= after[g]
  BY DEF Counts
<1>2. v \in Views /\ q \in Seq(Message)
  BY DEF Sound
<1>3. OwnReading(f, v, after)
  BY <1>1 DEF Sound, OwnReading
<1>4. NotAhead(v, after)
  <2> SUFFICES ASSUME NEW g \in Edge, SensorOf[g] \in DOMAIN v
               PROVE  v[SensorOf[g]] <= after[g]
    BY DEF NotAhead
  <2>1. v[SensorOf[g]] \in Nat /\ v[SensorOf[g]] <= counts[g]
    BY <1>2, ViewReads DEF Sound, NotAhead
  <2> QED BY <1>1, <2>1
<1>5. ASSUME NEW i \in 1..Len(q)
      PROVE  Fits(f, q[i], v, after)
  <2>1. q[i].from \in Edge /\ q[i].number \in Nat /\ Fits(f, q[i], v, counts)
    BY <1>2, MessageInInbox DEF Sound
  <2> QED BY <1>1, <2>1 DEF Fits
<1> QED BY <1>2, <1>3, <1>4, <1>5 DEF Sound

(* The passive relay calls a peer back with the reading at once. *)
LEMMA PeerCalledBack ==
  ASSUME NEW e \in Edge, NEW f \in Edge, f # e,
         NEW v, NEW counts \in Counts, NEW after \in Counts,
         Sound(f, v, << >>, counts),
         after = [counts EXCEPT ![e] = @ + 1]
  PROVE  /\ Sound(f, Updated(v, SensorOf[e], counts[e] + 1), << >>, after)
         /\ Grows(v, Updated(v, SensorOf[e], counts[e] + 1))
<1> DEFINE s == SensorOf[e]  k == counts[e] + 1  w == Updated(v, s, k)
<1>1. /\ v \in Views /\ s \in Sensor
      /\ counts[e] \in Nat /\ k \in Nat /\ after[e] = k /\ after[f] = counts[f]
      /\ \A g \in Edge : after[g] \in Nat /\ (g # e => after[g] = counts[g])
  BY Owners DEF Sound, Counts
<1>2. /\ w \in Views
      /\ DOMAIN w = DOMAIN v \cup {s}
      /\ w[s] = k
      /\ \A r \in DOMAIN v : r # s => w[r] = v[r]
  <2> HIDE DEF s, k
  <2>1. v \in Views /\ s \in Sensor /\ k \in Nat
    BY <1>1
  <2> QED BY <2>1, UpdatedView, Zenon
<1>3. Grows(v, w)
  <2>1. s \in DOMAIN v => v[s] <= counts[e] /\ v[s] \in Nat
    BY <1>1, ViewReads DEF Sound, NotAhead
  <2>2. s \in DOMAIN v => v[s] <= k
    BY <1>1, <2>1
  <2> HIDE DEF s, k
  <2> QED BY <1>1, <2>2, ViewGrows
<1>4. \A g \in Edge : g # e => SensorOf[g] # s
  BY Owners
<1> HIDE DEF w
<1>5. OwnReading(f, w, after)
  BY <1>1, <1>2, <1>4 DEF Sound, OwnReading
<1>6. NotAhead(w, after)
  <2> SUFFICES ASSUME NEW g \in Edge, SensorOf[g] \in DOMAIN w
               PROVE  w[SensorOf[g]] <= after[g]
    BY DEF NotAhead
  <2>1. CASE g = e
    BY <1>1, <1>2, <2>1
  <2>2. CASE g # e
    BY <1>1, <1>2, <1>4, <2>2 DEF Sound, NotAhead
  <2> QED BY <2>1, <2>2
<1>7. Sound(f, w, << >>, after)
  BY <1>2, <1>5, <1>6 DEF Sound, InOrder
<1> QED BY <1>3, <1>7 DEF w

(* The broker adds the reading a peer, or the edge itself, acquired last.  *)
LEMMA MessageSent ==
  ASSUME NEW e \in Edge, NEW f \in Edge, NEW v, NEW q, NEW counts \in Counts,
         NEW m \in Message, m.from = e, m.number = counts[e],
         Sound(f, v, q, counts)
  PROVE  Sound(f, v, Append(q, m), counts)
<1> DEFINE p == Append(q, m)
<1>1. v \in Views /\ q \in Seq(Message) /\ m.number \in Nat /\ counts[e] \in Nat
  BY DEF Sound, Message
<1>2. /\ p \in Seq(Message)
      /\ Len(q) \in Nat
      /\ Len(p) = Len(q) + 1
      /\ p[Len(q) + 1] = m
      /\ \A i \in 1..Len(q) : p[i] = q[i]
  BY <1>1
<1> HIDE DEF p
<1>3. \A i \in 1..Len(q) : Fits(f, q[i], v, counts)
  BY DEF Sound
<1>4. Fits(f, m, v, counts)
  BY <1>1 DEF Fits, Sound, NotAhead
<1>5. \A i \in 1..Len(p) : Fits(f, p[i], v, counts)
  <2> TAKE i \in 1..Len(p)
  <2>1. CASE i \in 1..Len(q)
    BY <1>2, <1>3, <2>1
  <2>2. CASE i = Len(q) + 1
    BY <1>2, <1>4, <2>2
  <2> QED BY <1>2, <2>1, <2>2
<1>6. InOrder(p)
  <2> SUFFICES ASSUME NEW i \in 1..Len(p), NEW j \in 1..Len(p), i < j, p[i].from = p[j].from
               PROVE  p[i].number <= p[j].number
    BY DEF InOrder
  <2>1. i \in 1..Len(q) /\ p[i] = q[i]
    BY <1>2
  <2>2. CASE j \in 1..Len(q)
    BY <1>2, <2>1, <2>2 DEF Sound, InOrder
  <2>3. CASE j = Len(q) + 1
    BY <1>2, <1>3, <2>1, <2>3 DEF Fits
  <2> QED BY <1>2, <2>2, <2>3
<1>7. Sound(f, v, p, counts)
  BY <1>1, <1>2, <1>5, <1>6 DEF Sound
<1> QED BY <1>7 DEF p

(* consume_peer_observation of the message that comes first. *)
LEMMA MessageConsumed ==
  ASSUME NEW e \in Edge, NEW v, NEW q, NEW counts \in Counts, NEW w,
         Sound(e, v, q, counts), q # << >>,
         w = IF Head(q).from = e THEN v ELSE Updated(v, SensorOf[Head(q).from], Head(q).number)
  PROVE  Sound(e, w, Tail(q), counts) /\ Grows(v, w)
<1> DEFINE m == Head(q)  t == Tail(q)
<1>1. v \in Views /\ q \in Seq(Message)
  BY DEF Sound
<1>2. /\ Len(q) \in Nat /\ 1 \in 1..Len(q) /\ m = q[1]
      /\ t \in Seq(Message)
      /\ \A i \in 1..Len(t) : i + 1 \in 1..Len(q) /\ t[i] = q[i + 1]
  BY <1>1
<1>3. m \in Message /\ m.from \in Edge /\ m.number \in Nat /\ SensorOf[m.from] \in Sensor
  BY <1>1, <1>2, MessageInInbox, Owners
<1>4. \A i \in 1..Len(q) : Fits(e, q[i], v, counts)
  BY DEF Sound
<1> HIDE DEF m, t
<1>5. Fits(e, m, v, counts)
  BY <1>2, <1>4
<1>6. \A i \in 1..Len(t) : Fits(e, t[i], v, counts)
  BY <1>2, <1>4
<1>7. \A i \in 1..Len(t) : t[i].from = m.from => m.number <= t[i].number
  <2> TAKE i \in 1..Len(t)
  <2>1. i + 1 \in 1..Len(q) /\ t[i] = q[i + 1] /\ 1 < i + 1
    BY <1>2
  <2> QED BY <1>2, <2>1 DEF Sound, InOrder
<1>8. InOrder(t)
  <2> SUFFICES ASSUME NEW i \in 1..Len(t), NEW j \in 1..Len(t), i < j, t[i].from = t[j].from
               PROVE  t[i].number <= t[j].number
    BY DEF InOrder
  <2>1. /\ i + 1 \in 1..Len(q) /\ t[i] = q[i + 1]
        /\ j + 1 \in 1..Len(q) /\ t[j] = q[j + 1] /\ i + 1 < j + 1
    BY <1>2
  <2> QED BY <2>1 DEF Sound, InOrder
<1>9. CASE m.from = e
  <2>1. w = v
    BY <1>9 DEF m
  <2> QED BY <1>1, <1>2, <1>6, <1>8, <2>1, GrowsReflexive DEF Sound, t
<1>10. CASE m.from # e
  <2> DEFINE s == SensorOf[m.from]
  <2>1. w = Updated(v, s, m.number) /\ s \in Sensor
    BY <1>3, <1>10 DEF m
  <2>2. \A f \in Edge : f # m.from => SensorOf[f] # s
    BY <1>3, Owners
  <2>3. s \in DOMAIN v => v[s] <= m.number
    BY <1>5, <1>10 DEF Fits
  <2> HIDE DEF s
  <2>4. /\ w \in Views
        /\ DOMAIN w = DOMAIN v \cup {s}
        /\ w[s] = m.number
        /\ \A r \in DOMAIN v : r # s => w[r] = v[r]
    <3>1. v \in Views /\ s \in Sensor /\ m.number \in Nat
      BY <1>1, <1>3, <2>1
    <3> DEFINE u == Updated(v, s, m.number)
    <3>2. /\ u \in Views
          /\ DOMAIN u = DOMAIN v \cup {s}
          /\ u[s] = m.number
          /\ \A r \in DOMAIN v : r # s => u[r] = v[r]
      BY <3>1, UpdatedView
    <3> HIDE DEF u
    <3>3. w = u
      BY <2>1 DEF u
    <3> QED BY <3>2, <3>3
  <2>5. Grows(v, w)
    <3>1. v \in Views /\ s \in Sensor /\ m.number \in Nat
      BY <1>1, <1>3, <2>1
    <3>2. Grows(v, Updated(v, s, m.number))
      BY <2>3, <3>1, ViewGrows
    <3> QED BY <2>1, <3>2
  <2>6. OwnReading(e, w, counts)
    BY <1>10, <2>2, <2>4 DEF Sound, OwnReading
  <2>7. NotAhead(w, counts)
    <3> SUFFICES ASSUME NEW f \in Edge, SensorOf[f] \in DOMAIN w
                 PROVE  w[SensorOf[f]] <= counts[f]
      BY DEF NotAhead
    <3>1. CASE f = m.from
      BY <1>5, <2>4, <3>1 DEF Fits, s
    <3>2. CASE f # m.from
      BY <2>2, <2>4, <3>2 DEF Sound, NotAhead
    <3> QED BY <3>1, <3>2
  <2>8. \A i \in 1..Len(t) : Fits(e, t[i], w, counts)
    <3> TAKE i \in 1..Len(t)
    <3>1. t[i].from \in Edge /\ Fits(e, t[i], v, counts)
      BY <1>2, <1>6, MessageInInbox
    <3>2. CASE t[i].from = m.from
      BY <1>7, <2>4, <3>1, <3>2 DEF Fits, s
    <3>3. CASE t[i].from # m.from
      BY <2>2, <2>4, <3>1, <3>3 DEF Fits
    <3> QED BY <3>2, <3>3
  <2>9. Sound(e, w, t, counts)
    BY <1>2, <1>8, <2>4, <2>6, <2>7, <2>8 DEF Sound
  <2> QED BY <2>5, <2>9 DEF t
<1> QED BY <1>9, <1>10

(* A lost connection loses the messages on their way. *)
LEMMA InboxLost ==
  ASSUME NEW e \in Edge, NEW v, NEW q, NEW counts, Sound(e, v, q, counts)
  PROVE  Sound(e, v, << >>, counts)
  BY DEF Sound, InOrder

-----------------------------------------------------------------------------
(* The main thread. *)

(* A runtime that was just built: new edges, and no round. *)
Fresh ==
  /\ published = 0
  /\ round = [e \in {} |-> Nothing]
  /\ \E transport \in {"passive", "real"} :
       /\ acquired = FreshRuntime(transport).acquired
       /\ view = FreshRuntime(transport).view
       /\ link = FreshRuntime(transport).link
       /\ inbox = FreshRuntime(transport).inbox

(* New edges hold nothing. *)
LEMMA FreshIsInductive == Fresh => Inductive
<1> SUFFICES ASSUME published = 0, round = [e \in {} |-> Nothing],
                    NEW transport \in {"passive", "real"},
                    acquired = FreshRuntime(transport).acquired,
                    view = FreshRuntime(transport).view,
                    link = FreshRuntime(transport).link,
                    inbox = FreshRuntime(transport).inbox
             PROVE  Inductive
  BY DEF Fresh
<1>1. /\ acquired = [e \in Edge |-> 0]
      /\ view = [e \in Edge |-> Nothing]
      /\ link = [e \in Edge |-> IF transport = "passive" THEN "direct" ELSE "subscribing"]
      /\ inbox = [e \in Edge |-> << >>]
  BY DEF FreshRuntime
<1>2. Nothing \in Views /\ DOMAIN Nothing = {}
  <2>1. Nothing \in [{} -> Nat] /\ {} \in SUBSET Sensor
    BY DEF Nothing
  <2>2. Nothing \in Views
    BY <2>1 DEF Views
  <2> QED BY <2>1, <2>2
<1>3. Shape
  BY <1>1, <1>2 DEF Shape, Link, Counts
<1>4. OneTransport
  BY <1>1 DEF OneTransport
<1>5. ASSUME NEW e \in Edge
      PROVE  Sound(e, view[e], inbox[e], acquired)
  BY <1>1, <1>2 DEF Sound, OwnReading, NotAhead, InOrder
<1>6. EveryoneAcquires
  BY NPositive DEF EveryoneAcquires, N
<1>7. RoundIsCurrent
  BY DEF RoundIsCurrent, RoundHoldsLatestReadings
<1> QED BY <1>3, <1>4, <1>5, <1>6, <1>7 DEF Inductive

LEMMA StartIsInductive == StartRuntime => Inductive'
<1>1. StartRuntime => Fresh'
  BY DEF StartRuntime, Fresh
<1> QED BY <1>1, FreshIsInductive, PTL

(* A turn: its edge acquires a reading, and no round is begun. *)
LEMMA TurnAcquires ==
  ASSUME Inductive, NEW e \in Edge, Turn(e), Observe(e)
  PROVE  /\ published' \in Nat
         /\ acquired' \in Counts
         /\ acquired' = [acquired EXCEPT ![e] = @ + 1]
         /\ EveryoneAcquires' /\ RoundIsCurrent'
<1>1. /\ published \in Nat /\ acquired \in Counts
      /\ published' = published + 1
      /\ acquired' = [acquired EXCEPT ![e] = @ + 1]
      /\ round' = round
  BY DEF Inductive, Shape, Observe
<1>2. /\ acquired' \in Counts
      /\ acquired'[e] = acquired[e] + 1
      /\ \A f \in Edge : acquired[f] \in Nat /\ acquired'[f] \in Nat /\ acquired[f] <= acquired'[f]
  BY <1>1 DEF Counts
<1>3. EveryoneAcquires'
  <2> SUFFICES ASSUME NEW i \in 1..N, i <= published + 1
               PROVE  acquired'[EdgeOrder[i]] > 0
    BY <1>1 DEF EveryoneAcquires, N
  <2>1. EdgeOrder[i] \in Edge
    BY ExchangeAssumption
  <2>2. CASE i <= published
    BY <1>2, <2>1, <2>2 DEF Inductive, EveryoneAcquires
  <2>3. CASE i = published + 1
    <3>1. published < N
      BY <1>1, <2>3, NPositive
    <3>2. published % N = published
      BY <1>1, <3>1, NPositive
    <3>3. e = EdgeOrder[i]
      BY <2>3, <3>2 DEF Turn
    <3>4. QED BY <1>2, <3>3
  <2>4. QED BY <1>1, <2>2, <2>3, NPositive
<1>4. DOMAIN round = {}
  <2> DEFINE all == Steps * N
  <2>1. published < all /\ (DOMAIN round # {} => published = all)
    BY DEF Turn, Inductive, RoundIsCurrent
  <2>2. all \in Nat
    BY ExchangeAssumption, NPositive
  <2> HIDE DEF all
  <2>3. published # all
    BY <1>1, <2>1, <2>2
  <2> QED BY <2>1, <2>3, Zenon
<1>5. RoundIsCurrent'
  BY <1>1, <1>4 DEF RoundIsCurrent, RoundHoldsLatestReadings
<1> QED BY <1>1, <1>2, <1>3, <1>5

(* What a step must keep of every edge, and what no view may lose. *)
EdgesKept ==
  \A f \in Edge : /\ Sound(f, view'[f], inbox'[f], acquired')
                  /\ Grows(view[f], view'[f])

Advances ==
  \A e \in Edge : /\ Holds(e) \subseteq DOMAIN view'[e]
                  /\ \A s \in Holds(e) : view[e][s] <= view'[e][s]

LEMMA PassivePublication ==
  ASSUME Inductive, NEW e \in Edge, PublishPassive(e)
  PROVE  Inductive' /\ EdgesKept
<1> DEFINE k == acquired[e] + 1
<1>1. /\ acquired \in Counts /\ acquired' \in Counts
      /\ acquired' = [acquired EXCEPT ![e] = @ + 1]
      /\ acquired'[e] = k
      /\ published' \in Nat /\ EveryoneAcquires' /\ RoundIsCurrent'
  BY TurnAcquires DEF PublishPassive, Inductive, Shape, Counts
<1>2. /\ view' = [f \in Edge |-> Updated(view[f], SensorOf[e], k)]
      /\ link' = link /\ inbox' = inbox
  BY <1>1 DEF PublishPassive, Observe
<1>3. \A f \in Edge : link[f] = "direct" /\ inbox[f] = << >>
  BY DEF PublishPassive, Passive, Inductive, OneTransport
<1>4. EdgesKept
  <2> SUFFICES ASSUME NEW f \in Edge
               PROVE  /\ Sound(f, view'[f], inbox'[f], acquired')
                      /\ Grows(view[f], view'[f])
    BY DEF EdgesKept
  <2>1. /\ view'[f] = Updated(view[f], SensorOf[e], acquired[e] + 1)
        /\ inbox'[f] = inbox[f] /\ inbox[f] = << >>
        /\ Sound(f, view[f], inbox[f], acquired)
    BY <1>2, <1>3 DEF Inductive
  <2>2. CASE f = e
    <3>1. /\ Sound(e, Updated(view[e], SensorOf[e], acquired[e] + 1), inbox[e], acquired')
          /\ Grows(view[e], Updated(view[e], SensorOf[e], acquired[e] + 1))
      BY <1>1, <2>1, <2>2, OwnAcquisition
    <3> QED BY <2>1, <2>2, <3>1
  <2>3. CASE f # e
    <3>1. Sound(f, view[f], << >>, acquired)
      BY <2>1
    <3>2. /\ Sound(f, Updated(view[f], SensorOf[e], acquired[e] + 1), << >>, acquired')
          /\ Grows(view[f], Updated(view[f], SensorOf[e], acquired[e] + 1))
      BY <1>1, <2>3, <3>1, PeerCalledBack
    <3> QED BY <2>1, <3>2
  <2> QED BY <2>2, <2>3
<1>5. Shape'
  BY <1>1, <1>2, <1>4 DEF Inductive, Shape, EdgesKept, Sound
<1>6. OneTransport'
  BY <1>2, <1>3 DEF OneTransport
<1> QED BY <1>1, <1>4, <1>5, <1>6 DEF Inductive, EdgesKept

LEMMA RealPublication ==
  ASSUME Inductive, NEW e \in Edge, PublishReal(e)
  PROVE  Inductive' /\ EdgesKept
<1> DEFINE k == acquired[e] + 1
           sent == [from |-> e, number |-> acquired'[e]]
<1>1. /\ acquired \in Counts /\ acquired' \in Counts
      /\ acquired' = [acquired EXCEPT ![e] = @ + 1]
      /\ acquired'[e] = k
      /\ published' \in Nat /\ EveryoneAcquires' /\ RoundIsCurrent'
  BY TurnAcquires DEF PublishReal, Inductive, Shape, Counts
<1>2. /\ view \in [Edge -> Views] /\ inbox \in [Edge -> Seq(Message)]
      /\ \A f \in Edge : Sound(f, view[f], inbox[f], acquired)
  BY DEF Inductive, Shape
<1>3. /\ view'[e] = Updated(view[e], SensorOf[e], k)
      /\ \A f \in Edge \ {e} : view'[f] = view[f]
      /\ view' = [f \in Edge |-> view'[f]]
      /\ link' = link
  BY <1>1, <1>2 DEF PublishReal, Observe
<1>4. /\ \A f \in Edge : inbox'[f] = inbox[f] \/ inbox'[f] = Append(inbox[f], sent)
      /\ inbox' = [f \in Edge |-> inbox'[f]]
  BY DEF PublishReal
<1>5. sent \in Message /\ sent.from = e /\ sent.number = acquired'[e]
  BY <1>1 DEF Message, Counts
<1>6. EdgesKept
  <2> SUFFICES ASSUME NEW f \in Edge
               PROVE  /\ Sound(f, view'[f], inbox'[f], acquired')
                      /\ Grows(view[f], view'[f])
    BY DEF EdgesKept
  <2>1. Sound(f, view'[f], inbox[f], acquired') /\ Grows(view[f], view'[f])
    <3>1. CASE f = e
      <4>1. Sound(e, view[e], inbox[e], acquired)
        BY <1>2
      <4>2. /\ Sound(e, Updated(view[e], SensorOf[e], acquired[e] + 1), inbox[e], acquired')
            /\ Grows(view[e], Updated(view[e], SensorOf[e], acquired[e] + 1))
        BY <1>1, <4>1, OwnAcquisition
      <4> QED BY <1>3, <3>1, <4>2
    <3>2. CASE f # e
      <4>1. view[f] \in Views /\ view'[f] = view[f] /\ Sound(f, view[f], inbox[f], acquired)
        BY <1>2, <1>3, <3>2
      <4>2. Sound(f, view[f], inbox[f], acquired')
        BY <1>1, <3>2, <4>1, PeerAcquisition
      <4> QED BY <4>1, <4>2, GrowsReflexive
    <3> QED BY <3>1, <3>2
  <2> HIDE DEF sent
  <2>2. Sound(f, view'[f], Append(inbox[f], sent), acquired')
    BY <1>1, <1>5, <2>1, MessageSent
  <2> QED BY <1>4, <2>1, <2>2
<1>7. Shape'
  BY <1>1, <1>3, <1>4, <1>6 DEF Inductive, Shape, EdgesKept, Sound
<1>8. OneTransport'
  BY <1>3 DEF OneTransport, Inductive, PublishReal, Passive
<1> QED BY <1>1, <1>6, <1>7, <1>8 DEF Inductive, EdgesKept

LEMMA InterruptedPublication ==
  ASSUME Inductive, NEW e \in Edge, PublishRaises(e)
  PROVE  Inductive' /\ EdgesKept
<1> DEFINE m == Head(inbox[e])  w == Consumed(e, m)
           u == Updated(w, SensorOf[e], acquired[e] + 1)
<1>1. /\ acquired \in Counts /\ acquired' \in Counts
      /\ acquired' = [acquired EXCEPT ![e] = @ + 1]
      /\ published' \in Nat /\ EveryoneAcquires' /\ RoundIsCurrent'
  BY TurnAcquires DEF PublishRaises, Inductive, Shape
<1>2. /\ view \in [Edge -> Views] /\ inbox \in [Edge -> Seq(Message)]
      /\ \A f \in Edge : Sound(f, view[f], inbox[f], acquired)
  BY DEF Inductive, Shape
<1>3. /\ inbox[e] # << >>
      /\ view' = [view EXCEPT ![e] = u]
      /\ inbox' = [inbox EXCEPT ![e] = Tail(@)]
      /\ link' = link
  BY DEF PublishRaises, Observe
<1>4. Sound(e, w, Tail(inbox[e]), acquired) /\ Grows(view[e], w)
  <2>1. w = IF Head(inbox[e]).from = e THEN view[e]
            ELSE Updated(view[e], SensorOf[Head(inbox[e]).from], Head(inbox[e]).number)
    BY DEF Consumed
  <2>2. Sound(e, view[e], inbox[e], acquired)
    BY <1>2
  <2> QED BY <1>1, <1>3, <2>1, <2>2, MessageConsumed
<1> HIDE DEF w
<1>5. Sound(e, u, Tail(inbox[e]), acquired') /\ Grows(w, u)
  BY <1>1, <1>4, OwnAcquisition
<1> HIDE DEF u
<1>6. Grows(view[e], u)
  <2>1. view[e] \in Views /\ w \in Views /\ u \in Views
    BY <1>2, <1>4, <1>5 DEF Sound
  <2> QED BY <1>4, <1>5, <2>1, GrowsTransitive
<1>7. EdgesKept
  <2> SUFFICES ASSUME NEW f \in Edge
               PROVE  /\ Sound(f, view'[f], inbox'[f], acquired')
                      /\ Grows(view[f], view'[f])
    BY DEF EdgesKept
  <2>1. CASE f = e
    BY <1>2, <1>3, <1>5, <1>6, <2>1
  <2>2. CASE f # e
    <3>1. /\ view[f] \in Views /\ view'[f] = view[f] /\ inbox'[f] = inbox[f]
          /\ Sound(f, view[f], inbox[f], acquired)
      BY <1>2, <1>3, <2>2
    <3>2. Sound(f, view[f], inbox[f], acquired')
      BY <1>1, <2>2, <3>1, PeerAcquisition
    <3> QED BY <3>1, <3>2, GrowsReflexive
  <2> QED BY <2>1, <2>2
<1>8. Shape'
  <2>1. u \in Views /\ Tail(inbox[e]) \in Seq(Message)
    BY <1>5 DEF Sound
  <2> QED BY <1>1, <1>2, <1>3, <2>1 DEF Inductive, Shape
<1>9. OneTransport'
  BY <1>3 DEF OneTransport, Inductive, PublishRaises, Passive
<1> QED BY <1>1, <1>7, <1>8, <1>9 DEF Inductive, EdgesKept

(* A view is copied: every edge had its turn, so it holds its own reading. *)
LEMMA ViewCopied ==
  ASSUME Inductive, NEW e \in Edge, CopyView(e)
  PROVE  RoundIsCurrent'
<1>1. /\ published = Steps * N /\ published' = published
      /\ acquired' = acquired
      /\ round' = [f \in DOMAIN round \cup {e} |-> IF f = e THEN view[e] ELSE round[f]]
  BY DEF CopyView
<1>2. acquired[e] > 0
  <2>1. Steps * N >= N
    <3>1. Steps \in Nat \ {0} /\ N \in Nat \ {0}
      BY ExchangeAssumption, NPositive
    <3> QED BY <3>1
  <2>2. PICK i \in 1..N : EdgeOrder[i] = e
    BY ExchangeAssumption
  <2> QED BY <1>1, <2>1, <2>2, NPositive DEF Inductive, EveryoneAcquires
<1>3. DOMAIN round \subseteq Edge /\ RoundHoldsLatestReadings
  BY DEF Inductive, RoundIsCurrent
<1>4. /\ SensorOf[e] \in DOMAIN view[e]
      /\ view[e][SensorOf[e]] = acquired[e]
      /\ \A f \in Edge : SensorOf[f] \in DOMAIN view[e] => view[e][SensorOf[f]] <= acquired[f]
  BY <1>2 DEF Inductive, Sound, OwnReading, NotAhead
<1>5. RoundHoldsLatestReadings'
  <2> SUFFICES ASSUME NEW g \in DOMAIN round'
               PROVE  /\ SensorOf[g] \in DOMAIN round'[g]
                      /\ \A f \in Edge : SensorOf[f] \in DOMAIN round'[g] =>
                           /\ round'[g][SensorOf[f]] <= acquired'[f]
                           /\ g = f => round'[g][SensorOf[f]] = acquired'[f]
    BY Zenon DEF RoundHoldsLatestReadings
  <2>1. CASE g = e
    <3>1. round'[g] = view[e]
      BY <1>1, <2>1
    <3> QED BY <1>1, <1>4, <2>1, <3>1
  <2>2. CASE g # e
    <3>1. g \in DOMAIN round /\ round'[g] = round[g]
      BY <1>1, <2>2
    <3> QED BY <1>1, <1>3, <3>1 DEF RoundHoldsLatestReadings
  <2> QED BY <2>1, <2>2
<1>6. DOMAIN round' \subseteq Edge
  BY <1>1, <1>3
<1> QED BY <1>1, <1>5, <1>6 DEF RoundIsCurrent

(* Steps that leave the edges as they are. *)
LEMMA EdgesUntouched ==
  ASSUME Inductive, UNCHANGED <<acquired, view, inbox>>
  PROVE  EdgesKept
<1>1. \A f \in Edge : view[f] \in Views /\ Sound(f, view[f], inbox[f], acquired)
  BY DEF Inductive, Shape
<1> QED BY <1>1, GrowsReflexive DEF EdgesKept

-----------------------------------------------------------------------------
(* The network. *)

LEMMA Delivery ==
  ASSUME Inductive, NEW e \in Edge, Deliver(e)
  PROVE  Inductive' /\ EdgesKept
<1> DEFINE w == Consumed(e, Head(inbox[e]))
<1>1. /\ acquired \in Counts
      /\ view \in [Edge -> Views] /\ inbox \in [Edge -> Seq(Message)]
      /\ \A f \in Edge : Sound(f, view[f], inbox[f], acquired)
  BY DEF Inductive, Shape
<1>2. /\ inbox[e] # << >>
      /\ view' = [view EXCEPT ![e] = w]
      /\ inbox' = [inbox EXCEPT ![e] = Tail(@)]
      /\ UNCHANGED <<link, published, round, acquired>>
  BY DEF Deliver, mainVars
<1>3. Sound(e, w, Tail(inbox[e]), acquired) /\ Grows(view[e], w)
  <2>1. w = IF Head(inbox[e]).from = e THEN view[e]
            ELSE Updated(view[e], SensorOf[Head(inbox[e]).from], Head(inbox[e]).number)
    BY DEF Consumed
  <2>2. Sound(e, view[e], inbox[e], acquired)
    BY <1>1
  <2> QED BY <1>1, <1>2, <2>1, <2>2, MessageConsumed
<1> HIDE DEF w
<1>4. EdgesKept
  <2> SUFFICES ASSUME NEW f \in Edge
               PROVE  /\ Sound(f, view'[f], inbox'[f], acquired')
                      /\ Grows(view[f], view'[f])
    BY DEF EdgesKept
  <2>1. CASE f = e
    BY <1>1, <1>2, <1>3, <2>1
  <2>2. CASE f # e
    <3>1. /\ view[f] \in Views /\ view'[f] = view[f] /\ inbox'[f] = inbox[f]
          /\ Sound(f, view[f], inbox[f], acquired)
      BY <1>1, <1>2, <2>2
    <3> QED BY <1>2, <3>1, GrowsReflexive
  <2> QED BY <2>1, <2>2
<1>5. Shape'
  <2>1. w \in Views /\ Tail(inbox[e]) \in Seq(Message)
    BY <1>3 DEF Sound
  <2> QED BY <1>1, <1>2, <2>1 DEF Inductive, Shape
<1>6. OneTransport'
  BY <1>2 DEF OneTransport, Inductive
<1>7. EveryoneAcquires' /\ RoundIsCurrent'
  BY <1>2 DEF Inductive, EveryoneAcquires, RoundIsCurrent, RoundHoldsLatestReadings
<1> QED BY <1>4, <1>5, <1>6, <1>7 DEF Inductive, EdgesKept

(* Connections come and go, and take the inbox with them. *)
LEMMA Connections ==
  ASSUME Inductive, NEW e \in Edge, Subscribe(e) \/ Disconnect(e) \/ Reconnect(e)
  PROVE  Inductive' /\ EdgesKept
<1>1. /\ UNCHANGED <<published, round, acquired, view>>
      /\ link[e] # "direct"
      /\ \E to \in Link \ {"direct"} : link' = [link EXCEPT ![e] = to]
      /\ inbox' = inbox \/ inbox' = [inbox EXCEPT ![e] = << >>]
  BY DEF Subscribe, Disconnect, Reconnect, mainVars, Link
<1>2. /\ view \in [Edge -> Views] /\ inbox \in [Edge -> Seq(Message)]
      /\ link \in [Edge -> Link]
      /\ \A f \in Edge : Sound(f, view[f], inbox[f], acquired)
  BY DEF Inductive, Shape
<1>3. EdgesKept
  <2> SUFFICES ASSUME NEW f \in Edge
               PROVE  /\ Sound(f, view[f], inbox'[f], acquired)
                      /\ Grows(view[f], view[f])
    BY <1>1 DEF EdgesKept
  <2>1. inbox'[f] = inbox[f] \/ inbox'[f] = << >>
    BY <1>1, <1>2
  <2>2. Sound(f, view[f], inbox[f], acquired) /\ view[f] \in Views
    BY <1>2
  <2> QED BY <2>1, <2>2, InboxLost, GrowsReflexive
<1>4. Shape'
  <2>1. link' \in [Edge -> Link]
    BY <1>1, <1>2
  <2>2. inbox' \in [Edge -> Seq(Message)]
    <3>1. << >> \in Seq(Message)
      OBVIOUS
    <3> QED BY <1>1, <1>2, <3>1
  <2> QED BY <1>1, <2>1, <2>2 DEF Inductive, Shape
<1>5. OneTransport'
  <2>1. \A f \in Edge : link[f] # "direct"
    BY <1>1 DEF Inductive, OneTransport
  <2> QED BY <1>1, <1>2, <2>1 DEF OneTransport
<1>6. EveryoneAcquires' /\ RoundIsCurrent'
  BY <1>1 DEF Inductive, EveryoneAcquires, RoundIsCurrent, RoundHoldsLatestReadings
<1> QED BY <1>3, <1>4, <1>5, <1>6 DEF Inductive, EdgesKept

-----------------------------------------------------------------------------
(* Every step keeps the invariant, and every step but the start of a       *)
(* runtime keeps what the views hold.                                      *)
LEMMA StepKeeps ==
  ASSUME Inductive, Next
  PROVE  Inductive' /\ (StartRuntime \/ EdgesKept)
<1>1. CASE StartRuntime
  BY <1>1, StartIsInductive
<1>2. ASSUME NEW targets \in FaultTargets, StartCycle(targets)
      PROVE  Inductive' /\ EdgesKept
  <2>1. /\ published' = 0 /\ round' = [e \in {} |-> Nothing]
        /\ UNCHANGED <<acquired, view, link, inbox>>
    BY <1>2 DEF StartCycle
  <2>2. EdgesKept
    BY <2>1, EdgesUntouched
  <2>3. Shape' /\ OneTransport'
    BY <2>1 DEF Inductive, Shape, OneTransport
  <2>4. EveryoneAcquires'
    BY <2>1, NPositive DEF EveryoneAcquires, N
  <2>5. RoundIsCurrent'
    BY <2>1 DEF RoundIsCurrent, RoundHoldsLatestReadings
  <2> QED BY <2>2, <2>3, <2>4, <2>5 DEF Inductive, EdgesKept
<1>3. ASSUME NEW e \in Edge, CopyView(e)
      PROVE  Inductive' /\ EdgesKept
  <2>1. UNCHANGED <<published, acquired, view, link, inbox>>
    BY <1>3 DEF CopyView
  <2>2. EdgesKept
    BY <2>1, EdgesUntouched
  <2>3. Shape' /\ OneTransport' /\ EveryoneAcquires'
    BY <2>1 DEF Inductive, Shape, OneTransport, EveryoneAcquires
  <2> QED BY <1>3, <2>2, <2>3, ViewCopied DEF Inductive, EdgesKept
<1>4. CASE SubmitRound
  <2>1. UNCHANGED <<published, round, acquired, view, link, inbox>>
    BY <1>4 DEF SubmitRound
  <2>2. EdgesKept
    BY <2>1, EdgesUntouched
  <2>3. Inductive'
    BY <2>1 DEF Inductive, Shape, OneTransport, EveryoneAcquires, RoundIsCurrent,
                RoundHoldsLatestReadings
  <2> QED BY <2>2, <2>3
<1>5. ASSUME NEW e \in Edge,
             PublishPassive(e) \/ PublishReal(e) \/ PublishRaises(e)
               \/ Deliver(e) \/ Subscribe(e) \/ Disconnect(e) \/ Reconnect(e)
      PROVE  Inductive' /\ EdgesKept
  BY <1>5, PassivePublication, RealPublication, InterruptedPublication, Delivery, Connections
<1> QED BY <1>1, <1>2, <1>3, <1>4, <1>5 DEF Next, Main, Network

LEMMA InductiveHolds == Spec => []Inductive
<1>1. Init => Inductive
  <2>1. Init => Fresh
    BY ExchangeAssumption DEF Init, Fresh
  <2> QED BY <2>1, FreshIsInductive
<1>2. Inductive /\ [Next]_vars => Inductive'
  <2> SUFFICES ASSUME Inductive, [Next]_vars PROVE Inductive'
    OBVIOUS
  <2>1. CASE Next
    BY <2>1, StepKeeps
  <2>2. CASE UNCHANGED vars
    BY <2>2 DEF vars, Inductive, Shape, OneTransport, EveryoneAcquires, RoundIsCurrent,
                RoundHoldsLatestReadings
  <2> QED BY <2>1, <2>2
<1> QED BY <1>1, <1>2, PTL DEF Spec

(* Each edge speaks for its own sensor with the last reading it acquired,  *)
(* and no view in a round is ahead of the owner of a sensor                *)
(* (build_consensus_round_input), whatever the transport, the connections  *)
(* and the moments at which the views are copied.                          *)
THEOREM RoundHoldsLatest == Spec => []RoundHoldsLatestReadings
<1>1. Inductive => RoundHoldsLatestReadings
  BY DEF Inductive, RoundIsCurrent
<1> QED BY <1>1, InductiveHolds, PTL

(* While a runtime lasts, no edge loses a reading or replaces it by an     *)
(* older one (update_from_payload, consume_peer_observation), although     *)
(* neither looks at a reading's time.                                      *)
THEOREM ViewsAdvance == Spec => ViewsNeverRegress
<1>1. Inductive /\ [Next]_vars => [StartRuntime \/ Advances]_vars
  <2>1. EdgesKept => Advances
    BY DEF EdgesKept, Advances, Grows, Holds
  <2> QED BY <2>1, StepKeeps, Zenon
<1> QED BY <1>1, InductiveHolds, PTL DEF Spec, ViewsNeverRegress, Advances

-----------------------------------------------------------------------------
(* What a subscription is worth. *)

(* View v has the last of counts[e] readings of e, or queue q brings it.   *)
Has(e, v, q, counts) ==
  \/ SensorOf[e] \in DOMAIN v /\ v[SensorOf[e]] = counts[e]
  \/ \E i \in 1..Len(q) : q[i].from = e /\ q[i].number = counts[e]

Reaches(e, f) == Has(e, view[f], inbox[f], acquired)

(* A reading e acquires and publishes. *)
Sends(e) ==
  /\ acquired'[e] > acquired[e]
  /\ link[e] # "lost" /\ result' # Raised

(* While f stays subscribed, a peer's last reading that its view or its    *)
(* inbox has stays there until a newer one is acquired, and the newer one  *)
(* gets there with the acquisition unless its publisher lost the broker or *)
(* raised.                                                                 *)
SubscribersMissNothing ==
  [][\A e, f \in Edge :
       (/\ e # f
        /\ link[f] = "subscribed" /\ link'[f] = "subscribed"
        /\ Sends(e) \/ (Reaches(e, f) /\ acquired'[e] = acquired[e]))
         => Reaches(e, f)']_vars

(* A message that is consumed ends in the view, and one of another edge,   *)
(* or an older one, does not take the last reading out of it.              *)
LEMMA HasConsumed ==
  ASSUME NEW e \in Edge, NEW f \in Edge, e # f, NEW v, NEW q, NEW counts \in Counts, NEW w,
         Sound(f, v, q, counts), q # << >>, Has(e, v, q, counts),
         w = IF Head(q).from = f THEN v ELSE Updated(v, SensorOf[Head(q).from], Head(q).number)
  PROVE  Has(e, w, Tail(q), counts)
<1> DEFINE m == Head(q)  t == Tail(q)  s == SensorOf[e]
<1>1. v \in Views /\ q \in Seq(Message)
  BY DEF Sound
<1>2. /\ Len(q) \in Nat /\ 1 \in 1..Len(q) /\ m = q[1]
      /\ t \in Seq(Message)
      /\ \A i \in 2..Len(q) : i - 1 \in 1..Len(t) /\ t[i - 1] = q[i]
  BY <1>1
<1>3. m \in Message /\ m.from \in Edge /\ m.number \in Nat /\ SensorOf[m.from] \in Sensor
  BY <1>1, <1>2, MessageInInbox, Owners
<1>4. Fits(f, m, v, counts)
  BY <1>2 DEF Sound
<1>5. counts[e] \in Nat /\ (s \in DOMAIN v => v[s] \in Nat)
  BY <1>1, ViewReads DEF Counts
<1> HIDE DEF m, t
<1>6. CASE m.from = f
  <2>1. w = v
    BY <1>6 DEF m
  <2>2. CASE s \in DOMAIN v /\ v[s] = counts[e]
    BY <2>1, <2>2 DEF Has
  <2>3. CASE \E i \in 1..Len(q) : q[i].from = e /\ q[i].number = counts[e]
    <3>1. PICK i \in 1..Len(q) : q[i].from = e /\ q[i].number = counts[e]
      BY <2>3
    <3>2. i \in 2..Len(q)
      BY <1>2, <1>6, <3>1
    <3>3. i - 1 \in 1..Len(t) /\ t[i - 1].from = e /\ t[i - 1].number = counts[e]
      BY <1>2, <3>1, <3>2
    <3> QED BY <3>3 DEF Has, t
  <2> QED BY <2>2, <2>3 DEF Has
<1>7. CASE m.from # f
  <2> DEFINE r == SensorOf[m.from]
  <2>1. w = Updated(v, r, m.number)
    BY <1>7 DEF m
  <2>2. /\ DOMAIN w = DOMAIN v \cup {r}
        /\ w[r] = m.number
        /\ \A x \in DOMAIN v : x # r => w[x] = v[x]
    <3> DEFINE n == m.number
    <3>1. n \in Nat /\ r \in Sensor
      BY <1>3
    <3> DEFINE u == Updated(v, r, n)
    <3> HIDE DEF n, r
    <3>2. /\ DOMAIN u = DOMAIN v \cup {r}
          /\ u[r] = n
          /\ \A x \in DOMAIN v : x # r => u[x] = v[x]
      BY <1>1, <3>1, UpdatedView
    <3> HIDE DEF u
    <3>3. w = u
      BY <2>1 DEF u, n
    <3> QED BY <3>2, <3>3 DEF n
  <2>3. r = s <=> m.from = e
    BY <1>3, Owners
  <2> HIDE DEF r, s
  <2>4. CASE s \in DOMAIN v /\ v[s] = counts[e]
    <3>1. CASE m.from = e
      <4>1. m.number <= counts[e] /\ v[s] <= m.number
        BY <1>4, <1>7, <2>4, <3>1 DEF Fits, s
      <4>2. m.number = counts[e]
        BY <1>3, <1>5, <2>4, <4>1
      <4> QED BY <2>2, <2>3, <3>1, <4>2 DEF Has, s
    <3>2. CASE m.from # e
      BY <2>2, <2>3, <2>4, <3>2 DEF Has, s
    <3> QED BY <3>1, <3>2
  <2>5. CASE \E i \in 1..Len(q) : q[i].from = e /\ q[i].number = counts[e]
    <3>1. PICK i \in 1..Len(q) : q[i].from = e /\ q[i].number = counts[e]
      BY <2>5
    <3>2. CASE i = 1
      BY <1>2, <2>2, <2>3, <3>1, <3>2 DEF Has, s
    <3>3. CASE i # 1
      <4>1. i \in 2..Len(q)
        BY <1>2, <3>3
      <4>2. i - 1 \in 1..Len(t) /\ t[i - 1].from = e /\ t[i - 1].number = counts[e]
        BY <1>2, <3>1, <4>1
      <4> QED BY <4>2 DEF Has, t
    <3> QED BY <3>2, <3>3
  <2> QED BY <2>4, <2>5 DEF Has, s
<1> QED BY <1>6, <1>7

(* A message more in the queue takes nothing away. *)
LEMMA HasSent ==
  ASSUME NEW e, NEW v, NEW q \in Seq(Message), NEW m \in Message, NEW counts
  PROVE  /\ Has(e, v, q, counts) => Has(e, v, Append(q, m), counts)
         /\ m.from = e /\ m.number = counts[e] => Has(e, v, Append(q, m), counts)
<1> DEFINE p == Append(q, m)
<1>1. /\ Len(q) \in Nat /\ Len(p) = Len(q) + 1 /\ p[Len(q) + 1] = m
      /\ \A i \in 1..Len(q) : i \in 1..Len(p) /\ p[i] = q[i]
  OBVIOUS
<1>2. Len(q) + 1 \in 1..Len(p)
  BY <1>1
<1> HIDE DEF p
<1>3. Has(e, v, q, counts) => Has(e, v, p, counts)
  BY <1>1 DEF Has
<1>4. m.from = e /\ m.number = counts[e] => Has(e, v, p, counts)
  BY <1>1, <1>2 DEF Has
<1> QED BY <1>3, <1>4 DEF p

(* What f acquires itself goes to a sensor of its own. *)
LEMMA HasBesidesOwn ==
  ASSUME NEW e \in Edge, NEW f \in Edge, e # f, NEW v \in Views, NEW n \in Nat,
         NEW q, NEW counts, Has(e, v, q, counts)
  PROVE  Has(e, Updated(v, SensorOf[f], n), q, counts)
<1> DEFINE s == SensorOf[f]  u == Updated(v, s, n)
<1>1. s \in Sensor /\ SensorOf[e] # s
  BY Owners
<1> HIDE DEF s
<1>2. /\ DOMAIN u = DOMAIN v \cup {s}
      /\ u[s] = n
      /\ \A r \in DOMAIN v : r # s => u[r] = v[r]
  BY <1>1, UpdatedView
<1> HIDE DEF u
<1>3. SensorOf[e] \in DOMAIN v => SensorOf[e] \in DOMAIN u /\ u[SensorOf[e]] = v[SensorOf[e]]
  BY <1>1, <1>2
<1>4. Has(e, u, q, counts)
  BY <1>3, Zenon DEF Has
<1> QED BY <1>4 DEF u, s

LEMMA SubscriberKeeps ==
  ASSUME Inductive, Next, NEW e \in Edge, NEW f \in Edge, e # f,
         link[f] = "subscribed", link'[f] = "subscribed",
         Sends(e) \/ (Reaches(e, f) /\ acquired'[e] = acquired[e])
  PROVE  Reaches(e, f)'
<1>1. /\ acquired \in Counts
      /\ view \in [Edge -> Views] /\ inbox \in [Edge -> Seq(Message)]
      /\ link \in [Edge -> Link]
      /\ Sound(f, view[f], inbox[f], acquired)
  BY DEF Inductive, Shape
<1>2. ~ Passive
  BY DEF Inductive, OneTransport, Passive
<1>3. ~ StartRuntime
  <2>1. StartRuntime => link'[f] = "subscribing"
    BY <1>2 DEF StartRuntime, FreshRuntime
  <2> QED BY <2>1
<1>4. ASSUME UNCHANGED <<acquired, view, inbox>> PROVE Reaches(e, f)'
  <2>1. Reaches(e, f)
    BY <1>1, <1>4 DEF Sends, Counts
  <2> QED BY <1>4, <2>1 DEF Reaches
<1>5. ASSUME NEW g \in Edge, PublishReal(g) PROVE Reaches(e, f)'
  <2> DEFINE m == [from |-> g, number |-> acquired'[g]]
  <2>1. /\ acquired' = [acquired EXCEPT ![g] = @ + 1]
        /\ view' = [view EXCEPT ![g] = Updated(@, SensorOf[g], acquired'[g])]
        /\ inbox'[f] = IF link[g] # "lost" THEN Append(inbox[f], m) ELSE inbox[f]
    BY <1>5 DEF PublishReal, Observe
  <2>2. acquired'[g] = acquired[g] + 1 /\ acquired'[g] \in Nat
    BY <1>1, <2>1 DEF Counts
  <2>3. m \in Message /\ m.from = g /\ m.number = acquired'[g]
    BY <2>2 DEF Message
  <2> HIDE DEF m
  <2>4. CASE g = e
    <3>1. link[e] # "lost"
      BY <1>1, <2>2, <2>4 DEF Sends, Counts
    <3>2. Has(e, view'[f], Append(inbox[f], m), acquired')
      BY <1>1, <2>3, <2>4, HasSent
    <3>3. inbox'[f] = Append(inbox[f], m)
      BY <2>1, <2>4, <3>1
    <3> QED BY <3>2, <3>3 DEF Reaches
  <2>5. CASE g # e
    <3>1. acquired'[e] = acquired[e]
      BY <1>1, <2>1, <2>5 DEF Counts
    <3>2. Has(e, view[f], inbox[f], acquired)
      BY <1>1, <3>1 DEF Sends, Reaches, Counts
    <3>3. Has(e, view[f], inbox[f], acquired')
      BY <3>1, <3>2 DEF Has
    <3>4. Has(e, view'[f], inbox[f], acquired')
      <4>1. CASE g = f
        <5>1. view'[f] = Updated(view[f], SensorOf[f], acquired'[f]) /\ view[f] \in Views
          BY <1>1, <2>1, <4>1
        <5> QED BY <2>2, <3>3, <4>1, <5>1, HasBesidesOwn
      <4>2. CASE g # f
        <5>1. view'[f] = view[f]
          BY <1>1, <2>1, <4>2
        <5> QED BY <3>3, <5>1
      <4> QED BY <4>1, <4>2
    <3>5. Has(e, view'[f], inbox'[f], acquired')
      BY <1>1, <2>1, <2>3, <3>4, HasSent
    <3> QED BY <3>5 DEF Reaches
  <2> QED BY <2>4, <2>5
<1>6. ASSUME NEW g \in Edge, PublishRaises(g) PROVE Reaches(e, f)'
  <2> DEFINE w == Consumed(g, Head(inbox[g]))
  <2>1. /\ acquired' = [acquired EXCEPT ![g] = @ + 1]
        /\ view' = [view EXCEPT ![g] = Updated(w, SensorOf[g], acquired[g] + 1)]
        /\ inbox' = [inbox EXCEPT ![g] = Tail(@)]
        /\ inbox[g] # << >> /\ result' = Raised
    BY <1>6 DEF PublishRaises, Observe
  <2>2. acquired'[e] = acquired[e] /\ Reaches(e, f)
    BY <2>1 DEF Sends
  <2>3. Has(e, view[f], inbox[f], acquired) /\ g # e
    BY <1>1, <2>1, <2>2 DEF Reaches, Counts
  <2>4. CASE g = f
    <3>1. w = IF Head(inbox[f]).from = f THEN view[f]
              ELSE Updated(view[f], SensorOf[Head(inbox[f]).from], Head(inbox[f]).number)
      BY <2>4 DEF Consumed
    <3>2. Has(e, w, Tail(inbox[f]), acquired) /\ w \in Views
      <4>1. inbox[f] # << >>
        BY <2>1, <2>4
      <4> HIDE DEF w
      <4>2. Sound(f, w, Tail(inbox[f]), acquired)
        BY <1>1, <3>1, <4>1, MessageConsumed
      <4> QED BY <1>1, <2>3, <3>1, <4>1, <4>2, HasConsumed DEF Sound
    <3> DEFINE k == acquired[f] + 1
    <3>3. /\ view'[f] = Updated(w, SensorOf[f], k) /\ inbox'[f] = Tail(inbox[f])
          /\ k \in Nat
      BY <1>1, <2>1, <2>4 DEF Counts
    <3> HIDE DEF w, k
    <3>4. Has(e, Updated(w, SensorOf[f], k), Tail(inbox[f]), acquired)
      BY <3>2, <3>3, HasBesidesOwn
    <3> QED BY <2>2, <3>3, <3>4 DEF Reaches, Has
  <2>5. CASE g # f
    <3>1. view'[f] = view[f] /\ inbox'[f] = inbox[f]
      BY <1>1, <2>1, <2>5
    <3> QED BY <2>2, <2>3, <3>1 DEF Reaches, Has
  <2> QED BY <2>4, <2>5
<1>7. ASSUME NEW g \in Edge, Deliver(g) PROVE Reaches(e, f)'
  <2> DEFINE w == Consumed(g, Head(inbox[g]))
  <2>1. /\ acquired' = acquired /\ inbox[g] # << >>
        /\ view' = [view EXCEPT ![g] = w]
        /\ inbox' = [inbox EXCEPT ![g] = Tail(@)]
    BY <1>7 DEF Deliver, mainVars
  <2>2. Has(e, view[f], inbox[f], acquired)
    BY <1>1, <2>1 DEF Sends, Reaches, Counts
  <2>3. CASE g = f
    <3>1. w = IF Head(inbox[f]).from = f THEN view[f]
              ELSE Updated(view[f], SensorOf[Head(inbox[f]).from], Head(inbox[f]).number)
      BY <2>3 DEF Consumed
    <3>2. view'[f] = w /\ inbox'[f] = Tail(inbox[f]) /\ inbox[f] # << >>
      BY <1>1, <2>1, <2>3
    <3> HIDE DEF w
    <3>3. Has(e, w, Tail(inbox[f]), acquired)
      BY <1>1, <2>2, <3>1, <3>2, HasConsumed
    <3> QED BY <2>1, <3>2, <3>3 DEF Reaches
  <2>4. CASE g # f
    <3>1. view'[f] = view[f] /\ inbox'[f] = inbox[f]
      BY <1>1, <2>1, <2>4
    <3> QED BY <2>1, <2>2, <3>1 DEF Reaches
  <2> QED BY <2>3, <2>4
<1>8. ASSUME NEW g \in Edge, Disconnect(g) PROVE Reaches(e, f)'
  <2>1. UNCHANGED <<acquired, view>> /\ inbox' = [inbox EXCEPT ![g] = << >>] /\ g # f
    BY <1>1, <1>8 DEF Disconnect, mainVars
  <2>2. Has(e, view[f], inbox[f], acquired)
    BY <1>1, <2>1 DEF Sends, Reaches, Counts
  <2>3. inbox'[f] = inbox[f] /\ view'[f] = view[f]
    BY <1>1, <2>1
  <2> QED BY <2>1, <2>2, <2>3 DEF Reaches
<1>9. ASSUME \/ \E targets \in FaultTargets : StartCycle(targets)
             \/ \E g \in Edge : CopyView(g) \/ Subscribe(g) \/ Reconnect(g)
             \/ SubmitRound
      PROVE  Reaches(e, f)'
  <2>1. UNCHANGED <<acquired, view, inbox>>
    BY <1>9 DEF StartCycle, CopyView, Subscribe, Reconnect, SubmitRound, mainVars
  <2> QED BY <1>4, <2>1
<1>10. ~ \E g \in Edge : PublishPassive(g)
  BY <1>2 DEF PublishPassive
<1> QED BY <1>3, <1>5, <1>6, <1>7, <1>8, <1>9, <1>10 DEF Next, Main, Network

(* RealMqttTransport.publish, consume_peer_observation: for any edges,     *)
(* any schedule of the network threads and any losses elsewhere, nothing a *)
(* peer publishes is lost to an edge while it is subscribed: what its view *)
(* lacks is in its inbox, and with an empty inbox it has the last reading. *)
THEOREM SubscriptionsHold == Spec => SubscribersMissNothing
<1> DEFINE Kept == \A e, f \in Edge :
             (/\ e # f
              /\ link[f] = "subscribed" /\ link'[f] = "subscribed"
              /\ Sends(e) \/ (Reaches(e, f) /\ acquired'[e] = acquired[e]))
               => Reaches(e, f)'
<1>1. Inductive /\ Next => Kept
  BY SubscriberKeeps
<1>2. Inductive /\ [Next]_vars => [Kept]_vars
  <2> HIDE DEF Kept
  <2> QED BY <1>1
<1> QED BY <1>2, InductiveHolds, PTL DEF Spec, SubscribersMissNothing

-----------------------------------------------------------------------------
(* The result of a round. *)

(* What a round came to is the evaluation of its views and its faults.     *)
ResultIsOfRound ==
  result \notin {Pending, Rejected, Raised} =>
    result = EvaluateRound(Edge, InjectFaults(faulty))

LEMMA ResultIsOfRoundHolds == Spec => []ResultIsOfRound
<1>1. Init => ResultIsOfRound
  BY DEF Init, ResultIsOfRound
<1>2. ResultIsOfRound /\ [Next]_vars => ResultIsOfRound'
  <2> SUFFICES ASSUME ResultIsOfRound, [Next]_vars PROVE ResultIsOfRound'
    OBVIOUS
  <2>1. ASSUME UNCHANGED <<result, round, faulty>> PROVE ResultIsOfRound'
    <3>1. InjectFaults(faulty)' = InjectFaults(faulty)
      BY <2>1 DEF InjectFaults
    <3> QED BY <2>1, <3>1 DEF ResultIsOfRound, EvaluateRound
  <2>2. ASSUME result' \in {Pending, Rejected, Raised} PROVE ResultIsOfRound'
    BY <2>2 DEF ResultIsOfRound
  <2>3. CASE StartRuntime \/ \E targets \in FaultTargets : StartCycle(targets)
    BY <2>2, <2>3 DEF StartRuntime, StartCycle
  <2>4. ASSUME NEW e \in Edge, PublishPassive(e) \/ PublishReal(e) \/ PublishRaises(e)
        PROVE  ResultIsOfRound'
    BY <2>2, <2>4 DEF PublishPassive, PublishReal, PublishRaises, Turn
  <2>5. ASSUME NEW e \in Edge, CopyView(e)
        PROVE  ResultIsOfRound'
    BY <2>2, <2>5 DEF CopyView
  <2>6. CASE SubmitRound
    <3>1. UNCHANGED <<round, faulty>>
      BY <2>6 DEF SubmitRound
    <3>2. InjectFaults(faulty)' = InjectFaults(faulty)
      BY <3>1 DEF InjectFaults
    <3>3. result' \in {EvaluateRound(Edge, InjectFaults(faulty)), Rejected}
      BY <2>6 DEF SubmitRound
    <3> QED BY <3>2, <3>3 DEF ResultIsOfRound, EvaluateRound
  <2>7. ASSUME NEW e \in Edge,
               Deliver(e) \/ Subscribe(e) \/ Disconnect(e) \/ Reconnect(e)
        PROVE  ResultIsOfRound'
    BY <2>1, <2>7 DEF Deliver, Subscribe, Disconnect, Reconnect, mainVars
  <2>8. CASE UNCHANGED vars
    BY <2>1, <2>8 DEF vars
  <2> QED BY <2>3, <2>4, <2>5, <2>6, <2>7, <2>8 DEF Next, Main, Network
<1> QED BY <1>1, <1>2, PTL DEF Spec

(* Complete views. *)
CompleteView == [Sensor -> Int]

(* Edges that say the same are compatible. *)
LEMMA SameIsCompatible ==
  ASSUME NEW a \in CompleteView
  PROVE  Compatible(a, a)
<1>1. a.temperature \in Int /\ a.pressure \in Int /\ a.rpm \in Int
  BY DEF CompleteView, Sensor
<1>2. \A x \in Int : AbsDiff(x, x) = 0
  BY DEF AbsDiff
<1>3. PairDistance(a, a) = 0
  BY <1>1, <1>2 DEF PairDistance, Weight
<1> QED BY <1>3 DEF Compatible, CompatibilityLimit

(* Each edge of a mutually compatible majority has that majority's support.*)
LEMMA MajorityStays ==
  ASSUME NEW E, IsFiniteSet(E), NEW v, NEW H \in SUBSET E,
         Cardinality(H) >= Quorum(E),
         \A e, f \in H : Compatible(v[e], v[f])
  PROVE  /\ H \subseteq ValidEdges(E, v)
         /\ Cardinality(ValidEdges(E, v)) >= Quorum(E)
<1>1. IsFiniteSet(H) /\ Cardinality(E) \in Nat
  BY FS_Subset, FS_CardinalityType
<1>2. ASSUME NEW e \in H PROVE e \in ValidEdges(E, v)
  <2> DEFINE P == CompatiblePeers(E, v, e)
  <2>1. H \ {e} \subseteq P /\ P \subseteq E
    BY DEF CompatiblePeers
  <2>2. Cardinality(H \ {e}) = Cardinality(H) - 1 /\ IsFiniteSet(H \ {e})
    BY <1>1, FS_RemoveElement
  <2>3. IsFiniteSet(P)
    BY <2>1, FS_Subset
  <2>4. Cardinality(H \ {e}) <= Cardinality(P)
    BY <2>1, <2>3, FS_Subset
  <2>5. Cardinality(P) \in Nat /\ Cardinality(H) \in Nat
    BY <1>1, <2>3, FS_CardinalityType
  <2>6. ~ (Cardinality(P) + 1 < Quorum(E))
    BY <1>1, <2>2, <2>4, <2>5 DEF Quorum
  <2> QED BY <2>6 DEF ValidEdges, Excluded
<1>3. H \subseteq ValidEdges(E, v) /\ ValidEdges(E, v) \subseteq E
  BY <1>2 DEF ValidEdges
<1>4. IsFiniteSet(ValidEdges(E, v))
  BY <1>3, FS_Subset
<1>5. Cardinality(H) <= Cardinality(ValidEdges(E, v))
  BY <1>3, <1>4, FS_Subset
<1>6. Cardinality(ValidEdges(E, v)) \in Nat /\ Cardinality(H) \in Nat
  BY <1>1, <1>4, FS_CardinalityType
<1> QED BY <1>1, <1>3, <1>5, <1>6 DEF Quorum

(* An edge that one sensor's offset spares is not made faulty. *)
LEMMA Spared ==
  ASSUME NEW targets, NEW e, Offset(targets, e, "rpm") = 0, NEW s \in Sensor
  PROVE  Offset(targets, e, s) = 0
BY DEF Offset, Raise, Lower

(* The compressor has a number for whatever acquisition of a sensor. *)
ValuesAreNumbers == \A s \in Sensor, n \in Nat : Process[s][n] \in Int

(* Edges that are up to date say the same. *)
LEMMA UpToDateAgree ==
  ASSUME ValuesAreNumbers, acquired \in Counts,
         NEW e \in UpToDate, NEW f \in UpToDate
  PROVE  /\ InjectFaults(faulty)[e] = InjectFaults(faulty)[f]
         /\ InjectFaults(faulty)[e] \in CompleteView
<1> DEFINE owner(s) == CHOOSE g \in Edge : SensorOf[g] = s
           said == [s \in Sensor |-> Process[s][acquired[owner(s)]] + 0]
<1>1. ASSUME NEW s \in Sensor PROVE owner(s) \in Edge /\ SensorOf[owner(s)] = s
  BY ExchangeAssumption
<1>2. ASSUME NEW g \in UpToDate PROVE InjectFaults(faulty)[g] = said
  <2>1. /\ g \in Edge /\ Offset(faulty, g, "rpm") = 0 /\ DOMAIN round[g] = Sensor
        /\ \A h \in Edge : round[g][SensorOf[h]] = acquired[h]
    BY DEF UpToDate
  <2>2. ASSUME NEW s \in Sensor
        PROVE  round[g][s] = acquired[owner(s)] /\ Offset(faulty, g, s) = 0
    BY <1>1, <2>1, Spared
  <2>3. InjectFaults(faulty)[g] =
          [s \in Sensor |-> Process[s][round[g][s]] + Offset(faulty, g, s)]
    BY <2>1 DEF InjectFaults
  <2> HIDE DEF owner
  <2> QED BY <2>2, <2>3
<1>3. said \in CompleteView
  <2>1. ASSUME NEW s \in Sensor PROVE Process[s][acquired[owner(s)]] + 0 \in Int
    <3>1. acquired[owner(s)] \in Nat
      BY <1>1 DEF Counts
    <3> QED BY <3>1 DEF ValuesAreNumbers
  <2> HIDE DEF owner
  <2> QED BY <2>1 DEF CompleteView
<1> QED BY <1>2, <1>3

(* With real connections an edge may miss readings without knowing; a      *)
(* majority of edges that are up to date and not made faulty carries the   *)
(* round all the same, with all of them among its sources (evaluateRound   *)
(* on the round of build_consensus_round_input).                           *)
THEOREM UpToDateMajority ==
  ValuesAreNumbers => (Spec => []UpToDateMajorityPrevails)
<1> SUFFICES ASSUME ValuesAreNumbers PROVE Spec => []UpToDateMajorityPrevails
  OBVIOUS
<1>1. Inductive /\ ResultIsOfRound => UpToDateMajorityPrevails
  <2> SUFFICES ASSUME Inductive, ResultIsOfRound,
                      result \notin {Pending, Rejected, Raised},
                      Cardinality(UpToDate) >= Quorum(Edge)
               PROVE  result.status = "success" /\ UpToDate \subseteq result.sources
    BY DEF UpToDateMajorityPrevails
  <2> DEFINE values == InjectFaults(faulty)
  <2>1. UpToDate \in SUBSET Edge
    BY DEF UpToDate
  <2>2. ASSUME NEW e \in UpToDate, NEW f \in UpToDate
        PROVE  Compatible(values[e], values[f])
    <3>1. acquired \in Counts
      BY DEF Inductive, Shape
    <3>2. values[e] = values[f] /\ values[e] \in CompleteView
      BY <3>1, UpToDateAgree
    <3> HIDE DEF values
    <3> QED BY <3>2, SameIsCompatible
  <2> HIDE DEF values
  <2>3. /\ UpToDate \subseteq ValidEdges(Edge, values)
        /\ Cardinality(ValidEdges(Edge, values)) >= Quorum(Edge)
    BY <2>1, <2>2, EdgeAssumption, MajorityStays
  <2>4. result = EvaluateRound(Edge, values)
    BY DEF ResultIsOfRound, values
  <2> QED BY <2>3, <2>4 DEF EvaluateRound, Result, ValidEdges
<1> QED BY <1>1, InductiveHolds, ResultIsOfRoundHolds, PTL

-----------------------------------------------------------------------------
(* The passive relay. *)

(* publish calls every subscriber back, so with the passive relay every    *)
(* edge holds the last reading of every sensor; a round is built of such   *)
(* views, and neither submitting it nor building it raises.                *)
RelayKeepsUp ==
  Passive =>
    /\ \A e, f \in Edge : acquired[f] > 0 =>
         SensorOf[f] \in DOMAIN view[e] /\ view[e][SensorOf[f]] = acquired[f]
    /\ \A e \in DOMAIN round, f \in Edge :
         SensorOf[f] \in DOMAIN round[e] /\ round[e][SensorOf[f]] = acquired[f]
    /\ result # Pending => DOMAIN round = Edge /\ result \notin {Rejected, Raised}

(* The cycle's faults are configured ones; no cycle ran before the first.  *)
FaultsConfigured == faulty \in FaultTargets \cup {<< >>}

LEMMA FreshKeepsUp ==
  ASSUME acquired = [e \in Edge |-> 0], round = [e \in {} |-> Nothing], result = Pending
  PROVE  RelayKeepsUp
BY DEF RelayKeepsUp

(* A runtime that was just built, with whatever transport. *)
LEMMA StartKeepsUp == StartRuntime => RelayKeepsUp'
<1>1. StartRuntime => /\ acquired' = [e \in Edge |-> 0]
                      /\ round' = [e \in {} |-> Nothing]
                      /\ result' = Pending
  BY DEF StartRuntime, FreshRuntime
<1>2. QED BY <1>1 DEF RelayKeepsUp, Pending

(* After the last publication of a cycle every edge acquired a reading.    *)
LEMMA AllAcquired ==
  ASSUME Inductive, published = Steps * N
  PROVE  \A f \in Edge : acquired[f] > 0
<1>1. Steps * N >= N
  <2>1. Steps \in Nat \ {0} /\ N \in Nat \ {0}
    BY ExchangeAssumption, NPositive
  <2>2. QED BY <2>1
<1>2. TAKE f \in Edge
<1>3. PICK i \in 1..N : EdgeOrder[i] = f
  BY ExchangeAssumption
<1>4. QED BY <1>1, <1>3, NPositive DEF Inductive, EveryoneAcquires

(* No round is begun while a turn is left. *)
LEMMA TurnBeforeRound ==
  ASSUME Inductive, NEW e \in Edge, Turn(e)
  PROVE  DOMAIN round = {} /\ result = Pending
<1> DEFINE all == Steps * N
<1>1. /\ published < all /\ (DOMAIN round # {} => published = all)
      /\ published \in Nat /\ result = Pending
  BY DEF Turn, Inductive, RoundIsCurrent, Shape
<1>2. all \in Nat
  BY ExchangeAssumption, NPositive
<1> HIDE DEF all
<1>3. published # all
  BY <1>1, <1>2
<1>4. QED BY <1>1, <1>3, Zenon

(* An edge publishes, and the relay calls everybody back. *)
LEMMA RelayedPublication ==
  ASSUME Inductive, RelayKeepsUp, NEW e \in Edge, PublishPassive(e)
  PROVE  RelayKeepsUp'
<1> DEFINE k == acquired[e] + 1
<1>1. /\ acquired \in Counts /\ view \in [Edge -> Views]
      /\ acquired' = [acquired EXCEPT ![e] = @ + 1]
      /\ round' = round /\ result' = result
      /\ DOMAIN round = {} /\ result = Pending /\ Passive
  BY TurnBeforeRound DEF PublishPassive, Observe, Inductive, Shape
<1>2. /\ acquired'[e] = k /\ k \in Nat
      /\ \A f \in Edge \ {e} : acquired'[f] = acquired[f]
  BY <1>1 DEF Counts
<1>3. view' = [f \in Edge |-> Updated(view[f], SensorOf[e], k)]
  BY <1>2 DEF PublishPassive
<1>4. ASSUME NEW d \in Edge, NEW f \in Edge, acquired'[f] > 0
      PROVE  SensorOf[f] \in DOMAIN view'[d] /\ view'[d][SensorOf[f]] = acquired'[f]
  <2> DEFINE s == SensorOf[e]  u == Updated(view[d], s, k)
  <2>1. view[d] \in Views /\ s \in Sensor /\ k \in Nat
    BY <1>1, <1>2, Owners
  <2>2. /\ view'[d] = u
        /\ DOMAIN u = DOMAIN view[d] \cup {s}
        /\ u[s] = k
        /\ \A r \in DOMAIN view[d] : r # s => u[r] = view[d][r]
    <3> HIDE DEF s, k
    <3>1. /\ DOMAIN u = DOMAIN view[d] \cup {s}
          /\ u[s] = k
          /\ \A r \in DOMAIN view[d] : r # s => u[r] = view[d][r]
      BY <2>1, UpdatedView
    <3>2. view'[d] = u
      BY <1>3 DEF s
    <3>3. QED BY <3>1, <3>2
  <2> HIDE DEF u
  <2>3. CASE f = e
    BY <1>2, <2>2, <2>3
  <2>4. CASE f # e
    <3>1. SensorOf[f] # s /\ acquired'[f] = acquired[f]
      BY <1>2, <2>4, Owners
    <3>2. SensorOf[f] \in DOMAIN view[d] /\ view[d][SensorOf[f]] = acquired[f]
      BY <1>1, <1>4, <3>1 DEF RelayKeepsUp
    <3>3. QED BY <2>2, <3>1, <3>2
  <2>5. QED BY <2>3, <2>4
<1>5. QED BY <1>1, <1>4 DEF RelayKeepsUp, Pending

(* The views the main thread copies are complete and current. *)
LEMMA RelayedCopy ==
  ASSUME Inductive, RelayKeepsUp, NEW e \in Edge, CopyView(e)
  PROVE  RelayKeepsUp'
<1>1. /\ published = Steps * N /\ result = Pending
      /\ UNCHANGED <<acquired, view, link, result>>
      /\ round' = [f \in DOMAIN round \cup {e} |-> IF f = e THEN view[e] ELSE round[f]]
  BY DEF CopyView
<1>2. \A f \in Edge : acquired[f] > 0
  BY <1>1, AllAcquired
<1>3. ASSUME Passive, NEW d \in DOMAIN round', NEW f \in Edge
      PROVE  SensorOf[f] \in DOMAIN round'[d] /\ round'[d][SensorOf[f]] = acquired[f]
  <2>1. CASE d = e
    <3>1. round'[d] = view[e]
      BY <1>1, <2>1
    <3>2. QED BY <1>2, <1>3, <3>1 DEF RelayKeepsUp
  <2>2. CASE d # e
    <3>1. d \in DOMAIN round /\ round'[d] = round[d]
      BY <1>1, <2>2
    <3>2. QED BY <1>3, <3>1 DEF RelayKeepsUp
  <2>3. QED BY <2>1, <2>2
<1>4. Passive' <=> Passive
  BY <1>1 DEF Passive
<1>5. acquired' = acquired /\ view' = view /\ result' = Pending'
  BY <1>1 DEF Pending
<1>6. Passive' => \A d, f \in Edge : acquired'[f] > 0 =>
        SensorOf[f] \in DOMAIN view'[d] /\ view'[d][SensorOf[f]] = acquired'[f]
  BY <1>4, <1>5 DEF RelayKeepsUp
<1>7. Passive' => \A d \in DOMAIN round', f \in Edge :
        SensorOf[f] \in DOMAIN round'[d] /\ round'[d][SensorOf[f]] = acquired'[f]
  BY <1>3, <1>4, <1>5
<1>8. QED BY <1>5, <1>6, <1>7, Zenon DEF RelayKeepsUp

(* A complete round is evaluated. *)
LEMMA RelayedSubmission ==
  ASSUME Inductive, RelayKeepsUp, SubmitRound
  PROVE  RelayKeepsUp'
<1> DEFINE values == InjectFaults(faulty)
<1>1. /\ UNCHANGED <<acquired, view, link, round>>
      /\ DOMAIN round = Edge
      /\ result' = IF Comparable(Edge, values) THEN EvaluateRound(Edge, values) ELSE Rejected
  BY DEF SubmitRound
<1>2. ASSUME Passive PROVE Comparable(Edge, values)
  <2>1. ASSUME NEW e \in Edge PROVE e \in DOMAIN values /\ Sensor \subseteq DOMAIN values[e]
    <3>1. DOMAIN values = Edge /\ DOMAIN values[e] = DOMAIN round[e]
      BY DEF InjectFaults
    <3>2. ASSUME NEW s \in Sensor PROVE s \in DOMAIN round[e]
      <4>1. PICK f \in Edge : SensorOf[f] = s
        BY ExchangeAssumption
      <4>2. QED BY <1>1, <1>2, <4>1 DEF RelayKeepsUp
    <3>3. QED BY <3>1, <3>2
  <2>2. QED BY <2>1 DEF Comparable
<1>3. EvaluateRound(Edge, values) \notin {Rejected, Raised}
  <2>1. EvaluateRound(Edge, values).status \in {"success", "failed_consensus"}
    BY DEF EvaluateRound, Result
  <2>2. Rejected.status = "rejected" /\ Raised.status = "raised"
    BY DEF Rejected, Raised
  <2>3. QED BY <2>1, <2>2
<1> HIDE DEF values
<1>4. Passive' => result' \notin {Rejected, Raised}
  <2>1. Rejected' = Rejected /\ Raised' = Raised
    BY DEF Rejected, Raised
  <2>2. QED BY <1>1, <1>2, <1>3, <2>1 DEF Passive
<1>5. QED BY <1>1, <1>4 DEF RelayKeepsUp, Passive, Rejected, Raised

LEMMA RelayStep ==
  ASSUME Inductive, RelayKeepsUp, Next
  PROVE  RelayKeepsUp'
<1>1. CASE StartRuntime
  BY <1>1, StartKeepsUp
<1>2. ASSUME NEW targets \in FaultTargets, StartCycle(targets)
      PROVE  RelayKeepsUp'
  <2>1. /\ UNCHANGED <<acquired, view, link>>
        /\ round' = [e \in {} |-> Nothing] /\ result' = Pending
    BY <1>2 DEF StartCycle
  <2>2. QED BY <2>1 DEF RelayKeepsUp, Passive, Pending
<1>3. ASSUME NEW e \in Edge, PublishReal(e) \/ PublishRaises(e)
      PROVE  RelayKeepsUp'
  <2>1. ~ Passive /\ link' = link
    BY <1>3 DEF PublishReal, PublishRaises, Observe
  <2>2. QED BY <2>1 DEF RelayKeepsUp, Passive
<1>4. ASSUME NEW e \in Edge, Deliver(e)
      PROVE  RelayKeepsUp'
  <2>1. inbox[e] # << >> /\ link' = link
    BY <1>4 DEF Deliver
  <2>2. ~ Passive
    BY <2>1 DEF Inductive, OneTransport, Passive
  <2>3. QED BY <2>1, <2>2 DEF RelayKeepsUp, Passive
<1>5. ASSUME NEW e \in Edge, Subscribe(e) \/ Disconnect(e) \/ Reconnect(e)
      PROVE  RelayKeepsUp'
  <2>1. /\ link \in [Edge -> Link] /\ link[e] # "direct"
        /\ \E to \in Link \ {"direct"} : link' = [link EXCEPT ![e] = to]
    BY <1>5 DEF Subscribe, Disconnect, Reconnect, Link, Inductive, Shape
  <2>2. \A f \in Edge : link[f] # "direct"
    BY <2>1 DEF Inductive, OneTransport
  <2>3. \A f \in Edge : link'[f] # "direct"
    BY <2>1, <2>2
  <2>4. QED BY <2>3 DEF RelayKeepsUp, Passive
<1>6. QED
  BY <1>1, <1>2, <1>3, <1>4, <1>5, RelayedPublication, RelayedCopy, RelayedSubmission
     DEF Next, Main, Network

LEMMA RelayKeepsUpHolds == Spec => [](RelayKeepsUp /\ FaultsConfigured)
<1>1. Init => RelayKeepsUp /\ FaultsConfigured
  <2>1. ASSUME Init
        PROVE  /\ acquired = [e \in Edge |-> 0]
               /\ round = [e \in {} |-> Nothing] /\ result = Pending /\ faulty = << >>
    BY <2>1 DEF Init, FreshRuntime
  <2>2. QED BY <2>1, FreshKeepsUp DEF FaultsConfigured
<1>2. Inductive /\ RelayKeepsUp /\ [Next]_vars => RelayKeepsUp'
  <2>1. UNCHANGED vars /\ RelayKeepsUp => RelayKeepsUp'
    BY DEF vars, RelayKeepsUp, Passive, Pending, Rejected, Raised
  <2>2. QED BY <2>1, RelayStep
<1>3. FaultsConfigured /\ [Next]_vars => FaultsConfigured'
  BY DEF FaultsConfigured, Next, Main, Network, StartRuntime, StartCycle, PublishPassive,
         PublishReal, PublishRaises, Observe, CopyView, SubmitRound, Deliver, Subscribe,
         Disconnect, Reconnect, mainVars, vars
<1>4. QED BY <1>1, <1>2, <1>3, InductiveHolds, PTL DEF Spec

(* With the passive relay every edge holds the last reading of every       *)
(* sensor (publish_local_observation and the subscribers it calls back),   *)
(* every round is built of such views, and no cycle ends the loop by an    *)
(* exception: neither publishing nor submitting raises.                    *)
THEOREM RelayReachesEveryEdge == Spec => []RelayKeepsUp
BY RelayKeepsUpHolds, PTL

-----------------------------------------------------------------------------
(* What the offsets do to three edges. *)

LEMMA PairCardinality ==
  ASSUME NEW p, NEW q, p # q
  PROVE  IsFiniteSet({p, q}) /\ Cardinality({p, q}) = 2
<1>1. IsFiniteSet({q}) /\ Cardinality({q}) = 1
  BY FS_Singleton
<1>2. {p, q} = {q} \cup {p} /\ p \notin {q}
  OBVIOUS
<1>3. QED BY <1>1, <1>2, FS_AddElement

(* Each sensor has its edge: there are three, and a majority is two.       *)
LEMMA ThreeEdges ==
  ASSUME NEW e \in Edge
  PROVE  /\ \E p, q \in Edge : p # q /\ e # p /\ e # q /\ Edge = {e, p, q}
         /\ Quorum(Edge) = 2
<1>1. PICK a \in Edge : SensorOf[a] = "temperature"
  BY ExchangeAssumption DEF Sensor
<1>2. PICK b \in Edge : SensorOf[b] = "pressure"
  BY ExchangeAssumption DEF Sensor
<1>3. PICK c \in Edge : SensorOf[c] = "rpm"
  BY ExchangeAssumption DEF Sensor
<1>4. a # b /\ a # c /\ b # c
  BY <1>1, <1>2, <1>3
<1>5. Edge = {a, b, c}
  <2>1. ASSUME NEW d \in Edge PROVE d \in {a, b, c}
    BY <1>1, <1>2, <1>3, Owners DEF Sensor
  <2>2. QED BY <2>1
<1>6. \E p, q \in Edge : p # q /\ e # p /\ e # q /\ Edge = {e, p, q}
  <2>1. CASE e = a
    BY <1>4, <1>5, <2>1
  <2>2. CASE e = b
    <3>1. Edge = {b, a, c}
      BY <1>5
    <3>2. QED BY <1>4, <2>2, <3>1
  <2>3. CASE e = c
    <3>1. Edge = {c, a, b}
      BY <1>5
    <3>2. QED BY <1>4, <2>3, <3>1
  <2>4. QED BY <1>5, <2>1, <2>2, <2>3
<1>7. Cardinality(Edge) = 3
  <2>1. IsFiniteSet({b, c}) /\ Cardinality({b, c}) = 2
    BY <1>4, PairCardinality
  <2>2. Edge = {b, c} \cup {a} /\ a \notin {b, c}
    BY <1>4, <1>5
  <2>3. QED BY <2>1, <2>2, FS_AddElement
<1>8. QED BY <1>6, <1>7 DEF Quorum

(* The sum over two: what the fold computes has to be unfolded twice.      *)
AnyOf(s) == CHOOSE x \in s : TRUE

Sums(f, D, g) ==
  g = [s \in D |-> IF s = {} THEN 0 ELSE f[AnyOf(s)] + g[s \ {AnyOf(s)}]]

LEMMA PairSum ==
  ASSUME NEW f, NEW p, NEW q, p # q, f[p] \in Int, f[q] \in Int
  PROVE  SumOver(f, {p, q}) = f[p] + f[q]
<1> DEFINE P == {p, q}
           h == [s \in SUBSET P |-> IF s = {} THEN 0
                                    ELSE IF s = P THEN f[p] + f[q]
                                    ELSE f[AnyOf(s)]]
           g == CHOOSE x : Sums(f, SUBSET P, x)
<1>0. f[q] + f[p] = f[p] + f[q]
  OBVIOUS
<1>1. SumOver(f, P) = g[P]
  BY DEF SumOver, FoldFunctionOnSet, MapThenFoldSet, Sums, AnyOf
<1>2. \A s : s # {} => AnyOf(s) \in s
  BY DEF AnyOf
<1>3. Sums(f, SUBSET P, h)
  <2>1. ASSUME NEW s \in SUBSET P, s # {}
        PROVE  h[s] = f[AnyOf(s)] + h[s \ {AnyOf(s)}]
    <3>1. AnyOf(s) \in s
      BY <1>2, <2>1
    <3> DEFINE a == AnyOf(s)  r == s \ {AnyOf(s)}
    <3>2. CASE s = P
      <4>1. (a = p /\ r = {q}) \/ (a = q /\ r = {p})
        BY <3>1, <3>2
      <4>2. AnyOf({p}) = p /\ AnyOf({q}) = q
        BY <1>2
      <4>3. h[{p}] = f[p] /\ h[{q}] = f[q] /\ h[P] = f[p] + f[q]
        BY <4>2
      <4> HIDE DEF h
      <4>4. CASE a = p /\ r = {q}
        BY <3>2, <4>3, <4>4
      <4>5. CASE a = q /\ r = {p}
        <5>1. h[s] = f[p] + f[q] /\ f[a] + h[r] = f[q] + f[p]
          BY <3>2, <4>3, <4>5
        <5>2. QED BY <1>0, <5>1
      <4>6. QED BY <4>1, <4>4, <4>5
    <3>3. CASE s # P
      <4>1. r = {}
        BY <2>1, <3>1, <3>3
      <4>2. h[r] = 0 /\ h[s] = f[a]
        BY <2>1, <3>3, <4>1
      <4>3. f[a] \in Int
        BY <3>1
      <4> HIDE DEF h
      <4>4. QED BY <4>2, <4>3
    <3>4. QED BY <3>2, <3>3
  <2>2. h[{}] = 0
    OBVIOUS
  <2>3. h = [s \in SUBSET P |-> h[s]]
    OBVIOUS
  <2> HIDE DEF h
  <2>4. QED BY <2>1, <2>2, <2>3 DEF Sums
<1>4. Sums(f, SUBSET P, g)
  BY <1>3
<1> HIDE DEF g
<1>5. ASSUME NEW s \in SUBSET P
      PROVE  g[s] = IF s = {} THEN 0 ELSE f[AnyOf(s)] + g[s \ {AnyOf(s)}]
  BY <1>4 DEF Sums
<1>6. g[{}] = 0
  BY <1>5
<1>7. ASSUME NEW x \in P PROVE g[{x}] = f[x]
  <2>1. AnyOf({x}) = x /\ {x} # {} /\ {x} \ {x} = {}
    BY <1>2
  <2>2. g[{x}] = f[x] + g[{}]
    BY <1>5, <2>1
  <2>3. f[x] \in Int
    OBVIOUS
  <2>4. QED BY <1>6, <2>2, <2>3
<1>8. g[P] = f[AnyOf(P)] + g[P \ {AnyOf(P)}]
  BY <1>5
<1>9. AnyOf(P) \in P
  BY <1>2
<1>10. g[P] = f[p] + f[q]
  <2>1. CASE AnyOf(P) = p
    <3>1. P \ {p} = {q}
      OBVIOUS
    <3>2. QED BY <1>7, <1>8, <2>1, <3>1
  <2>2. CASE AnyOf(P) = q
    <3>1. P \ {q} = {p}
      OBVIOUS
    <3>2. g[P] = f[q] + f[p]
      BY <1>7, <1>8, <2>2, <3>1
    <3>3. QED BY <1>0, <3>2
  <2>3. QED BY <1>9, <2>1, <2>2
<1>11. QED BY <1>1, <1>10

(* View a reports base with this offset; a spared edge reports base.       *)
Shifted(a, base, offset) == \A s \in Sensor : a[s] = base[s] + offset[s]

NoOffset == [s \in Sensor |-> 0]

(* Offsets shift the distances, whatever the readings were. *)
LEMMA OffsetDistance ==
  ASSUME NEW base \in CompleteView, NEW x \in CompleteView, NEW y \in CompleteView,
         NEW a, NEW b, Shifted(a, base, x), Shifted(b, base, y)
  PROVE  PairDistance(a, b) = PairDistance(x, y)
<1>1. /\ "temperature" \in Sensor /\ "pressure" \in Sensor /\ "rpm" \in Sensor
  BY DEF Sensor
<1>2. \A s \in Sensor : base[s] \in Int /\ x[s] \in Int /\ y[s] \in Int
  BY DEF CompleteView
<1>3. ASSUME NEW s \in Sensor PROVE AbsDiff(a[s], b[s]) = AbsDiff(x[s], y[s])
  <2>1. a[s] = base[s] + x[s] /\ b[s] = base[s] + y[s]
    BY DEF Shifted
  <2>2. QED BY <1>2, <2>1 DEF AbsDiff
<1>4. QED BY <1>1, <1>3 DEF PairDistance

(* The distances between two edges, in 600000ths of a full scale. *)
LEMMA OffsetDistances ==
  /\ NoOffset \in CompleteView /\ Raise \in CompleteView /\ Lower \in CompleteView
  /\ PairDistance(NoOffset, NoOffset) = 0
  /\ PairDistance(Raise, NoOffset) = 3370000 /\ PairDistance(NoOffset, Raise) = 3370000
  /\ PairDistance(Lower, NoOffset) = 5100000 /\ PairDistance(NoOffset, Lower) = 5100000
  /\ PairDistance(Raise, Lower) = 8470000 /\ PairDistance(Lower, Raise) = 8470000
<1>1. NoOffset \in CompleteView /\ Raise \in CompleteView /\ Lower \in CompleteView
  BY DEF NoOffset, Raise, Lower, CompleteView, Sensor
<1>2. NoOffset.temperature = 0 /\ NoOffset.pressure = 0 /\ NoOffset.rpm = 0
  BY DEF NoOffset, Sensor
<1>3. QED BY <1>1, <1>2, SMT DEF PairDistance, Weight, AbsDiff, Raise, Lower

(* The two distances that together make a mean deviation of 0.75.          *)
Far == 2700000

(* An edge far from both others is suspected. *)
LEMMA FarIsSuspected ==
  ASSUME NEW v, NEW e \in Edge, NEW p, NEW q, p # q, e # p, e # q, Edge = {e, p, q},
         PairDistance(v[e], v[p]) \in Nat, PairDistance(v[e], v[q]) \in Nat,
         PairDistance(v[e], v[p]) + PairDistance(v[e], v[q]) >= Far
  PROVE  Reason(Deviation("away", Edge, v, e)) = "suspected_byzantine_behavior"
<1> DEFINE distance == [r \in Edge \ {e} |-> PairDistance(v[e], v[r])]
           total == PairDistance(v[e], v[p]) + PairDistance(v[e], v[q])
<1>1. Edge \ {e} = {p, q}
  OBVIOUS
<1>2. SumOver(distance, {p, q}) = total
  <2>1. distance[p] = PairDistance(v[e], v[p]) /\ distance[q] = PairDistance(v[e], v[q])
    BY <1>1
  <2> HIDE DEF distance
  <2>2. distance[p] \in Int /\ distance[q] \in Int
    BY <2>1
  <2>3. SumOver(distance, {p, q}) = distance[p] + distance[q]
    BY <2>2, PairSum
  <2>4. QED BY <2>1, <2>3
<1>3. Cardinality({p, q}) = 2
  BY PairCardinality
<1>4. Deviation("away", Edge, v, e) = Nearest("away", total, 3600)
  <2> DEFINE peers == Edge \ {e}
             scale == 3 * (FullScale \div 1000)
  <2>1. Deviation("away", Edge, v, e) =
          IF peers = {} THEN NotANumber
          ELSE Nearest("away", SumOver(distance, peers), scale * Cardinality(peers))
    BY DEF Deviation
  <2>2. scale * 2 = 3600
    BY DEF FullScale
  <2>3. peers = {p, q} /\ peers # {}
    BY <1>1
  <2> HIDE DEF peers, scale, distance, total
  <2>4. SumOver(distance, peers) = total /\ Cardinality(peers) = 2
    BY <1>2, <1>3, <2>3, Zenon
  <2>5. Deviation("away", Edge, v, e) = Nearest("away", total, scale * 2)
    BY <2>1, <2>3, <2>4, Zenon
  <2>6. QED BY <2>2, <2>5, SMT
<1>5. total \in Nat /\ total >= Far
  OBVIOUS
<1> HIDE DEF total
<1>6. Nearest("away", total, 3600) >= 750
  <2>1. total \div 3600 \in Int /\ total \div 3600 >= 750
    BY <1>5, SMT DEF Far
  <2>2. QED BY <2>1 DEF Nearest
<1>7. QED BY <1>4, <1>6 DEF Reason, ByzantineDeviation

(* Compatible at distance 0, and not at any other of these distances.      *)
LEMMA FarIsIncompatible ==
  ASSUME NEW a, NEW b
  PROVE  /\ PairDistance(a, b) = 0 => Compatible(a, b)
         /\ PairDistance(a, b) \in {3370000, 5100000, 8470000} => ~ Compatible(a, b)
BY SMT DEF Compatible, CompatibilityLimit

(* An edge no other agrees with is excluded, for a majority is two.        *)
LEMMA AloneIsExcluded ==
  ASSUME NEW v, NEW e \in Edge, NEW p, NEW q, Edge = {e, p, q}, Quorum(Edge) = 2,
         ~ Compatible(v[e], v[p]), ~ Compatible(v[e], v[q])
  PROVE  e \in Excluded(Edge, v)
<1>1. CompatiblePeers(Edge, v, e) = {}
  BY DEF CompatiblePeers
<1>2. QED BY <1>1, FS_EmptySet DEF Excluded

-----------------------------------------------------------------------------
(* The rounds of the three fault scenarios, whatever the readings are.     *)

LEMMA Distance ==
  ASSUME NEW base \in CompleteView, NEW v, NEW e, NEW f,
         NEW x \in {NoOffset, Raise, Lower}, NEW y \in {NoOffset, Raise, Lower},
         Shifted(v[e], base, x), Shifted(v[f], base, y)
  PROVE  PairDistance(v[e], v[f]) = PairDistance(x, y)
<1>1. x \in CompleteView /\ y \in CompleteView
  BY OffsetDistances
<1>2. QED BY <1>1, OffsetDistance

LEMMA RoundWithoutFault ==
  ASSUME NEW base \in CompleteView, NEW v,
         \A e \in Edge : Shifted(v[e], base, NoOffset)
  PROVE  /\ EvaluateRound(Edge, v).status = "success"
         /\ EvaluateRound(Edge, v).sources = Edge
<1>1. \A e, f \in Edge : Compatible(v[e], v[f])
  BY Distance, OffsetDistances, FarIsIncompatible
<1>2. Cardinality(Edge) >= Quorum(Edge)
  <2>1. Cardinality(Edge) \in Nat \ {0}
    BY NPositive DEF N
  <2>2. QED BY <2>1 DEF Quorum
<1>3. Edge = ValidEdges(Edge, v) /\ Cardinality(ValidEdges(Edge, v)) >= Quorum(Edge)
  <2>1. Edge \in SUBSET Edge
    OBVIOUS
  <2>2. /\ Edge \subseteq ValidEdges(Edge, v)
        /\ Cardinality(ValidEdges(Edge, v)) >= Quorum(Edge)
    BY <1>1, <1>2, <2>1, EdgeAssumption, MajorityStays
  <2>3. QED BY <2>2 DEF ValidEdges
<1>4. QED BY <1>3 DEF EvaluateRound, Result, ValidEdges

LEMMA RoundWithOneFault ==
  ASSUME NEW base \in CompleteView, NEW v, NEW f \in Edge,
         Shifted(v[f], base, Raise),
         \A e \in Edge \ {f} : Shifted(v[e], base, NoOffset)
  PROVE  /\ EvaluateRound(Edge, v).status = "success"
         /\ EvaluateRound(Edge, v).sources = Edge \ {f}
         /\ EvaluateRound(Edge, v).exclusions =
              [e \in {f} |-> "suspected_byzantine_behavior"]
<1>1. PICK p \in Edge, q \in Edge :
        p # q /\ f # p /\ f # q /\ Edge = {f, p, q} /\ Quorum(Edge) = 2
  BY ThreeEdges
<1>2. Shifted(v[p], base, NoOffset) /\ Shifted(v[q], base, NoOffset)
  BY <1>1
<1>3. /\ PairDistance(v[f], v[p]) = PairDistance(Raise, NoOffset)
      /\ PairDistance(v[f], v[q]) = PairDistance(Raise, NoOffset)
      /\ \A d, e \in {p, q} : PairDistance(v[d], v[e]) = PairDistance(NoOffset, NoOffset)
  BY <1>2, Distance
<1>4. /\ ~ Compatible(v[f], v[p]) /\ ~ Compatible(v[f], v[q])
      /\ \A d, e \in {p, q} : Compatible(v[d], v[e])
  <2>1. PairDistance(Raise, NoOffset) \in {3370000, 5100000, 8470000}
    BY OffsetDistances, SMT
  <2>2. PairDistance(NoOffset, NoOffset) = 0
    BY OffsetDistances
  <2>3. QED BY <1>3, <2>1, <2>2, FarIsIncompatible, SMT
<1>5. f \in Excluded(Edge, v)
  BY <1>1, <1>4, AloneIsExcluded
<1>6. /\ {p, q} \subseteq ValidEdges(Edge, v)
      /\ Cardinality(ValidEdges(Edge, v)) >= Quorum(Edge)
  <2>1. {p, q} \in SUBSET Edge /\ Cardinality({p, q}) >= Quorum(Edge)
    <3>1. Cardinality({p, q}) = 2
      BY <1>1, PairCardinality
    <3>2. QED BY <1>1, <3>1
  <2>2. QED BY <1>4, <2>1, EdgeAssumption, MajorityStays
<1>7. Excluded(Edge, v) = {f} /\ ValidEdges(Edge, v) = Edge \ {f}
  <2>1. p \notin Excluded(Edge, v) /\ q \notin Excluded(Edge, v)
    BY <1>6 DEF ValidEdges
  <2>2. Excluded(Edge, v) \subseteq Edge
    BY DEF Excluded
  <2>3. Excluded(Edge, v) = {f}
    BY <1>1, <1>5, <2>1, <2>2
  <2>4. QED BY <2>3 DEF ValidEdges
<1>8. Reason(Deviation("away", Edge, v, f)) = "suspected_byzantine_behavior"
  <2>1. /\ PairDistance(v[f], v[p]) \in Nat /\ PairDistance(v[f], v[q]) \in Nat
        /\ PairDistance(v[f], v[p]) + PairDistance(v[f], v[q]) >= Far
    BY <1>3, OffsetDistances, SMT DEF Far
  <2>2. QED BY <1>1, <2>1, FarIsSuspected
<1>9. EvaluateRound(Edge, v).exclusions =
        [e \in Excluded(Edge, v) |->
           Reason([d \in Edge |-> Deviation("away", Edge, v, d)][e])]
  BY DEF EvaluateRound, Result
<1>10. EvaluateRound(Edge, v).exclusions = [e \in {f} |-> "suspected_byzantine_behavior"]
  BY <1>7, <1>8, <1>9
<1>11. QED BY <1>6, <1>7, <1>10 DEF EvaluateRound, Result, ValidEdges

LEMMA RoundWithTwoFaults ==
  ASSUME NEW base \in CompleteView, NEW v, NEW f \in Edge, NEW g \in Edge, f # g,
         Shifted(v[f], base, Raise), Shifted(v[g], base, Lower),
         \A e \in Edge \ {f, g} : Shifted(v[e], base, NoOffset)
  PROVE  /\ EvaluateRound(Edge, v).status = "failed_consensus"
         /\ EvaluateRound(Edge, v).exclusions =
              [e \in Edge |-> "suspected_byzantine_behavior"]
<1>1. PICK h \in Edge : f # h /\ g # h /\ Edge = {f, g, h}
  <2>1. PICK p \in Edge, q \in Edge : p # q /\ f # p /\ f # q /\ Edge = {f, p, q}
    BY ThreeEdges
  <2>2. CASE g = p
    BY <2>1, <2>2
  <2>3. CASE g = q
    <3>1. Edge = {f, g, p}
      BY <2>1, <2>3
    <3>2. QED BY <2>1, <2>3, <3>1
  <2>4. QED BY <2>1, <2>2, <2>3
<1>2. Quorum(Edge) = 2
  BY ThreeEdges
<1>3. Shifted(v[h], base, NoOffset)
  BY <1>1
<1> DEFINE d(x, y) == PairDistance(v[x], v[y])
<1>4. /\ d(f, g) = 8470000 /\ d(g, f) = 8470000
      /\ d(f, h) = 3370000 /\ d(h, f) = 3370000
      /\ d(g, h) = 5100000 /\ d(h, g) = 5100000
  <2>1. /\ d(f, g) = PairDistance(Raise, Lower) /\ d(g, f) = PairDistance(Lower, Raise)
        /\ d(f, h) = PairDistance(Raise, NoOffset) /\ d(h, f) = PairDistance(NoOffset, Raise)
        /\ d(g, h) = PairDistance(Lower, NoOffset) /\ d(h, g) = PairDistance(NoOffset, Lower)
    BY <1>3, Distance
  <2>2. QED BY <2>1, OffsetDistances, SMT
(* Every edge is far from the two others. *)
<1>5. ASSUME NEW e \in Edge
      PROVE  \E p, q \in Edge :
               /\ p # q /\ e # p /\ e # q /\ Edge = {e, p, q}
               /\ ~ Compatible(v[e], v[p]) /\ ~ Compatible(v[e], v[q])
               /\ d(e, p) \in Nat /\ d(e, q) \in Nat /\ d(e, p) + d(e, q) >= Far
  <2>1. /\ ~ Compatible(v[f], v[g]) /\ ~ Compatible(v[g], v[f])
        /\ ~ Compatible(v[f], v[h]) /\ ~ Compatible(v[h], v[f])
        /\ ~ Compatible(v[g], v[h]) /\ ~ Compatible(v[h], v[g])
    BY <1>4, FarIsIncompatible, SMT
  <2>2. /\ d(f, g) \in Nat /\ d(f, h) \in Nat /\ d(f, g) + d(f, h) >= Far
        /\ d(g, f) \in Nat /\ d(g, h) \in Nat /\ d(g, f) + d(g, h) >= Far
        /\ d(h, f) \in Nat /\ d(h, g) \in Nat /\ d(h, f) + d(h, g) >= Far
    BY <1>4, SMT DEF Far
  <2>3. Edge = {g, f, h} /\ Edge = {h, f, g}
    BY <1>1
  <2> HIDE DEF d
  <2>4. CASE e = f
    BY <1>1, <2>1, <2>2, <2>4
  <2>5. CASE e = g
    BY <1>1, <2>1, <2>2, <2>3, <2>5
  <2>6. CASE e = h
    BY <1>1, <2>1, <2>2, <2>3, <2>6
  <2>7. QED BY <1>1, <2>4, <2>5, <2>6
<1>6. ASSUME NEW e \in Edge
      PROVE  /\ e \in Excluded(Edge, v)
             /\ Reason(Deviation("away", Edge, v, e)) = "suspected_byzantine_behavior"
  <2>1. PICK p \in Edge, q \in Edge :
               /\ p # q /\ e # p /\ e # q /\ Edge = {e, p, q}
               /\ ~ Compatible(v[e], v[p]) /\ ~ Compatible(v[e], v[q])
               /\ d(e, p) \in Nat /\ d(e, q) \in Nat /\ d(e, p) + d(e, q) >= Far
    BY <1>5
  <2>2. e \in Excluded(Edge, v)
    BY <1>2, <2>1, AloneIsExcluded
  <2>3. Reason(Deviation("away", Edge, v, e)) = "suspected_byzantine_behavior"
    BY <2>1, FarIsSuspected
  <2>4. QED BY <2>2, <2>3
<1>7. Excluded(Edge, v) = Edge
  BY <1>6 DEF Excluded
<1>8. ~ (Cardinality(Edge \ Excluded(Edge, v)) >= Quorum(Edge))
  <2>1. Edge \ Excluded(Edge, v) = {}
    BY <1>7
  <2>2. QED BY <1>2, <2>1, FS_EmptySet
<1>9. EvaluateRound(Edge, v).exclusions =
        [e \in Excluded(Edge, v) |->
           Reason([x \in Edge |-> Deviation("away", Edge, v, x)][e])]
  BY DEF EvaluateRound, Result
<1>10. EvaluateRound(Edge, v).exclusions = [e \in Edge |-> "suspected_byzantine_behavior"]
  BY <1>6, <1>7, <1>9
<1>11. QED BY <1>8, <1>10 DEF EvaluateRound, Result

(* No edge is made faulty twice, and never more than two: what the fault   *)
(* scenarios configure (default_faulty_edges).                             *)
DistinctTargets ==
  \A targets \in FaultTargets :
    /\ targets \in Seq(Edge) /\ Len(targets) <= 2
    /\ \A i, j \in DOMAIN targets : targets[i] = targets[j] => i = j

(* inject_faults raises the first of them and lowers the second. *)
LEMMA OffsetsAlternate ==
  ASSUME NEW targets \in Seq(Edge), NEW e \in Edge, NEW s \in Sensor,
         Len(targets) <= 2,
         \A i, j \in DOMAIN targets : targets[i] = targets[j] => i = j
  PROVE  /\ (\A i \in DOMAIN targets : targets[i] # e) =>
              Offset(targets, e, s) = NoOffset[s]
         /\ 1 \in DOMAIN targets /\ targets[1] = e => Offset(targets, e, s) = Raise[s]
         /\ 2 \in DOMAIN targets /\ targets[2] = e => Offset(targets, e, s) = Lower[s]
<1>1. \A i \in DOMAIN targets : i \in Nat /\ i <= i
  OBVIOUS
<1>2. ASSUME NEW i \in DOMAIN targets, targets[i] = e
      PROVE  Offset(targets, e, s) = IF i % 2 = 1 THEN Raise[s] ELSE Lower[s]
  <2> DEFINE Last(k) == targets[k] = e /\ \A j \in DOMAIN targets : targets[j] = e => j <= k
  <2>1. Last(i)
    BY <1>1, <1>2
  <2>2. \A k \in DOMAIN targets : Last(k) => k = i
    BY <1>2
  <2>3. Offset(targets, e, s) =
          LET last == CHOOSE k \in DOMAIN targets : Last(k)
          IN  IF last % 2 = 1 THEN Raise[s] ELSE Lower[s]
    BY <1>2 DEF Offset
  <2> HIDE DEF Last
  <2>4. (CHOOSE k \in DOMAIN targets : Last(k)) = i
    BY <2>1, <2>2
  <2>5. QED BY <2>3, <2>4
<1>3. (\A i \in DOMAIN targets : targets[i] # e) => Offset(targets, e, s) = NoOffset[s]
  BY DEF Offset, NoOffset
<1>4. 1 % 2 = 1 /\ 2 % 2 = 0
  OBVIOUS
<1>5. QED BY <1>2, <1>3, <1>4

(* With the passive relay the views of a round differ by the faults alone. *)
LEMMA RelayedValues ==
  ASSUME ValuesAreNumbers, Inductive, RelayKeepsUp, Passive, result # Pending
  PROVE  \E base \in CompleteView : \A e \in Edge, s \in Sensor :
           InjectFaults(faulty)[e][s] = base[s] + Offset(faulty, e, s)
<1> DEFINE owner(s) == CHOOSE g \in Edge : SensorOf[g] = s
           base == [s \in Sensor |-> Process[s][acquired[owner(s)]]]
<1>1. ASSUME NEW s \in Sensor PROVE owner(s) \in Edge /\ SensorOf[owner(s)] = s
  BY ExchangeAssumption
<1>2. acquired \in Counts /\ DOMAIN round = Edge
  BY DEF Inductive, Shape, RelayKeepsUp
<1>3. base \in CompleteView
  <2>1. ASSUME NEW s \in Sensor PROVE Process[s][acquired[owner(s)]] \in Int
    <3>1. acquired[owner(s)] \in Nat
      BY <1>1, <1>2 DEF Counts
    <3>2. QED BY <3>1 DEF ValuesAreNumbers
  <2> HIDE DEF owner
  <2>2. QED BY <2>1 DEF CompleteView
<1>4. ASSUME NEW e \in Edge, NEW s \in Sensor
      PROVE  InjectFaults(faulty)[e][s] = base[s] + Offset(faulty, e, s)
  <2>1. s \in DOMAIN round[e] /\ round[e][s] = acquired[owner(s)]
    <3>1. \A f \in Edge : SensorOf[f] \in DOMAIN round[e] /\ round[e][SensorOf[f]] = acquired[f]
      BY <1>2 DEF RelayKeepsUp
    <3>2. QED BY <1>1, <3>1
  <2>2. InjectFaults(faulty)[e][s] = Process[s][round[e][s]] + Offset(faulty, e, s)
    BY <2>1 DEF InjectFaults
  <2> HIDE DEF owner
  <2>3. QED BY <2>1, <2>2
<1> HIDE DEF base
<1>5. QED BY <1>3, <1>4

(* With the passive relay the configured fault decides the round, whatever *)
(* the process does and whatever edges are made faulty (inject_faults on   *)
(* the round of build_consensus_round_input, then evaluateRound): without  *)
(* faulty edges nobody is excluded; one is excluded alone, as suspected;   *)
(* two leave no edge with a majority and consensus fails.                  *)
THEOREM FaultDecides ==
  ValuesAreNumbers /\ DistinctTargets => (Spec => []FaultDecidesRound)
<1> SUFFICES ASSUME ValuesAreNumbers, DistinctTargets PROVE Spec => []FaultDecidesRound
  OBVIOUS
<1>1. Inductive /\ ResultIsOfRound /\ RelayKeepsUp /\ FaultsConfigured => FaultDecidesRound
  <2> SUFFICES ASSUME Inductive, ResultIsOfRound, RelayKeepsUp, FaultsConfigured,
                      Passive, result # Pending
               PROVE  FaultDecidesRound
    BY DEF FaultDecidesRound
  <2> DEFINE v == InjectFaults(faulty)
  <2>1. result = EvaluateRound(Edge, v)
    BY DEF ResultIsOfRound, RelayKeepsUp
  <2>2. PICK base \in CompleteView : \A e \in Edge, s \in Sensor :
          v[e][s] = base[s] + Offset(faulty, e, s)
    BY RelayedValues
  <2> HIDE DEF v
  <2>3. /\ faulty \in Seq(Edge) /\ Len(faulty) <= 2
        /\ \A i, j \in DOMAIN faulty : faulty[i] = faulty[j] => i = j
    <3>1. CASE faulty = << >>
      <4>1. faulty \in Seq(Edge) /\ Len(faulty) = 0 /\ DOMAIN faulty = {}
        BY <3>1
      <4>2. QED BY <4>1
    <3>2. CASE faulty \in FaultTargets
      BY <3>2 DEF DistinctTargets
    <3>3. QED BY <3>1, <3>2 DEF FaultsConfigured
  <2>4. Len(faulty) \in {0, 1, 2} /\ DOMAIN faulty = 1..Len(faulty)
    <3>1. Len(faulty) \in Nat /\ DOMAIN faulty = 1..Len(faulty)
      BY <2>3
    <3>2. QED BY <2>3, <3>1
  <2>5. ASSUME NEW e \in Edge
        PROVE  /\ (\A i \in DOMAIN faulty : faulty[i] # e) => Shifted(v[e], base, NoOffset)
               /\ 1 \in DOMAIN faulty /\ faulty[1] = e => Shifted(v[e], base, Raise)
               /\ 2 \in DOMAIN faulty /\ faulty[2] = e => Shifted(v[e], base, Lower)
    BY <2>2, <2>3, OffsetsAlternate DEF Shifted
  <2>6. CASE Len(faulty) = 0
    <3>1. \A e \in Edge : Shifted(v[e], base, NoOffset)
      BY <2>4, <2>5, <2>6
    <3>2. result.status = "success" /\ result.sources = Edge
      BY <2>1, <3>1, RoundWithoutFault
    <3>3. QED BY <2>6, <3>2 DEF FaultDecidesRound
  <2>7. CASE Len(faulty) = 1
    <3>1. DOMAIN faulty = {1} /\ faulty[1] \in Edge
      <4>1. DOMAIN faulty = 1..1
        BY <2>4, <2>7
      <4>2. faulty[1] \in Edge
        BY <2>3, <4>1
      <4>3. QED BY <4>1, <4>2
    <3>2. /\ Shifted(v[faulty[1]], base, Raise)
          /\ \A e \in Edge \ {faulty[1]} : Shifted(v[e], base, NoOffset)
      BY <2>5, <3>1
    <3>3. /\ result.status = "success"
          /\ result.sources = Edge \ {faulty[1]}
          /\ result.exclusions = [e \in {faulty[1]} |-> "suspected_byzantine_behavior"]
      BY <2>1, <3>1, <3>2, RoundWithOneFault
    <3>4. QED BY <2>7, <3>3 DEF FaultDecidesRound
  <2>8. CASE Len(faulty) = 2
    <3>1. DOMAIN faulty = {1, 2} /\ faulty[1] \in Edge /\ faulty[2] \in Edge
      BY <2>3, <2>4, <2>8
    <3>2. faulty[1] # faulty[2]
      BY <2>3, <3>1
    <3>3. /\ Shifted(v[faulty[1]], base, Raise) /\ Shifted(v[faulty[2]], base, Lower)
          /\ \A e \in Edge \ {faulty[1], faulty[2]} : Shifted(v[e], base, NoOffset)
      BY <2>5, <3>1
    <3>4. /\ result.status = "failed_consensus"
          /\ result.exclusions = [e \in Edge |-> "suspected_byzantine_behavior"]
      BY <2>1, <3>1, <3>2, <3>3, RoundWithTwoFaults
    <3>5. QED BY <2>8, <3>4 DEF FaultDecidesRound
  <2>9. QED BY <2>4, <2>6, <2>7, <2>8
<1>2. QED BY <1>1, InductiveHolds, ResultIsOfRoundHolds, RelayKeepsUpHolds, PTL
=============================================================================
