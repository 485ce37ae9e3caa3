------------------------ MODULE BaselineFreeze_proofs ------------------------
(***************************************************************************)
(* A published baseline describes one moment of the project, for any       *)
(* files, items, invocations, edits and failures.                          *)
(*                                                                         *)
(* The moment is the one at which the second reading begins.  Whatever the *)
(* first reading saw a file hold, the file holds then or will never hold   *)
(* again, for no file comes back to an earlier content.  So what the       *)
(* second reading finds as the first one saw it, and it must find          *)
(* everything so, was held at that moment.                                 *)
(***************************************************************************)
EXTENDS BaselineFreeze, TLAPS

Seen == Held \cup {Unreadable}
Entries == [status : {"missing", "unverifiable", "verified"}, seen : [File -> Seen]]
Manifests == [Item -> Entries]
Invocations ==
  [pc : {"idle", "list", "read", "publish", "directory", "link"},
   verifying : BOOLEAN, todo : Seq(Item), manifest : Manifests,
   left : SUBSET File, seen : [File -> Seen]]

TypeOK ==
  /\ content \in [File -> Held]
  /\ past \in SUBSET [File -> Held]
  /\ content \in past
  /\ published \in SUBSET Manifests
  /\ proc \in [Process -> Invocations]

(* With the files holding now, after the contents hist: f held v before,   *)
(* and what a reading saw of f was held.                                   *)
Gone(f, v, now, hist) == v # now[f] /\ \E earlier \in hist : earlier[f] = v
Known(f, v, now, hist) == v = Unreadable \/ v = now[f] \/ Gone(f, v, now, hist)

(* What each stage of an invocation relies on. *)
Shaped(inv) ==
  /\ inv.pc = "list" => inv.todo # << >>
  /\ inv.pc \in {"list", "publish"} => inv.seen = Blank
  /\ inv.pc = "read" =>
       /\ inv.todo # << >>
       /\ inv.left \subseteq Members[Head(inv.todo)]
       /\ inv.verifying => Claims(Head(inv.todo), inv.manifest[Head(inv.todo)])
  /\ inv.pc \in {"directory", "link"} => inv.verifying /\ inv.todo = << >>
  /\ inv.pc \in {"idle", "publish"} => ~inv.verifying

(* Everything read so far was held. *)
Grounded(inv, now, hist) ==
  /\ \A i \in Item : inv.manifest[i].status = "verified" =>
       \A f \in Members[i] : Known(f, inv.manifest[i].seen[f], now, hist)
  /\ inv.pc = "read" =>
       \A f \in Members[Head(inv.todo)] \ inv.left : Known(f, inv.seen[f], now, hist)

Pending(inv, i) == \E k \in 1..Len(inv.todo) : inv.todo[k] = i

(* The second reading began when the files held then: what was read first  *)
(* was held then or is gone, and what was read again was held then.        *)
Since(inv, then, now, hist) ==
  /\ \A i \in Item : inv.manifest[i].status = "verified" =>
       \A f \in Members[i] :
         LET v == inv.manifest[i].seen[f]
         IN  /\ v \in {Unreadable, then[f]} \/ Gone(f, v, now, hist)
             /\ ~Pending(inv, i) => v \in {Unreadable, then[f]}
  /\ inv.pc = "read" =>
       LET i == Head(inv.todo)
       IN  \A f \in Members[i] \ inv.left :
             inv.manifest[i].status = "verified" /\ inv.seen[f] = inv.manifest[i].seen[f]
               => inv.seen[f] \in {Unreadable, then[f]}

Good(inv, now, hist) ==
  /\ Shaped(inv)
  /\ Grounded(inv, now, hist)
  /\ inv.verifying => \E then \in hist : Since(inv, then, now, hist)

(* The inductive invariant. *)
Inductive ==
  /\ TypeOK
  /\ \A p \in Process : Good(proc[p], content, past)
  /\ BaselineIsSnapshot

-----------------------------------------------------------------------------
(* The parts of an invocation. *)

LEMMA IdleGood ==
  ASSUME NEW now, NEW hist
  PROVE  Idle \in Invocations /\ Good(Idle, now, hist)
<1>1. Blank \in [File -> Seen]
  BY DEF Blank, Seen, Held
<1>2. NoEntry \in Entries /\ NoEntry.status # "verified"
  BY <1>1 DEF NoEntry, Entries
<1>3. Idle \in Invocations
  BY <1>1, <1>2 DEF Idle, Invocations, Manifests
<1>4. \A i \in Item : Idle.manifest[i].status # "verified"
  BY <1>2 DEF Idle
<1>5. Idle.pc = "idle" /\ Idle.verifying = FALSE
  BY DEF Idle
<1>6. Shaped(Idle) /\ Grounded(Idle, now, hist)
  BY <1>4, <1>5 DEF Shaped, Grounded
<1> QED BY <1>3, <1>5, <1>6 DEF Good

LEMMA EntryFacts ==
  ASSUME NEW i \in Item, NEW seen \in [File -> Seen]
  PROVE  /\ Entry(i, seen) \in Entries
         /\ Entry(i, seen).status = "verified" =>
              /\ Entry(i, seen).seen = seen
              /\ i # Repository => \A f \in Members[i] : seen[f] # Unreadable
<1>1. Blank \in [File -> Seen]
  BY DEF Blank, Seen, Held
<1>2. NoEntry \in Entries /\ NoEntry.status # "verified"
  BY <1>1 DEF NoEntry, Entries
<1>3. CASE i # Repository /\ \E f \in Members[i] : seen[f] = Unreadable
  <2>1. Entry(i, seen) = [status |-> "unverifiable", seen |-> Blank]
    BY <1>1, <1>2, <1>3 DEF Entry
  <2> QED BY <1>1, <2>1 DEF Entries
<1>4. CASE ~(i # Repository /\ \E f \in Members[i] : seen[f] = Unreadable)
  <2>1. CASE i \notin Directories \cup {Repository} /\ seen = Blank
    <3>1. Entry(i, seen) = NoEntry
      BY <1>4, <2>1 DEF Entry
    <3> QED BY <1>2, <3>1
  <2>2. CASE ~(i \notin Directories \cup {Repository} /\ seen = Blank)
    <3>1. Entry(i, seen) = [status |-> "verified", seen |-> seen]
      BY <1>4, <2>2 DEF Entry
    <3> QED BY <1>4, <3>1 DEF Entries
  <2> QED BY <2>1, <2>2
<1> QED BY <1>3, <1>4

(* What comes after an item is what was pending besides it. *)
LEMMA Rest ==
  ASSUME NEW todo \in Seq(Item), todo # << >>
  PROVE  /\ Head(todo) \in Item /\ Tail(todo) \in Seq(Item)
         /\ \A i \in Item :
              (\E k \in 1..Len(todo) : todo[k] = i) /\ i # Head(todo)
                => \E k \in 1..Len(Tail(todo)) : Tail(todo)[k] = i
<1>1. /\ Len(todo) \in Nat /\ Len(todo) >= 1
      /\ Head(todo) = todo[1]
      /\ Len(Tail(todo)) = Len(todo) - 1
      /\ \A k \in 1..Len(todo) - 1 : Tail(todo)[k] = todo[k + 1]
  OBVIOUS
<1>2. ASSUME NEW i \in Item, NEW k \in 1..Len(todo), todo[k] = i, i # Head(todo)
      PROVE  \E m \in 1..Len(Tail(todo)) : Tail(todo)[m] = i
  <2>1. k # 1 /\ k - 1 \in 1..Len(todo) - 1
    BY <1>1, <1>2
  <2>2. Tail(todo)[k - 1] = todo[(k - 1) + 1] /\ (k - 1) + 1 = k
    BY <1>1, <2>1
  <2> QED BY <1>1, <1>2, <2>1, <2>2
<1> QED BY <1>1, <1>2

LEMMA BlankSeen == Blank \in [File -> Seen] /\ Blank \in [File -> Held]
BY DEF Blank, Seen, Held

LEMMA AdvanceFacts ==
  ASSUME NEW inv \in Invocations, inv.todo # << >>
  PROVE  LET next == Advance(inv)
         IN  /\ next \in Invocations
             /\ next.pc = IF Tail(inv.todo) # << >> THEN "list"
                          ELSE IF inv.verifying THEN "directory" ELSE "publish"
             /\ next.verifying = inv.verifying
             /\ next.todo = Tail(inv.todo)
             /\ next.manifest = inv.manifest
             /\ next.left = {}
             /\ next.seen = Blank
<1>1. Tail(inv.todo) \in Seq(Item)
  BY Rest DEF Invocations
<1> QED BY <1>1, BlankSeen DEF Advance, Invocations

(* Going on with a manifest that has what is known of every item. *)
LEMMA AdvanceGood ==
  ASSUME NEW now, NEW hist, NEW inv \in Invocations, inv.todo # << >>,
         NEW manifest \in Manifests,
         \A i \in Item : manifest[i].status = "verified" =>
           \A f \in Members[i] : Known(f, manifest[i].seen[f], now, hist),
         inv.verifying =>
           /\ manifest = inv.manifest
           /\ \E then \in hist :
                /\ Since(inv, then, now, hist)
                /\ LET i == Head(inv.todo)
                   IN  manifest[i].status = "verified" =>
                         \A f \in Members[i] : manifest[i].seen[f] \in {Unreadable, then[f]}
  PROVE  LET next == [Advance(inv) EXCEPT !.manifest = manifest]
         IN  next \in Invocations /\ Good(next, now, hist)
<1> DEFINE next == [Advance(inv) EXCEPT !.manifest = manifest]
<1>1. /\ next \in Invocations
      /\ next.pc = IF Tail(inv.todo) # << >> THEN "list"
                   ELSE IF inv.verifying THEN "directory" ELSE "publish"
      /\ next.verifying = inv.verifying
      /\ next.todo = Tail(inv.todo)
      /\ next.manifest = manifest
      /\ next.seen = Blank
  <2> DEFINE there == Advance(inv)
  <2>1. /\ there \in Invocations
        /\ there.pc = IF Tail(inv.todo) # << >> THEN "list"
                      ELSE IF inv.verifying THEN "directory" ELSE "publish"
        /\ there.verifying = inv.verifying
        /\ there.todo = Tail(inv.todo)
        /\ there.seen = Blank
    BY AdvanceFacts
  <2> HIDE DEF there
  <2>2. /\ [there EXCEPT !.manifest = manifest] \in Invocations
        /\ [there EXCEPT !.manifest = manifest].pc = there.pc
        /\ [there EXCEPT !.manifest = manifest].verifying = there.verifying
        /\ [there EXCEPT !.manifest = manifest].todo = there.todo
        /\ [there EXCEPT !.manifest = manifest].seen = there.seen
        /\ [there EXCEPT !.manifest = manifest].manifest = manifest
    BY <2>1 DEF Invocations
  <2> QED BY <2>1, <2>2 DEF there
<1> HIDE DEF next
<1>2. inv.verifying \in BOOLEAN
  BY DEF Invocations
<1>3. Shaped(next)
  <2>1. CASE Tail(inv.todo) # << >>
    BY <1>1, <2>1 DEF Shaped
  <2>2. CASE Tail(inv.todo) = << >>
    BY <1>1, <1>2, <2>2 DEF Shaped
  <2> QED BY <2>1, <2>2
<1>4. Grounded(next, now, hist)
  BY <1>1, <1>2 DEF Grounded
<1>5. ASSUME inv.verifying PROVE \E then \in hist : Since(next, then, now, hist)
  <2>1. PICK then \in hist :
          /\ Since(inv, then, now, hist)
          /\ manifest[Head(inv.todo)].status = "verified" =>
               \A f \in Members[Head(inv.todo)] :
                 manifest[Head(inv.todo)].seen[f] \in {Unreadable, then[f]}
    BY <1>5
  <2>2. ASSUME NEW i \in Item, manifest[i].status = "verified", NEW f \in Members[i]
        PROVE  LET v == manifest[i].seen[f]
               IN  /\ v \in {Unreadable, then[f]} \/ Gone(f, v, now, hist)
                   /\ ~Pending(next, i) => v \in {Unreadable, then[f]}
    <3>1. CASE i = Head(inv.todo)
      <4>1. manifest[i].seen[f] \in {Unreadable, then[f]}
        BY <2>1, <2>2, <3>1
      <4> QED BY <4>1
    <3>2. CASE i # Head(inv.todo)
      <4>1. Pending(inv, i) => Pending(next, i)
        BY <1>1, <3>2, Rest DEF Pending, Invocations
      <4>2. manifest = inv.manifest
        BY <1>5
      <4> QED BY <2>1, <2>2, <4>1, <4>2 DEF Since
    <3> QED BY <3>1, <3>2
  <2>3. next.pc # "read"
    BY <1>1
  <2>4. Since(next, then, now, hist)
    BY <1>1, <2>2, <2>3 DEF Since
  <2> QED BY <2>4
<1> QED BY <1>1, <1>3, <1>4, <1>5 DEF Good, next

(* The end of an item, with what was seen of it. *)
LEMMA ConcludeGood ==
  ASSUME NEW now, NEW hist, NEW inv \in Invocations, Good(inv, now, hist),
         inv.todo # << >>, NEW seen \in [File -> Seen],
         inv.verifying => Claims(Head(inv.todo), inv.manifest[Head(inv.todo)]),
         LET i == Head(inv.todo)
         IN  \/ i # Repository /\ \E f \in Members[i] : seen[f] = Unreadable
             \/ /\ \A f \in Members[i] : Known(f, seen[f], now, hist)
                /\ inv.verifying => \A then \in hist : Since(inv, then, now, hist) =>
                     \A f \in Members[i] :
                       inv.manifest[i].status = "verified" /\ seen[f] = inv.manifest[i].seen[f]
                         => seen[f] \in {Unreadable, then[f]}
  PROVE  Conclude(inv, seen) \in Invocations /\ Good(Conclude(inv, seen), now, hist)
<1> DEFINE i == Head(inv.todo)
           entry == Entry(i, seen)
<1>1. i \in Item
  BY Rest DEF Invocations
<1>2. /\ entry \in Entries
      /\ entry.status = "verified" =>
           /\ entry.seen = seen
           /\ i # Repository => \A f \in Members[i] : seen[f] # Unreadable
  BY <1>1, EntryFacts
<1>3. inv.manifest \in Manifests /\ inv.verifying \in BOOLEAN
  BY DEF Invocations
<1>4. \A j \in Item : inv.manifest[j].status = "verified" =>
        \A f \in Members[j] : Known(f, inv.manifest[j].seen[f], now, hist)
  BY DEF Good, Grounded
<1>5. CASE ~inv.verifying
  <2> DEFINE manifest == [inv.manifest EXCEPT ![i] = entry]
  <2>1. manifest \in Manifests
    BY <1>2, <1>3 DEF Manifests
  <2>2. ASSUME NEW j \in Item, manifest[j].status = "verified", NEW f \in Members[j]
        PROVE  Known(f, manifest[j].seen[f], now, hist)
    <3>1. CASE j = i
      <4>1. manifest[j] = entry
        BY <1>1, <1>3, <3>1 DEF Manifests
      <4> QED BY <1>2, <2>2, <3>1, <4>1
    <3>2. CASE j # i
      <4>1. manifest[j] = inv.manifest[j]
        BY <1>3, <3>2 DEF Manifests
      <4> QED BY <1>4, <2>2, <4>1
    <3> QED BY <3>1, <3>2
  <2>3. Conclude(inv, seen) = [Advance(inv) EXCEPT !.manifest = manifest]
    BY <1>5 DEF Conclude
  <2> HIDE DEF manifest
  <2> DEFINE next == [Advance(inv) EXCEPT !.manifest = manifest]
  <2>4. next \in Invocations /\ Good(next, now, hist)
    BY <1>5, <2>1, <2>2, AdvanceGood
  <2> QED BY <2>3, <2>4, Zenon
<1>6. CASE inv.verifying /\ entry = inv.manifest[i]
  <2>1. PICK then \in hist : Since(inv, then, now, hist)
    BY <1>6 DEF Good
  <2>2. ASSUME inv.manifest[i].status = "verified", NEW f \in Members[i]
        PROVE  inv.manifest[i].seen[f] \in {Unreadable, then[f]}
    <3>1. /\ inv.manifest[i].seen = seen
          /\ ~(i # Repository /\ \E g \in Members[i] : seen[g] = Unreadable)
      BY <1>2, <1>6, <2>2
    <3>2. seen[f] = inv.manifest[i].seen[f] => seen[f] \in {Unreadable, then[f]}
      BY <1>6, <2>1, <2>2, <3>1
    <3> QED BY <3>1, <3>2
  <2>3. Conclude(inv, seen) = Advance(inv)
    BY <1>6 DEF Conclude
  <2>4. Advance(inv) = [Advance(inv) EXCEPT !.manifest = inv.manifest]
    BY AdvanceFacts DEF Invocations
  <2>5. /\ [Advance(inv) EXCEPT !.manifest = inv.manifest] \in Invocations
        /\ Good([Advance(inv) EXCEPT !.manifest = inv.manifest], now, hist)
    <3> HIDE DEF entry
    <3> QED BY <1>3, <1>4, <1>6, <2>1, <2>2, AdvanceGood
  <2> QED BY <2>3, <2>4, <2>5
<1>7. CASE inv.verifying /\ entry # inv.manifest[i]
  BY <1>7, IdleGood DEF Conclude
<1> QED BY <1>3, <1>5, <1>6, <1>7

-----------------------------------------------------------------------------
(* What each step makes of an invocation. *)

LEMMA BeginGood ==
  ASSUME NEW now, NEW hist
  PROVE  LET next == [Idle EXCEPT !.pc = "list", !.todo = Append(Inventory, Repository)]
         IN  next \in Invocations /\ Good(next, now, hist)
<1> DEFINE todo == Append(Inventory, Repository)
           next == [Idle EXCEPT !.pc = "list", !.todo = todo]
<1>1. todo \in Seq(Item) /\ todo # << >>
  BY FreezeAssumption
<1> HIDE DEF todo
<1>2. /\ next \in Invocations
      /\ next.pc = "list" /\ next.verifying = FALSE /\ next.todo = todo
      /\ next.seen = Blank /\ next.manifest = [i \in Item |-> NoEntry]
  BY <1>1, IdleGood DEF Idle, Invocations
<1>3. \A i \in Item : next.manifest[i].status # "verified"
  BY <1>2 DEF NoEntry
<1> HIDE DEF next
<1>4. Good(next, now, hist)
  BY <1>1, <1>2, <1>3 DEF Good, Shaped, Grounded
<1> QED BY <1>2, <1>4 DEF next, todo

LEMMA EverythingPending ==
  LET todo == <<Repository>> \o Inventory
  IN  /\ todo \in Seq(Item) /\ todo # << >>
      /\ \A i \in Item : \E k \in 1..Len(todo) : todo[k] = i
<1> DEFINE todo == <<Repository>> \o Inventory
<1>1. /\ Inventory \in Seq(Item) /\ Repository \in Item
      /\ Len(Inventory) \in Nat /\ DOMAIN Inventory = 1..Len(Inventory)
  BY FreezeAssumption
<1>2. todo \in Seq(Item) /\ Len(todo) = Len(Inventory) + 1 /\ todo[1] = Repository
  BY <1>1
<1>3. \A k \in 1..Len(Inventory) : todo[k + 1] = Inventory[k] /\ k + 1 \in 1..Len(todo)
  BY <1>1, <1>2
<1>4. ASSUME NEW i \in Item PROVE \E k \in 1..Len(todo) : todo[k] = i
  <2>1. CASE i = Repository
    BY <1>1, <1>2, <2>1
  <2>2. CASE i # Repository
    <3>1. PICK k \in 1..Len(Inventory) : Inventory[k] = i
      BY <1>1, <2>2, FreezeAssumption
    <3> QED BY <1>3, <3>1
  <2> QED BY <2>1, <2>2
<1>5. todo # << >>
  BY <1>1, <1>2
<1> QED BY <1>2, <1>4, <1>5

LEMMA PublishGood ==
  ASSUME NEW now, NEW hist, now \in hist, NEW inv \in Invocations,
         Good(inv, now, hist), inv.pc = "publish"
  PROVE  LET next == [inv EXCEPT !.verifying = TRUE, !.pc = "list",
                                 !.todo = <<Repository>> \o Inventory]
         IN  next \in Invocations /\ Good(next, now, hist)
<1> DEFINE todo == <<Repository>> \o Inventory
           next == [inv EXCEPT !.verifying = TRUE, !.pc = "list", !.todo = todo]
<1>1. /\ todo \in Seq(Item) /\ todo # << >>
      /\ \A i \in Item : \E k \in 1..Len(todo) : todo[k] = i
  BY EverythingPending
<1> HIDE DEF todo
<1>2. /\ next \in Invocations
      /\ next.pc = "list" /\ next.verifying = TRUE /\ next.todo = todo
      /\ next.seen = inv.seen /\ next.manifest = inv.manifest
  BY <1>1 DEF Invocations
<1> HIDE DEF next
<1>3. Shaped(next) /\ Grounded(next, now, hist)
  BY <1>1, <1>2 DEF Good, Shaped, Grounded
<1>4. \A i \in Item : Pending(next, i)
  BY <1>1, <1>2 DEF Pending
<1>5. Since(next, now, now, hist)
  BY <1>2, <1>4 DEF Since, Good, Grounded, Known
<1> QED BY <1>2, <1>3, <1>5 DEF Good, next, todo

(* What is read now is not gone: if it is what the first reading saw, it   *)
(* was held when the second began.                                         *)
LEMMA SeenThen ==
  ASSUME NEW now, NEW hist, NEW inv, NEW then, Since(inv, then, now, hist),
         NEW i \in Item, NEW f \in Members[i], inv.manifest[i].status = "verified",
         NEW v, v = now[f], v = inv.manifest[i].seen[f]
  PROVE  v \in {Unreadable, then[f]}
BY DEF Since, Gone

LEMMA ListGood ==
  ASSUME NEW now, NEW hist, NEW inv \in Invocations, Good(inv, now, hist),
         inv.pc = "list"
  PROVE  LET i == Head(inv.todo)
             listed == {f \in Members[i] : now[f] # Absent}
             next == IF inv.verifying /\ ~Claims(i, inv.manifest[i])
                     THEN Advance(inv)
                     ELSE IF listed = {} THEN Conclude(inv, Blank)
                     ELSE [inv EXCEPT !.pc = "read", !.left = listed]
         IN  next \in Invocations /\ Good(next, now, hist)
<1> DEFINE i == Head(inv.todo)
           listed == {f \in Members[i] : now[f] # Absent}
<1>1. /\ inv.todo # << >> /\ inv.seen = Blank /\ inv.verifying \in BOOLEAN
      /\ inv.manifest \in Manifests
  BY DEF Good, Shaped, Invocations
<1>2. i \in Item
  BY <1>1, Rest DEF Invocations
<1>3. listed \subseteq Members[i] /\ Members[i] \subseteq File
  BY <1>2, FreezeAssumption
<1>4. ASSUME NEW f \in Members[i] \ listed
      PROVE  Blank[f] = now[f]
  BY <1>3, <1>4 DEF Blank
<1>5. CASE inv.verifying /\ ~Claims(i, inv.manifest[i])
  <2>1. PICK then \in hist : Since(inv, then, now, hist)
    BY <1>5 DEF Good
  <2>2. inv.manifest[i].status # "verified"
    BY <1>5 DEF Claims
  <2>3. /\ [Advance(inv) EXCEPT !.manifest = inv.manifest] \in Invocations
        /\ Good([Advance(inv) EXCEPT !.manifest = inv.manifest], now, hist)
    BY <1>1, <1>5, <2>1, <2>2, AdvanceGood DEF Good, Grounded
  <2>4. Advance(inv) = [Advance(inv) EXCEPT !.manifest = inv.manifest]
    BY <1>1, AdvanceFacts DEF Invocations
  <2> QED BY <1>5, <2>3, <2>4
<1>6. CASE ~(inv.verifying /\ ~Claims(i, inv.manifest[i])) /\ listed = {}
  <2>1. \A f \in Members[i] : Blank[f] = now[f]
    BY <1>4, <1>6
  <2>2. \A f \in Members[i] : Known(f, Blank[f], now, hist)
    BY <2>1 DEF Known
  <2>3. ASSUME NEW then \in hist, Since(inv, then, now, hist), NEW f \in Members[i],
               inv.manifest[i].status = "verified", Blank[f] = inv.manifest[i].seen[f]
        PROVE  Blank[f] \in {Unreadable, then[f]}
    BY <1>2, <2>1, <2>3, SeenThen
  <2>4. /\ Conclude(inv, Blank) \in Invocations
        /\ Good(Conclude(inv, Blank), now, hist)
    BY <1>1, <1>6, <2>2, <2>3, BlankSeen, ConcludeGood
  <2> QED BY <1>6, <2>4
<1>7. CASE ~(inv.verifying /\ ~Claims(i, inv.manifest[i])) /\ listed # {}
  <2> DEFINE next == [inv EXCEPT !.pc = "read", !.left = listed]
  <2> HIDE DEF listed
  <2>1. /\ next \in Invocations
        /\ next.pc = "read" /\ next.verifying = inv.verifying /\ next.todo = inv.todo
        /\ next.left = listed /\ next.seen = Blank /\ next.manifest = inv.manifest
    BY <1>1, <1>3 DEF Invocations
  <2> HIDE DEF next
  <2>2. Shaped(next)
    BY <1>1, <1>3, <1>7, <2>1 DEF Shaped
  <2>3. Grounded(next, now, hist)
    BY <1>4, <2>1 DEF Good, Grounded, Known
  <2>4. ASSUME NEW then \in hist, Since(inv, then, now, hist)
        PROVE  Since(next, then, now, hist)
    <3>1. ASSUME NEW f \in Members[i] \ listed, inv.manifest[i].status = "verified",
                 Blank[f] = inv.manifest[i].seen[f]
          PROVE  Blank[f] \in {Unreadable, then[f]}
      BY <1>2, <1>4, <2>4, <3>1, SeenThen
    <3>2. \A j \in Item : Pending(next, j) = Pending(inv, j)
      BY <2>1 DEF Pending
    <3> QED BY <2>1, <2>4, <3>1, <3>2 DEF Since
  <2>5. Good(next, now, hist)
    BY <2>1, <2>2, <2>3, <2>4 DEF Good
  <2> QED BY <1>7, <2>1, <2>5 DEF next, listed
<1> QED BY <1>5, <1>6, <1>7

LEMMA ObserveGood ==
  ASSUME NEW now, NEW hist, NEW inv \in Invocations, Good(inv, now, hist),
         inv.pc = "read", NEW f \in inv.left, NEW outcome \in Seen,
         outcome \in {Unreadable, now[f]}
  PROVE  LET seen == [inv.seen EXCEPT ![f] = outcome]
             left == IF outcome = Unreadable /\ Head(inv.todo) # Repository
                     THEN {} ELSE inv.left \ {f}
             next == IF left = {} THEN Conclude(inv, seen)
                     ELSE [inv EXCEPT !.left = left, !.seen = seen]
         IN  next \in Invocations /\ Good(next, now, hist)
<1> DEFINE i == Head(inv.todo)
           seen == [inv.seen EXCEPT ![f] = outcome]
           left == IF outcome = Unreadable /\ i # Repository THEN {} ELSE inv.left \ {f}
<1>1. /\ inv.todo # << >> /\ inv.verifying \in BOOLEAN /\ inv.manifest \in Manifests
      /\ inv.left \subseteq Members[i] /\ inv.seen \in [File -> Seen]
      /\ inv.verifying => Claims(i, inv.manifest[i])
  BY DEF Good, Shaped, Invocations
<1>2. i \in Item
  BY <1>1, Rest DEF Invocations
<1>3. Members[i] \subseteq File /\ f \in Members[i]
  BY <1>1, <1>2, FreezeAssumption
<1>4. seen \in [File -> Seen] /\ seen[f] = outcome
  BY <1>1, <1>3
<1>5. \A g \in Members[i] \ inv.left : seen[g] = inv.seen[g]
  BY <1>1, <1>3
<1> HIDE DEF seen
<1>6. ASSUME NEW g \in Members[i] \ (inv.left \ {f})
      PROVE  Known(g, seen[g], now, hist)
  <2>1. CASE g = f
    BY <1>4, <2>1 DEF Known
  <2>2. CASE g # f
    BY <1>5, <1>6, <2>2 DEF Good, Grounded
  <2> QED BY <2>1, <2>2
<1>7. ASSUME NEW then \in hist, Since(inv, then, now, hist),
             NEW g \in Members[i] \ (inv.left \ {f}),
             inv.manifest[i].status = "verified", seen[g] = inv.manifest[i].seen[g]
      PROVE  seen[g] \in {Unreadable, then[g]}
  <2>1. CASE g = f /\ outcome = now[f]
    BY <1>2, <1>3, <1>4, <1>7, <2>1, SeenThen
  <2>2. CASE g = f /\ outcome = Unreadable
    BY <1>4, <2>2
  <2>3. CASE g # f
    BY <1>5, <1>7, <2>3 DEF Since
  <2> QED BY <2>1, <2>2, <2>3
<1>8. CASE left = {}
  <2>1. CASE outcome = Unreadable /\ i # Repository
    <3>1. i # Repository /\ \E g \in Members[i] : seen[g] = Unreadable
      BY <1>3, <1>4, <2>1
    <3>2. /\ Conclude(inv, seen) \in Invocations
          /\ Good(Conclude(inv, seen), now, hist)
      BY <1>1, <1>4, <3>1, ConcludeGood
    <3> QED BY <1>8, <3>2 DEF seen
  <2>2. CASE ~(outcome = Unreadable /\ i # Repository)
    <3>1. inv.left \ {f} = {}
      BY <1>8, <2>2
    <3>2. \A g \in Members[i] : Known(g, seen[g], now, hist)
      BY <1>6, <3>1
    <3>3. \A then \in hist : Since(inv, then, now, hist) =>
            \A g \in Members[i] :
              inv.manifest[i].status = "verified" /\ seen[g] = inv.manifest[i].seen[g]
                => seen[g] \in {Unreadable, then[g]}
      BY <1>7, <3>1
    <3>4. /\ Conclude(inv, seen) \in Invocations
          /\ Good(Conclude(inv, seen), now, hist)
      BY <1>1, <1>4, <3>2, <3>3, ConcludeGood
    <3> QED BY <1>8, <3>4 DEF seen
  <2> QED BY <2>1, <2>2
<1>9. CASE left # {}
  <2> DEFINE next == [inv EXCEPT !.left = left, !.seen = seen]
  <2>1. left = inv.left \ {f}
    BY <1>9
  <2> HIDE DEF left
  <2>2. /\ next \in Invocations
        /\ next.pc = "read" /\ next.verifying = inv.verifying /\ next.todo = inv.todo
        /\ next.left = inv.left \ {f} /\ next.seen = seen /\ next.manifest = inv.manifest
    BY <1>4, <2>1 DEF Invocations
  <2> HIDE DEF next
  <2>3. Shaped(next)
    BY <1>1, <2>2 DEF Shaped
  <2>4. Grounded(next, now, hist)
    BY <1>6, <2>2 DEF Good, Grounded
  <2>5. ASSUME NEW then \in hist, Since(inv, then, now, hist)
        PROVE  Since(next, then, now, hist)
    <3>1. \A j \in Item : Pending(next, j) = Pending(inv, j)
      BY <2>2 DEF Pending
    <3>2. \A g \in Members[i] \ (inv.left \ {f}) :
            inv.manifest[i].status = "verified" /\ seen[g] = inv.manifest[i].seen[g]
              => seen[g] \in {Unreadable, then[g]}
      BY <1>7, <2>5
    <3> QED BY <2>2, <2>5, <3>1, <3>2 DEF Since
  <2>6. Good(next, now, hist)
    BY <2>2, <2>3, <2>4, <2>5 DEF Good
  <2> QED BY <1>9, <2>2, <2>6 DEF next, left, seen
<1> QED BY <1>8, <1>9

(* Edits take nothing from what is known of the past, for no file comes    *)
(* back to what it held before.                                            *)
LEMMA EditGood ==
  ASSUME NEW now \in [File -> Held], NEW hist \in SUBSET [File -> Held], now \in hist,
         NEW f \in File, NEW held \in Held, \A earlier \in hist : earlier[f] # held,
         NEW inv \in Invocations, Good(inv, now, hist)
  PROVE  Good(inv, [now EXCEPT ![f] = held], hist \cup {[now EXCEPT ![f] = held]})
<1> DEFINE now2 == [now EXCEPT ![f] = held]
           hist2 == hist \cup {now2}
<1>1. now2[f] = held /\ \A g \in File \ {f} : now2[g] = now[g]
  OBVIOUS
<1> HIDE DEF now2
<1>2. ASSUME NEW g \in File, NEW v, Gone(g, v, now, hist)
      PROVE  Gone(g, v, now2, hist2)
  <2>1. PICK earlier \in hist : earlier[g] = v
    BY <1>2 DEF Gone
  <2>2. v # now2[g]
    BY <1>1, <1>2, <2>1 DEF Gone
  <2> QED BY <2>1, <2>2 DEF Gone
<1>3. ASSUME NEW g \in File, NEW v, Known(g, v, now, hist)
      PROVE  Known(g, v, now2, hist2)
  <2>1. CASE v = now[g] /\ g = f
    <3>1. v # now2[g] /\ now \in hist2
      BY <1>1, <2>1
    <3> QED BY <2>1, <3>1 DEF Known, Gone
  <2>2. CASE v = now[g] /\ g # f
    BY <1>1, <2>2 DEF Known
  <2>3. CASE v = Unreadable \/ Gone(g, v, now, hist)
    BY <1>2, <2>3 DEF Known
  <2> QED BY <1>3, <2>1, <2>2, <2>3 DEF Known
<1>4. /\ \A i \in Item : Members[i] \subseteq File
      /\ inv.pc = "read" => Head(inv.todo) \in Item
  BY FreezeAssumption, Rest DEF Good, Shaped, Invocations
<1>5. Grounded(inv, now2, hist2)
  BY <1>3, <1>4 DEF Good, Grounded
<1>6. ASSUME NEW then \in hist, Since(inv, then, now, hist)
      PROVE  Since(inv, then, now2, hist2)
  BY <1>2, <1>4, <1>6 DEF Since
<1>7. inv.verifying => \E then \in hist2 : Since(inv, then, now2, hist2)
  BY <1>6 DEF Good
<1>8. Good(inv, now2, hist2)
  BY <1>5, <1>7 DEF Good
<1> QED BY <1>8 DEF now2

-----------------------------------------------------------------------------
(* The steps. *)

(* A manifest that is complete describes the moment the second reading     *)
(* began.                                                                  *)
LEMMA LinkedIsSnapshot ==
  ASSUME NEW now, NEW hist, NEW inv \in Invocations, Good(inv, now, hist), inv.pc = "link"
  PROVE  \E held \in hist : Describes(inv.manifest, held)
<1>1. inv.verifying /\ \A i \in Item : ~Pending(inv, i)
  BY DEF Good, Shaped, Pending
<1>2. PICK then \in hist : Since(inv, then, now, hist)
  BY <1>1 DEF Good
<1>3. Describes(inv.manifest, then)
  BY <1>1, <1>2 DEF Since, Describes
<1> QED BY <1>3

(* A step of p that leaves the project and the published manifests alone.  *)
LEMMA OwnStep ==
  ASSUME Inductive, NEW p \in Process, UNCHANGED <<project, published>>,
         NEW next \in Invocations, Good(next, content, past), Become(p, next)
  PROVE  Inductive'
<1>1. content' = content /\ past' = past /\ published' = published
  BY DEF project
<1>2. proc \in [Process -> Invocations]
  BY DEF Inductive, TypeOK
<1>3. proc' \in [Process -> Invocations]
  BY <1>2 DEF Become
<1>4. \A q \in Process : proc'[q] = IF q = p THEN next ELSE proc[q]
  BY <1>2 DEF Become
<1>5. \A q \in Process : Good(proc'[q], content', past')
  BY <1>1, <1>4 DEF Inductive
<1>6. BaselineIsSnapshot'
  BY <1>1 DEF Inductive, BaselineIsSnapshot
<1> QED BY <1>1, <1>3, <1>5, <1>6 DEF Inductive, TypeOK

LEMMA InitKeeps == Init => Inductive
<1> SUFFICES ASSUME Init PROVE Inductive
  OBVIOUS
<1>1. \A p \in Process : proc[p] \in Invocations /\ Good(proc[p], content, past)
  BY IdleGood DEF Init
<1>2. TypeOK
  BY IdleGood, FreezeAssumption DEF Init, TypeOK
<1>3. BaselineIsSnapshot
  BY DEF Init, BaselineIsSnapshot
<1> QED BY <1>1, <1>2, <1>3 DEF Inductive

LEMMA InvocationStep ==
  ASSUME Inductive, NEW p \in Process, Step(p) \/ Failure(p)
  PROVE  Inductive'
<1>1. /\ proc[p] \in Invocations /\ Good(proc[p], content, past)
      /\ content \in past /\ content \in [File -> Held]
  BY DEF Inductive, TypeOK
<1>2. CASE Begin(p)
  BY <1>2, BeginGood, OwnStep DEF Begin, results
<1>3. CASE List(p)
  <2> DEFINE i == Head(proc[p].todo)
             listed == {f \in Members[i] : content[f] # Absent}
             next == IF proc[p].verifying /\ ~Claims(i, proc[p].manifest[i])
                     THEN Advance(proc[p])
                     ELSE IF listed = {} THEN Conclude(proc[p], Blank)
                     ELSE [proc[p] EXCEPT !.pc = "read", !.left = listed]
  <2>1. proc[p].pc = "list" /\ Become(p, next) /\ UNCHANGED <<project, published>>
    BY <1>3 DEF List, At, results
  <2>2. next \in Invocations /\ Good(next, content, past)
    BY <1>1, <2>1, ListGood
  <2> HIDE DEF next
  <2> QED BY <2>1, <2>2, OwnStep
<1>4. ASSUME NEW f \in File, Read(p, f) \/ ReadFails(p, f)
      PROVE  Inductive'
  <2>1. PICK outcome \in Seen :
          /\ outcome \in {Unreadable, content[f]}
          /\ Observe(p, f, outcome)
    <3>1. CASE Read(p, f)
      BY <1>1, <1>4, <3>1 DEF Read, Seen
    <3>2. CASE ReadFails(p, f)
      BY <3>2 DEF ReadFails, Seen
    <3> QED BY <1>4, <3>1, <3>2
  <2>2. /\ proc[p].pc = "read" /\ f \in proc[p].left
        /\ UNCHANGED <<project, published>>
    BY <1>4 DEF Read, ReadFails, Current, At, results
  <2> DEFINE seen == [proc[p].seen EXCEPT ![f] = outcome]
             left == IF outcome = Unreadable /\ Head(proc[p].todo) # Repository
                     THEN {} ELSE proc[p].left \ {f}
             next == IF left = {} THEN Conclude(proc[p], seen)
                     ELSE [proc[p] EXCEPT !.left = left, !.seen = seen]
  <2>3. Become(p, next)
    BY <2>1 DEF Observe
  <2>4. next \in Invocations /\ Good(next, content, past)
    BY <1>1, <2>1, <2>2, ObserveGood
  <2> HIDE DEF next
  <2> QED BY <2>2, <2>3, <2>4, OwnStep
<1>5. ASSUME Exit(p), UNCHANGED <<project, published>>
      PROVE  Inductive'
  BY <1>5, IdleGood, OwnStep DEF Exit
<1>6. CASE Publish(p)
  <2>1. proc[p].pc = "publish" /\ UNCHANGED <<project, published>>
    BY <1>6 DEF Publish, At, results
  <2>2. CASE proc[p].manifest \in published
    BY <1>5, <1>6, <2>1, <2>2 DEF Publish
  <2>3. CASE proc[p].manifest \notin published
    <3> DEFINE next == [proc[p] EXCEPT !.verifying = TRUE, !.pc = "list",
                                       !.todo = <<Repository>> \o Inventory]
    <3>1. Become(p, next)
      BY <1>6, <2>3 DEF Publish
    <3>2. next \in Invocations /\ Good(next, content, past)
      BY <1>1, <2>1, PublishGood
    <3> HIDE DEF next
    <3> QED BY <2>1, <3>1, <3>2, OwnStep
  <2> QED BY <2>2, <2>3
<1>7. CASE MakeDirectory(p)
  <2>1. proc[p].pc = "directory" /\ UNCHANGED <<project, published>>
    BY <1>7 DEF MakeDirectory, At
  <2>2. CASE proc[p].manifest \in directories
    BY <1>5, <1>7, <2>1, <2>2 DEF MakeDirectory
  <2>3. CASE proc[p].manifest \notin directories
    <3> DEFINE next == [proc[p] EXCEPT !.pc = "link"]
    <3>1. Become(p, next)
      BY <1>7, <2>3 DEF MakeDirectory
    <3>2. /\ next \in Invocations
          /\ next.pc = "link" /\ next.verifying = proc[p].verifying
          /\ next.todo = proc[p].todo /\ next.manifest = proc[p].manifest
      BY <1>1 DEF Invocations
    <3> HIDE DEF next
    <3>3. Shaped(next) /\ Grounded(next, content, past)
      BY <1>1, <2>1, <3>2 DEF Good, Shaped, Grounded
    <3>4. ASSUME NEW then \in past, Since(proc[p], then, content, past)
          PROVE  Since(next, then, content, past)
      <4>1. \A i \in Item : Pending(next, i) <=> Pending(proc[p], i)
        BY <3>2 DEF Pending
      <4> QED BY <3>2, <3>4, <4>1 DEF Since
    <3>5. Good(next, content, past)
      BY <1>1, <3>2, <3>3, <3>4 DEF Good
    <3> QED BY <2>1, <3>1, <3>2, <3>5, OwnStep
  <2> QED BY <2>2, <2>3
<1>8. CASE Link(p)
  <2>1. \E held \in past : Describes(proc[p].manifest, held)
    BY <1>1, <1>8, LinkedIsSnapshot DEF Link, At
  <2>2. /\ content' = content /\ past' = past
        /\ published' = published \cup {proc[p].manifest}
        /\ proc' = [proc EXCEPT ![p] = Idle]
    BY <1>8 DEF Link, project, Exit, Become
  <2>3. BaselineIsSnapshot'
    BY <2>1, <2>2 DEF Inductive, BaselineIsSnapshot
  <2>4. \A q \in Process : Good(proc'[q], content', past')
    BY <2>2, IdleGood DEF Inductive, TypeOK
  <2>5. TypeOK'
    BY <1>1, <2>2, IdleGood DEF Inductive, TypeOK, Invocations
  <2> QED BY <2>3, <2>4, <2>5 DEF Inductive
<1>9. CASE LinkFails(p) \/ Crash(p)
  BY <1>5, <1>9 DEF LinkFails, Crash, results
<1> QED BY <1>2, <1>3, <1>4, <1>6, <1>7, <1>8, <1>9 DEF Step, Failure

LEMMA EditKeeps ==
  ASSUME Inductive, NEW f \in File, NEW held \in Held, Edit(f, held)
  PROVE  Inductive'
<1>1. /\ content' = [content EXCEPT ![f] = held]
      /\ past' = past \cup {content'}
      /\ published' = published /\ proc' = proc
      /\ \A earlier \in past : earlier[f] # held
  BY DEF Edit, results
<1>2. TypeOK'
  BY <1>1 DEF Inductive, TypeOK
<1>3. \A p \in Process : Good(proc'[p], content', past')
  <2> SUFFICES ASSUME NEW p \in Process PROVE Good(proc[p], content', past')
    BY <1>1
  <2>1. /\ content \in [File -> Held] /\ past \in SUBSET [File -> Held]
        /\ content \in past /\ proc[p] \in Invocations /\ Good(proc[p], content, past)
    BY DEF Inductive, TypeOK
  <2> QED BY <1>1, <2>1, EditGood
<1>4. BaselineIsSnapshot'
  BY <1>1 DEF Inductive, BaselineIsSnapshot
<1> QED BY <1>2, <1>3, <1>4 DEF Inductive

LEMMA StepKeeps == Inductive /\ [Next]_vars => Inductive'
<1> SUFFICES ASSUME Inductive, [Next]_vars PROVE Inductive'
  OBVIOUS
<1>1. CASE Next
  BY <1>1, InvocationStep, EditKeeps DEF Next
<1>2. CASE UNCHANGED vars
  BY <1>2 DEF vars, project, results, Inductive, TypeOK, BaselineIsSnapshot
<1> QED BY <1>1, <1>2

(* Every published baseline describes the project as it was at one moment, *)
(* for any files, inventory, invocations, edits and failures               *)
(* (publish_manifest reads everything again before it publishes).          *)
THEOREM BaselinesAreSnapshots == Spec => []BaselineIsSnapshot
<1>1. Spec => []Inductive
  BY InitKeeps, StepKeeps, PTL DEF Spec
<1>2. Inductive => BaselineIsSnapshot
  BY DEF Inductive
<1> QED BY <1>1, <1>2, PTL
===============================================================================
