---------------------------- MODULE RoundRegistry ----------------------------
(***************************************************************************)
(* What the replicated consensus application promises its clients, without *)
(* blocks, precommits, files or crashes: one history of registries, each   *)
(* mapping round ids to their committed results, and every node answering  *)
(* queries from the registry of one height of that history.                *)
(***************************************************************************)
EXTENDS Naturals, Sequences

CONSTANTS Node,     \* the validators
          Empty     \* the registry that holds no round

VARIABLES ledger,   \* ledger[h + 1] is the registry after block h
          applied,  \* applied[n]: the height node n answers queries at
          visible   \* visible[n]: the registry node n answers from

vars == <<ledger, applied, visible>>

Init ==
  /\ ledger = <<Empty>>
  /\ applied = [n \in Node |-> 0]
  /\ visible = [n \in Node |-> Empty]

(* One more block is decided; it may add rounds and replace rounds, but    *)
(* never drops one.                                                        *)
Extend ==
  /\ Len(ledger') = Len(ledger) + 1
  /\ \A i \in 1..Len(ledger) : ledger'[i] = ledger[i]
  /\ DOMAIN ledger[Len(ledger)] \subseteq DOMAIN ledger'[Len(ledger) + 1]
  /\ UNCHANGED <<applied, visible>>

(* A node commits the next height. *)
Advance(n) ==
  /\ applied[n] + 1 < Len(ledger)
  /\ applied' = [applied EXCEPT ![n] = @ + 1]
  /\ visible' = [visible EXCEPT ![n] = ledger[applied[n] + 2]]
  /\ UNCHANGED ledger

(* A node stops, restarts or loses its state: it answers from some height  *)
(* of the same history.                                                    *)
Reload(n) ==
  /\ \E h \in 0..(Len(ledger) - 1) :
       /\ applied' = [applied EXCEPT ![n] = h]
       /\ visible' = [visible EXCEPT ![n] = ledger[h + 1]]
  /\ UNCHANGED ledger

(* The whole stack restarts from genesis. *)
Genesis ==
  /\ ledger' = <<Empty>>
  /\ applied' = [n \in Node |-> 0]
  /\ visible' = [n \in Node |-> Empty]

Next ==
  \/ Extend
  \/ \E n \in Node : Advance(n) \/ Reload(n)
  \/ Genesis

Spec == Init /\ [][Next]_vars
=============================================================================
