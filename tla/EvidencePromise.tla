--------------------------- MODULE EvidencePromise ---------------------------
(***************************************************************************)
(* What the evidence ledger promises its callers, without tables, phases   *)
(* or connections (docs/evidence-envelope.md, ADR 0021): a bundle is       *)
(* applied at most once under its key and rolled back at most once; at any *)
(* moment the active bundles have disjoint evidence IDs and every          *)
(* reference of an active bundle resolves to an active bundle.             *)
(***************************************************************************)
EXTENDS Naturals

CONSTANTS Keys, Bundles, NoBundle

VARIABLES ledger, rolledBack

ActiveKeys == {k \in Keys : ledger[k] # NoBundle /\ k \notin rolledBack}

(* The evidence a reader can find. *)
ActiveIds == UNION {ledger[k].items : k \in ActiveKeys}

Init ==
  /\ ledger = [k \in Keys |-> NoBundle]
  /\ rolledBack = {}

Apply(b) ==
  /\ ledger[b.key] = NoBundle
  /\ b.items \cap ActiveIds = {}
  /\ \A r \in b.refs : r.target \in b.items \cup ActiveIds
  /\ ledger' = [ledger EXCEPT ![b.key] = b]
  /\ UNCHANGED rolledBack

Rollback(k) ==
  /\ k \in ActiveKeys
  /\ \A j \in ActiveKeys \ {k} : \A r \in ledger[j].refs : r.target \notin ledger[k].items
  /\ rolledBack' = rolledBack \cup {k}
  /\ UNCHANGED ledger

Next == (\E b \in Bundles : Apply(b)) \/ (\E k \in Keys : Rollback(k))

Spec == Init /\ [][Next]_<<ledger, rolledBack>>
=============================================================================
