----------------------- MODULE EvidenceLedgerProperties -----------------------
(***************************************************************************)
(* What the evidence ledger and the stored graph must satisfy.             *)
(***************************************************************************)
EXTENDS EvidenceLedger

(* Apply and rollback are all-or-nothing (evidence.rs:1069-1074, ADR 0021): *)
(* the stored items and reference rows are at every moment exactly those of *)
(* the payloads that are applied and not rolled back, whatever was refused, *)
(* interrupted, retried or run by another connection in between.            *)
BundlesAllOrNothing ==
  /\ \A k \in Keys, e \in EvidenceIds :
       itemBundle[e] = k <=> Active(k) /\ e \in ledger[k].items
  /\ refs = UNION {ledger[k].refs : k \in {j \in Keys : Active(j)}}

(* A stored reference never dangles: the reads that checked it ran before   *)
(* the transaction, and both ends are stored all the same, also after any   *)
(* rollback.                                                                *)
ReferencesResolve == \A r \in refs : Stored(r.source) /\ Stored(r.target)

(* A key is rolled back, and a rollback is under way, only for a bundle the *)
(* ledger holds: rows of evidence_bundles are never deleted.                *)
LedgerRowsStay ==
  /\ \A k \in rolledBack : ledger[k] # NoBundle
  /\ \A c \in Connections : phase[c] \in RollbackPhases => ledger[arg[c]] # NoBundle

(* The inductive invariant of the evidence tables.                          *)
LedgerInv == WellTyped /\ BundlesAllOrNothing /\ ReferencesResolve /\ LedgerRowsStay

(* Every stored item keeps a projected node of its own, and every stored    *)
(* reference keeps the relation projected for it (evidence.rs:1118-1176):   *)
(* no rollback of another bundle takes either away.                         *)
ProjectionComplete ==
  /\ \A e \in EvidenceIds : Stored(e) => itemNode[e] \in nodes
  /\ \A d, e \in EvidenceIds : Stored(d) /\ Stored(e) /\ itemNode[d] = itemNode[e] => d = e
  /\ \A r \in refs : [source |-> itemNode[r.source], target |-> itemNode[r.target],
                      name |-> r.kind] \in relations

(* No relation and no feedback event outlives what it is about.             *)
NothingDangles ==
  /\ \A r \in relations : {r.source, r.target} \subseteq nodes
  /\ \A f \in feedback : f.relation \in relations

(* The informational counter of a relation is the number of positive events *)
(* still recorded for it (repository.rs:818-824), over any order of         *)
(* recording, removal, apply and rollback.                                  *)
FeedbackCountExact ==
  \A r \in relations :
    reinforcement[r] = Cardinality({f \in feedback : f.relation = r /\ f.positive})

(* Items that are stored as conflicting are in one conflict group           *)
(* (evidence.rs:1052-1059), although an ID may be stored, rolled back and   *)
(* stored again with another group.                                         *)
ConflictGroupsAgree ==
  \A r \in refs : r.kind = ConflictsWith =>
    /\ ConflictGroup(r.source) # NoGroup
    /\ ConflictGroup(r.source) = ConflictGroup(r.target)

(* A rollback reaches nothing outside its bundle: the nodes it removes are  *)
(* projected by the bundle, and a relation with an end elsewhere survives,  *)
(* although the check for one is a read before the transaction              *)
(* (evidence.rs:1351-1357, 1374-1380).  The relations BETWEEN the bundle's  *)
(* nodes go, whoever made them.                                             *)
RolledBackNodes == UNION {BundleNodes(k) : k \in rolledBack' \ rolledBack}

RollbackStaysInside ==
  [][ /\ nodes \ nodes' \subseteq RolledBackNodes
      /\ \A r \in relations \ relations' : {r.source, r.target} \subseteq RolledBackNodes ]_vars

(* "removes only the selected applied bundle and its graph projection" (ADR *)
(* 0021:55): of the relations, only those the bundle's own references       *)
(* project are removed, and none a caller has added.                        *)
RollbackRemovesOnlyProjection ==
  [][ \A r \in relations \ relations' :
        \E k \in rolledBack' \ rolledBack : r \in Projection(ledger[k], itemNode) ]_vars

(* A node ID is never given out twice, even if the node it was given to is  *)
(* long rolled back, so an ID a caller kept cannot come to name another     *)
(* memory (repository.rs:23, AUTOINCREMENT).                                *)
NodeIdsNeverReused == [][ (nodes' \ nodes) \cap issued = {} ]_vars

(* "Rollback is blocked when later evidence or an ordinary graph relation   *)
(* depends on one of the bundle's projected nodes" (evidence.rs:1324).      *)
LaterEvidence(k) ==
  \E r \in refs : itemBundle[r.target] = k /\ itemBundle[r.source] # k

CrossingOrdinary(k) ==
  \E r \in OrdinaryRelations : (r.source \in BundleNodes(k)) # (r.target \in BundleNodes(k))

(* A rollback that is refused as blocked has such a dependency: nothing but *)
(* later evidence or an ordinary relation blocks it.                        *)
BlockedOnlyByDependents ==
  [][ reply' = "EvidenceRollbackBlocked" =>
        \E c \in Connections :
          /\ phase[c] \in {"rollback_evidence", "rollback_graph"}
          /\ phase'[c] = "idle"
          /\ LaterEvidence(arg[c]) \/ CrossingOrdinary(arg[c]) ]_vars

(* "Identical active replays return the original durable mapping"           *)
(* (evidence.rs:1072): when a replay reads its report, all items of the     *)
(* payload are there to be reported.                                        *)
ReplaysReturnMapping ==
  [][ reply' = "Replayed" =>
        \E c \in Connections :
          /\ phase[c] = "replay_items"
          /\ phase'[c] = "idle"
          /\ BundleItems(arg[c].key) = arg[c].items ]_vars

(* The tables implement the promise of the ledger: every step of every call *)
(* of every connection is an Apply, a Rollback or nothing to a caller.      *)
Promise == INSTANCE EvidencePromise
KeepsPromise == Promise!Spec
=============================================================================
