-------------------------- MODULE MCEvidenceLedger --------------------------
(* Small instances of EvidenceLedger: three evidence IDs, three keys.       *)
EXTENDS EvidenceLedgerProperties

CONSTANTS c1, c2, k1, k2, k3, e1, e2, e3, g1, g2

Ref(kind, d, e) == [kind |-> kind, source |-> d, target |-> e]
GroupsOf(f) == [e \in EvidenceIds |-> IF e \in DOMAIN f THEN f[e] ELSE NoGroup]
Payload(k, items, references, f) ==
  [key |-> k, items |-> items, refs |-> references, group |-> GroupsOf(f)]
NoGroups == [e \in {} |-> NoGroup]

(* One item in a conflict group, and the same key with an extra conflicting *)
(* item: the two payloads of k1 conflict.                                   *)
Alone == Payload(k1, {e1}, {}, [e \in {e1} |-> g1])
Pair == Payload(k1, {e1, e3}, {Ref(ConflictsWith, e3, e1)}, [e \in {e1, e3} |-> g1])
(* Two payloads of k2 that refer to evidence of another bundle.             *)
Rival == Payload(k2, {e2}, {Ref(ConflictsWith, e2, e1)}, [e \in {e2} |-> g1])
Derived == Payload(k2, {e2}, {Ref(DerivedFrom, e2, e1), Ref(DecisionSupport, e2, e1)}, NoGroups)
(* e1 again under another key and in another group, possible once k1 is     *)
(* rolled back; and evidence that supersedes evidence of k2.                *)
Regrouped == Payload(k3, {e1}, {}, [e \in {e1} |-> g2])
Newer == Payload(k3, {e3}, {Ref(Supersedes, e3, e2)}, NoGroups)

(* The bundles of the instances. *)
PairOnly == {Pair}
RivalBundles == {Pair, Rival, Regrouped}
AllBundles == {Alone, Pair, Rival, Derived, Regrouped, Newer}
=============================================================================
