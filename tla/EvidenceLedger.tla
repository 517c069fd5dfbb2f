--------------------------- MODULE EvidenceLedger ---------------------------
(***************************************************************************)
(* The stored graph and the evidence ledger of memory3d-core, as seen by   *)
(* the connections (Repository values) open on one database file.          *)
(*                                                                         *)
(* A write transaction of the code is one step: SQLite makes it atomic and *)
(* rolls it back when a statement fails, when the connection is refused    *)
(* the lock (Busy) or when the process dies.  The reads a call makes       *)
(* BEFORE it opens its transaction are steps of their own, because every   *)
(* one of them is a separate autocommit statement: another connection may  *)
(* commit in between.  With one connection the module is the documented    *)
(* operating model (one local writer; the MCP server's mutex gives the     *)
(* same); with two it is two processes on one file.                        *)
(***************************************************************************)
EXTENDS Integers, FiniteSets

CONSTANTS
  Connections,    \* Repository values open on the file
  Keys,           \* idempotency keys
  EvidenceIds,    \* external evidence IDs
  Groups,         \* conflict groups
  OrdinaryNames,  \* relation names chosen by callers
  Bundles,        \* the bundles callers submit, as EvidenceBundle::from_json returns them
  NoKey,          \* no bundle_id: the evidence ID is not stored
  NoBundle,       \* no canonical_payload: the key is not in the ledger
  NoGroup,        \* conflict_group IS NULL
  NoArg,          \* the connection executes no call
  MaxBundleItems, \* MAX_BUNDLE_ITEMS
  MaxReferences,  \* MAX_EVIDENCE_REFERENCES: targets of one item in one table
  MaxNodes,       \* bound: ordinary nodes are added up to this ID
  MaxOrdinary,    \* bound on the relations callers add
  MaxFeedback     \* bound on the feedback events ever recorded

(* Relation names of projected references, one per reference table. *)
DerivedFrom == "evidence:derived_from"
ConflictsWith == "evidence:conflicts_with"
Supersedes == "evidence:supersedes"
DecisionSupport == "evidence:decision_support"
RefKinds == {DerivedFrom, ConflictsWith, Supersedes, DecisionSupport}

(* The order in which external_evidence_dependency queries their tables.    *)
RefTables == <<DerivedFrom, ConflictsWith, Supersedes, DecisionSupport>>

Reference == [kind : RefKinds, source : EvidenceIds, target : EvidenceIds]
Relation == [source : Nat, target : Nat, name : RefKinds \cup OrdinaryNames]
FeedbackEvent == [id : Nat, relation : Relation, positive : BOOLEAN]

(* A validated bundle.  Text, producer, scope, lifecycle and timestamps are *)
(* payload data the ledger only copies; two bundles with one key and        *)
(* different canonical JSON differ in one of these fields.                  *)
Bundle == [key : Keys, items : SUBSET EvidenceIds, refs : SUBSET Reference,
           group : [EvidenceIds -> Groups \cup {NoGroup}]]

(* What validate_item accepts of an item. *)
ItemWellFormed(b, e) ==
  LET targets(t) == {r.target : r \in {q \in b.refs : q.source = e /\ q.kind = t}} IN
  /\ \A t \in RefKinds : e \notin targets(t) /\ Cardinality(targets(t)) <= MaxReferences
  /\ targets(ConflictsWith) # {} => b.group[e] # NoGroup

(* What EvidenceBundle::from_json accepts. *)
WellFormed(b) ==
  /\ IsFiniteSet(b.items)
  /\ Cardinality(b.items) \in 1 .. MaxBundleItems
  /\ \A r \in b.refs : r.source \in b.items
  /\ \A e \in b.items : ItemWellFormed(b, e)

ASSUME BundlesWellFormed ==
  /\ Bundles \subseteq Bundle
  /\ \A b \in Bundles : WellFormed(b)

ASSUME SentinelsDistinct ==
  /\ NoKey \notin Keys
  /\ NoBundle \notin Bundles
  /\ NoGroup \notin Groups

(* An ID is a string, a reference a struct. *)
ASSUME IdsAreNotReferences == EvidenceIds \cap Reference = {}

ASSUME BoundsAreNat ==
  {MaxBundleItems, MaxReferences, MaxNodes, MaxOrdinary, MaxFeedback} \subseteq Nat

VARIABLES
  ledger,        \* evidence_bundles: canonical payload stored under each key
  rolledBack,    \* evidence_bundles: keys whose rolled_back_at_ms is set
  itemBundle,    \* evidence_items.bundle_id, as the bundle's key
  itemNode,      \* evidence_items.node_id, 0 where no row is stored
  refs,          \* the four reference tables
  nodes,         \* nodes.id
  nodeSeq,       \* sqlite_sequence of nodes
  relations,     \* relations, by primary key
  reinforcement, \* relations.reinforcement_count
  feedback,      \* relation_feedback_events
  feedbackSeq,   \* sqlite_sequence of relation_feedback_events
  issued,        \* for the properties: every node ID ever given out
  phase,         \* where each connection's call stands
  arg,           \* what that call was given
  pending,       \* the reads its current check has still to make
  reply          \* what the call that last returned answered, "none" while one runs

evidenceTables == <<ledger, rolledBack, itemBundle, itemNode, refs>>
graphTables == <<nodes, nodeSeq, issued, relations, reinforcement>>
feedbackTables == <<feedback, feedbackSeq>>
tables == <<evidenceTables, graphTables, feedbackTables>>
vars == <<ledger, rolledBack, itemBundle, itemNode, refs, nodes, nodeSeq, issued,
          relations, reinforcement, feedback, feedbackSeq, phase, arg, pending, reply>>

ApplyPhases == {"apply_check", "apply_write", "replay_ledger", "replay_items"}
RollbackPhases == {"rollback_evidence", "rollback_graph", "rollback_write"}
Phases == {"idle"} \cup ApplyPhases \cup RollbackPhases
Replies == {"none", "failed", "Applied", "Replayed", "RolledBack", "Stored", "Removed",
            "IdempotencyConflict", "EvidenceBundleRolledBack", "EvidenceIdExists",
            "EvidenceReferenceNotFound", "EvidenceConflictGroupMismatch",
            "EvidenceBundleNotFound", "EvidenceRollbackBlocked", "Database",
            "NodeNotFound", "RelationNotFound", "FeedbackEventNotFound"}

(* A check makes one read for each item and each reference of the bundle,   *)
(* or one for each reference table.                                         *)
Reads(p, a) ==
  CASE p = "apply_check" -> a.items \cup a.refs
    [] p = "rollback_evidence" -> 1 .. 4
    [] OTHER -> {}

TablesOK ==
  /\ ledger \in [Keys -> Bundles \cup {NoBundle}]
  /\ rolledBack \subseteq Keys
  /\ itemBundle \in [EvidenceIds -> Keys \cup {NoKey}]
  /\ itemNode \in [EvidenceIds -> Nat]
  /\ refs \subseteq Reference
  /\ nodes \subseteq Nat
  /\ nodeSeq \in Nat
  /\ issued \subseteq Nat
  /\ relations \subseteq Relation
  /\ reinforcement \in [relations -> Nat]
  /\ feedback \subseteq FeedbackEvent
  /\ feedbackSeq \in Nat

ControlOK ==
  /\ phase \in [Connections -> Phases]
  /\ arg \in [Connections -> Bundles \cup Keys \cup {NoArg}]
  /\ \A c \in Connections : /\ phase[c] \in ApplyPhases => arg[c] \in Bundles
                            /\ phase[c] \in RollbackPhases => arg[c] \in Keys
                            /\ pending[c] \subseteq Reads(phase[c], arg[c])
  /\ pending = [c \in Connections |-> pending[c]]

WellTyped == TablesOK /\ ControlOK

TypeOK == WellTyped /\ reply \in Replies

Init ==
  /\ ledger = [k \in Keys |-> NoBundle]
  /\ rolledBack = {}
  /\ itemBundle = [e \in EvidenceIds |-> NoKey]
  /\ itemNode = [e \in EvidenceIds |-> 0]
  /\ refs = {}
  /\ nodes = {}
  /\ nodeSeq = 0
  /\ issued = {}
  /\ relations = {}
  /\ reinforcement = [r \in {} |-> 0]
  /\ feedback = {}
  /\ feedbackSeq = 0
  /\ phase = [c \in Connections |-> "idle"]
  /\ arg = [c \in Connections |-> NoArg]
  /\ pending = [c \in Connections |-> {}]
  /\ reply = "none"

-----------------------------------------------------------------------------
(* Queries.                                                                *)

Active(k) == ledger[k] # NoBundle /\ k \notin rolledBack
Stored(e) == itemBundle[e] # NoKey

(* active_evidence_exists: the item row joined to a bundle not rolled back. *)
ActiveEvidence(e) == Stored(e) /\ itemBundle[e] \notin rolledBack

(* The stored conflict_group column, copied from the payload at apply. *)
ConflictGroup(e) == ledger[itemBundle[e]].group[e]

BundleItems(k) == {e \in EvidenceIds : itemBundle[e] = k}
BundleNodes(k) == {itemNode[e] : e \in BundleItems(k)}

(* external_evidence_dependency, the query of one table: a reference row of *)
(* another bundle's item that targets this bundle.                          *)
ExternalEvidence(k, t) ==
  \E r \in refs : /\ r.kind = t
                  /\ itemBundle[r.target] = k
                  /\ Stored(r.source) /\ itemBundle[r.source] # k

(* Mutant: only relations that leave the bundle count.                     *)
OutgoingGraph(k) ==
  \E r \in relations : r.source \in BundleNodes(k) /\ r.target \notin BundleNodes(k)

(* external_graph_dependency: a relation with exactly one end in the bundle. *)
ExternalGraph(k) ==
  \E r \in relations : (r.source \in BundleNodes(k)) # (r.target \in BundleNodes(k))

-----------------------------------------------------------------------------
(* Control of a call: a connection is exclusively borrowed while it runs.  *)

Enter(c, p, a) ==
  /\ phase' = [phase EXCEPT ![c] = p]
  /\ arg' = [arg EXCEPT ![c] = a]
  /\ pending' = [pending EXCEPT ![c] = Reads(p, a)]
  /\ reply' = "none"

(* A read found nothing to refuse: the check goes on, or the next phase     *)
(* begins.                                                                  *)
Passed(c, read, next) ==
  IF pending[c] \subseteq {read}
  THEN Enter(c, next, arg[c])
  ELSE /\ pending' = [pending EXCEPT ![c] = @ \ {read}]
       /\ reply' = "none"
       /\ UNCHANGED <<phase, arg>>

Return(c, answer) ==
  /\ phase' = [phase EXCEPT ![c] = "idle"]
  /\ arg' = [arg EXCEPT ![c] = NoArg]
  /\ pending' = [pending EXCEPT ![c] = {}]
  /\ reply' = answer

Refuse(c, answer) == Return(c, answer) /\ UNCHANGED tables

(* Busy, a failed commit, or the death of the process: the journal restores *)
(* the tables and the call's caller gets no result from them.               *)
CallFails(c) == phase[c] # "idle" /\ Refuse(c, "failed")

-----------------------------------------------------------------------------
(* apply_evidence_bundle                                                   *)

(* preview_evidence_bundle, the ledger read. *)
ApplyLookup(c, b) ==
  /\ phase[c] = "idle"
  /\ UNCHANGED tables
  /\ LET stored == ledger[b.key] IN
     \/ stored = NoBundle /\ Enter(c, "apply_check", b)
     \/ stored \notin {NoBundle, b} /\ Return(c, "IdempotencyConflict")
     \/ /\ stored = b
        /\ IF b.key \in rolledBack THEN Return(c, "EvidenceBundleRolledBack")
                                   ELSE Enter(c, "replay_ledger", b)

TargetGroup(b, e) == IF e \in b.items THEN b.group[e] ELSE ConflictGroup(e)

ReferenceNotFound(b, r) == r.target \notin b.items /\ ~ActiveEvidence(r.target)

(* Mutant: the groups of stored targets are not compared.                  *)
GroupMismatchInBundle(b, r) ==
  r.kind = ConflictsWith /\ r.target \in b.items /\ b.group[r.target] # b.group[r.source]

GroupMismatch(b, r) ==
  r.kind = ConflictsWith /\ TargetGroup(b, r.target) # b.group[r.source]

(* active_evidence_exists, once the references of the items before it are   *)
(* checked.                                                                 *)
CheckItem(c, e) ==
  /\ \A r \in pending[c] \cap arg[c].refs : r.source \in pending[c]
  /\ IF ActiveEvidence(e) THEN Return(c, "EvidenceIdExists")
                          ELSE Passed(c, e, "apply_write")

(* active_conflict_group, once the item itself is checked.                  *)
CheckReference(c, r) ==
  LET b == arg[c] IN
  /\ r.source \notin pending[c]
  /\ \/ ReferenceNotFound(b, r) /\ Return(c, "EvidenceReferenceNotFound")
     \/ /\ ~ReferenceNotFound(b, r) /\ GroupMismatch(b, r)
        /\ Return(c, "EvidenceConflictGroupMismatch")
     \/ /\ ~ReferenceNotFound(b, r) /\ ~GroupMismatch(b, r)
        /\ Passed(c, r, "apply_write")

(* preview_evidence_bundle, the item and reference reads: item by item, in  *)
(* ID order in the code and in any order here.                              *)
ApplyCheck(c) ==
  /\ phase[c] = "apply_check"
  /\ UNCHANGED tables
  /\ \/ \E e \in pending[c] \cap arg[c].items : CheckItem(c, e)
     \/ \E r \in pending[c] \cap arg[c].refs : CheckReference(c, r)

(* Mutants: the evidence ID is replaced where it is stored, and the         *)
(* references are trusted because ApplyCheck looked them up.                *)
ApplyReplacesItems(b) ==
  \/ ledger[b.key] # NoBundle
  \/ \E r \in b.refs : r.target \notin b.items /\ ~Stored(r.target)
ApplyTrustsReferences(b) ==
  ledger[b.key] # NoBundle \/ \E e \in b.items : Stored(e)

(* The constraints the INSERTs of the transaction can hit: the unique key,  *)
(* the evidence_items primary key and the foreign keys of the references.   *)
ApplyViolatesConstraint(b) ==
  \/ ledger[b.key] # NoBundle
  \/ \E e \in b.items : Stored(e)
  \/ \E r \in b.refs : r.target \notin b.items /\ ~Stored(r.target)

(* Mutant: IDs continue after the highest stored one, not after the sequence. *)
NodesAfterHighest(b) ==
  LET highest == CHOOSE n \in nodes \cup {0} : \A m \in nodes : m <= n
  IN highest + 1 .. highest + Cardinality(b.items)

NewNodes(b) == nodeSeq + 1 .. nodeSeq + Cardinality(b.items)

(* Mutant: last_insert_rowid read once for the whole bundle.               *)
OneNodeForAll(b) == {[e \in b.items |-> nodeSeq + 1]}

(* AUTOINCREMENT gives each inserted item the next node ID. *)
NodeAssignments(b) ==
  {f \in [b.items -> NewNodes(b)] : \A d, e \in b.items : f[d] = f[e] => d = e}

Projection(b, node) ==
  {[source |-> node[r.source], target |-> node[r.target], name |-> r.kind] : r \in b.refs}

(* New relations start with the default reinforcement_count 0.  No INSERT   *)
(* meets an existing primary key: each source node is new.                  *)
InsertRelations(new) ==
  /\ relations' = relations \cup new
  /\ reinforcement' = [r \in relations \cup new |->
                         IF r \in relations THEN reinforcement[r] ELSE 0]

ApplyWrite(c) ==
  /\ phase[c] = "apply_write"
  /\ LET b == arg[c] IN
     \/ ApplyViolatesConstraint(b) /\ Refuse(c, "Database")
     \/ /\ ~ApplyViolatesConstraint(b)
        /\ \E assigned \in NodeAssignments(b) :
             itemNode' = [e \in EvidenceIds |->
                            IF e \in b.items THEN assigned[e] ELSE itemNode[e]]
        /\ ledger' = [ledger EXCEPT ![b.key] = b]
        /\ itemBundle' = [e \in EvidenceIds |->
                            IF e \in b.items THEN b.key ELSE itemBundle[e]]
        /\ refs' = refs \cup b.refs
        /\ nodes' = nodes \cup NewNodes(b)
        /\ issued' = issued \cup NewNodes(b)
        /\ nodeSeq' = nodeSeq + Cardinality(b.items)
        /\ InsertRelations(Projection(b, itemNode'))
        /\ UNCHANGED <<rolledBack, feedbackTables>>
        /\ Return(c, "Applied")

(* load_apply_report of an identical replay: the ledger read ... *)
ReplayLedger(c) ==
  /\ phase[c] = "replay_ledger"
  /\ UNCHANGED tables
  /\ IF arg[c].key \in rolledBack THEN Return(c, "EvidenceBundleRolledBack")
                                  ELSE Enter(c, "replay_items", arg[c])

(* ... and the item read. *)
ReplayItems(c) == phase[c] = "replay_items" /\ Refuse(c, "Replayed")

-----------------------------------------------------------------------------
(* rollback_evidence_bundle                                                *)

RollbackLookup(c, k) ==
  /\ phase[c] = "idle"
  /\ UNCHANGED tables
  /\ \/ ledger[k] = NoBundle /\ Return(c, "EvidenceBundleNotFound")
     \/ k \in rolledBack /\ Return(c, "EvidenceBundleRolledBack")
     \/ Active(k) /\ Enter(c, "rollback_evidence", k)

RollbackEvidenceCheck(c) ==
  /\ phase[c] = "rollback_evidence"
  /\ UNCHANGED tables
  /\ \E i \in pending[c] :
       /\ \A j \in pending[c] : i <= j
       /\ IF ExternalEvidence(arg[c], RefTables[i])
          THEN Return(c, "EvidenceRollbackBlocked")
          ELSE Passed(c, i, "rollback_graph")

RollbackGraphCheck(c) ==
  /\ phase[c] = "rollback_graph"
  /\ UNCHANGED tables
  /\ IF ExternalGraph(arg[c]) THEN Return(c, "EvidenceRollbackBlocked")
                              ELSE Enter(c, "rollback_write", arg[c])

OwnRefs(k) == {r \in refs : itemBundle[r.source] = k}
TouchingRelations(k) ==
  {r \in relations : r.source \in BundleNodes(k) \/ r.target \in BundleNodes(k)}

(* Mutants: the schema without one of the two foreign keys.                *)
RollbackIgnoresFeedback(k) == \E r \in refs \ OwnRefs(k) : itemBundle[r.target] = k
RollbackIgnoresReferences(k) == \E f \in feedback : f.relation \in TouchingRelations(k)

(* ON DELETE RESTRICT: a feedback event on a relation to delete, or another *)
(* bundle's reference to an item to delete.                                 *)
RollbackViolatesConstraint(k) ==
  \/ \E f \in feedback : f.relation \in TouchingRelations(k)
  \/ \E r \in refs \ OwnRefs(k) : itemBundle[r.target] = k

RollbackWrite(c) ==
  /\ phase[c] = "rollback_write"
  /\ LET k == arg[c]
         left == relations \ TouchingRelations(k)
     IN \/ RollbackViolatesConstraint(k) /\ Refuse(c, "Database")
        \/ /\ ~RollbackViolatesConstraint(k)
           /\ refs' = refs \ OwnRefs(k)
           /\ relations' = left
           /\ reinforcement' = [r \in left |-> reinforcement[r]]
           /\ nodes' = nodes \ BundleNodes(k)
           /\ itemBundle' = [e \in EvidenceIds |->
                               IF itemBundle[e] = k THEN NoKey ELSE itemBundle[e]]
           /\ itemNode' = [e \in EvidenceIds |->
                             IF itemBundle[e] = k THEN 0 ELSE itemNode[e]]
           /\ rolledBack' = rolledBack \cup {k}
           /\ UNCHANGED <<ledger, nodeSeq, issued, feedbackTables>>
           /\ Return(c, "RolledBack")

-----------------------------------------------------------------------------
(* Ordinary graph writes and feedback: each is a single transaction that   *)
(* also makes its own checks.                                              *)

AddNodes(c, n) ==
  /\ phase[c] = "idle"
  /\ nodeSeq + n <= MaxNodes
  /\ nodes' = nodes \cup (nodeSeq + 1 .. nodeSeq + n)
  /\ issued' = issued \cup (nodeSeq + 1 .. nodeSeq + n)
  /\ nodeSeq' = nodeSeq + n
  /\ UNCHANGED <<evidenceTables, relations, reinforcement, feedbackTables>>
  /\ Return(c, "Stored")

OrdinaryRelations == {r \in relations : r.name \in OrdinaryNames}

AddRelations(c, batch) ==
  /\ phase[c] = "idle"
  /\ Cardinality(OrdinaryRelations \cup batch) <= MaxOrdinary
  /\ \/ /\ \E r \in batch : ~({r.source, r.target} \subseteq nodes)
        /\ Refuse(c, "NodeNotFound")
     \/ batch \cap relations # {} /\ Refuse(c, "Database")
     \/ /\ \A r \in batch : {r.source, r.target} \subseteq nodes
        /\ batch \cap relations = {}
        /\ InsertRelations(batch)
        /\ UNCHANGED <<evidenceTables, nodes, nodeSeq, issued, feedbackTables>>
        /\ Return(c, "Stored")

(* Mutant: every event counts.                                             *)
CountsEveryEvent(r, positive) == [reinforcement EXCEPT ![r] = @ + 1]

Reinforced(r, positive) == [reinforcement EXCEPT ![r] = @ + (IF positive THEN 1 ELSE 0)]

RecordFeedback(c, r, positive) ==
  /\ phase[c] = "idle"
  /\ feedbackSeq < MaxFeedback
  /\ \/ r \notin relations /\ Refuse(c, "RelationNotFound")
     \/ /\ r \in relations
        /\ feedback' = feedback \cup
             {[id |-> feedbackSeq + 1, relation |-> r, positive |-> positive]}
        /\ feedbackSeq' = feedbackSeq + 1
        /\ reinforcement' = Reinforced(r, positive)
        /\ UNCHANGED <<evidenceTables, nodes, nodeSeq, issued, relations>>
        /\ Return(c, "Stored")

(* Mutant: a removed event is compensated whatever its kind, without max(). *)
AlwaysCompensated(f) == [reinforcement EXCEPT ![f.relation] = @ - 1]

Compensated(f) ==
  IF f.positive /\ reinforcement[f.relation] > 0
  THEN [reinforcement EXCEPT ![f.relation] = @ - 1]
  ELSE reinforcement

RemoveFeedback(c, id) ==
  /\ phase[c] = "idle"
  /\ \/ (\A f \in feedback : f.id # id) /\ Refuse(c, "FeedbackEventNotFound")
     \/ \E f \in feedback :
          /\ f.id = id
          /\ feedback' = feedback \ {f}
          /\ reinforcement' = Compensated(f)
          /\ UNCHANGED <<evidenceTables, nodes, nodeSeq, issued, relations, feedbackSeq>>
          /\ Return(c, "Removed")

-----------------------------------------------------------------------------
OrdinaryRelation == [source : 1 .. nodeSeq, target : 1 .. nodeSeq, name : OrdinaryNames]
Batches == {{r, s} : r, s \in OrdinaryRelation}

ApplyStep(c) ==
  \/ \E b \in Bundles : ApplyLookup(c, b)
  \/ ApplyCheck(c) \/ ApplyWrite(c) \/ ReplayLedger(c) \/ ReplayItems(c)

RollbackStep(c) ==
  \/ \E k \in Keys : RollbackLookup(c, k)
  \/ RollbackEvidenceCheck(c) \/ RollbackGraphCheck(c) \/ RollbackWrite(c)

GraphStep(c) ==
  \/ \E n \in 1 .. MaxNodes : AddNodes(c, n)
  \/ \E batch \in Batches : AddRelations(c, batch)
  \/ \E r \in relations \cup OrdinaryRelation, positive \in BOOLEAN : RecordFeedback(c, r, positive)
  \/ \E id \in 1 .. MaxFeedback : RemoveFeedback(c, id)

Next == \E c \in Connections : ApplyStep(c) \/ RollbackStep(c) \/ GraphStep(c) \/ CallFails(c)

Spec == Init /\ [][Next]_vars
=============================================================================
