----------------------- MODULE EvidenceProjectionProofs -----------------------
(***************************************************************************)
(* Proofs about the graph the ledger projects into: what is stored has its *)
(* nodes and relations, nothing dangles and no node ID is given out twice, *)
(* for every value of the constants.                                       *)
(***************************************************************************)
EXTENDS EvidenceLedgerProofs, FiniteSetTheorems

USE DEF ApplyPhases, RollbackPhases, Phases, Replies

(* Node IDs come from the sequence, which never goes back behind one that   *)
(* was given out.                                                           *)
NodesNumbered == nodes \subseteq issued /\ issued \subseteq 1 .. nodeSeq

GraphInv == NodesNumbered /\ ProjectionComplete /\ NothingDangles

(* The inductive invariant: the graph is right because the ledger is. *)
StoreInv == LedgerInv /\ GraphInv

LEMMA InitGraphInv == Init => GraphInv
BY SentinelsDistinct
DEF Init, GraphInv, NodesNumbered, ProjectionComplete, NothingDangles, Stored

LEMMA UnchangedGraph ==
  ASSUME GraphInv, UNCHANGED tables PROVE GraphInv'
BY DEF GraphInv, NodesNumbered, ProjectionComplete, NothingDangles, Stored, tables,
       evidenceTables, graphTables, feedbackTables

(* An apply gives every item of the bundle a new node of its own. *)
LEMMA AppliedGraph ==
  ASSUME StoreInv, NEW c \in Connections, ApplyWrite(c)
  PROVE  GraphInv'
<1>. DEFINE b == arg[c]
<1>0. TablesOK /\ ControlOK /\ NodesNumbered /\ ProjectionComplete /\ NothingDangles
      /\ ReferencesResolve /\ NoKey \notin Keys
  BY SentinelsDistinct DEF WellTyped, StoreInv, LedgerInv, GraphInv
<1>1. b \in Bundles
  BY <1>0 DEF ControlOK, ApplyWrite
<1>2. b.key \in Keys /\ b.items \subseteq EvidenceIds /\ b.refs \subseteq Reference
      /\ Cardinality(b.items) \in Nat /\ \A r \in b.refs : r.source \in b.items
  BY <1>1, BundleFacts
<1>3. CASE Refuse(c, "Database")
  BY <1>3, UnchangedGraph DEF Refuse, StoreInv
<1>4. ASSUME NEW assigned \in NodeAssignments(b), ~ApplyViolatesConstraint(b),
             /\ itemNode' = [e \in EvidenceIds |->
                               IF e \in b.items THEN assigned[e] ELSE itemNode[e]]
             /\ itemBundle' = [e \in EvidenceIds |->
                               IF e \in b.items THEN b.key ELSE itemBundle[e]]
             /\ refs' = refs \cup b.refs
             /\ nodes' = nodes \cup NewNodes(b)
             /\ issued' = issued \cup NewNodes(b)
             /\ nodeSeq' = nodeSeq + Cardinality(b.items)
             /\ InsertRelations(Projection(b, itemNode'))
             /\ UNCHANGED <<rolledBack, feedbackTables>>
      PROVE  GraphInv'
  <2>1. /\ \A e \in b.items : assigned[e] \in NewNodes(b)
        /\ \A d, e \in b.items : assigned[d] = assigned[e] => d = e
    BY DEF NodeAssignments
  <2>2. nodeSeq \in Nat /\ NewNodes(b) \cap nodes = {} /\ NewNodes(b) \subseteq 1 .. nodeSeq'
        /\ issued \subseteq 1 .. nodeSeq'
    BY <1>0, <1>2, <1>4 DEF TablesOK, NodesNumbered, NewNodes
  <2>3. \A e \in b.items : itemNode'[e] = assigned[e] /\ itemBundle'[e] = b.key
                           /\ ~Stored(e)
    BY <1>2, <1>4 DEF ApplyViolatesConstraint
  <2>4. \A e \in EvidenceIds \ b.items : itemNode'[e] = itemNode[e]
                                         /\ itemBundle'[e] = itemBundle[e]
    BY <1>4
  <2>5. \A e \in EvidenceIds : Stored(e)' <=> Stored(e) \/ e \in b.items
    BY <1>0, <1>2, <2>3, <2>4 DEF Stored
  <2>6. \A e \in EvidenceIds : Stored(e)' => itemNode'[e] \in nodes'
    BY <1>0, <1>4, <2>1, <2>3, <2>4, <2>5 DEF ProjectionComplete
  <2>7. \A d, e \in EvidenceIds :
          Stored(d)' /\ Stored(e)' /\ itemNode'[d] = itemNode'[e] => d = e
    <3>. SUFFICES ASSUME NEW d \in EvidenceIds, NEW e \in EvidenceIds,
                         Stored(d)', Stored(e)', itemNode'[d] = itemNode'[e]
                  PROVE  d = e
      OBVIOUS
    <3>1. CASE d \in b.items /\ e \in b.items
      BY <2>1, <2>3, <3>1
    <3>2. CASE d \notin b.items /\ e \notin b.items
      BY <1>0, <2>4, <2>5, <3>2 DEF ProjectionComplete
    <3>3. CASE (d \in b.items) # (e \in b.items)
      BY <1>0, <2>1, <2>2, <2>3, <2>4, <2>5, <3>3 DEF ProjectionComplete
    <3>. QED
      BY <3>1, <3>2, <3>3
  <2>8. \A r \in refs' :
          /\ Stored(r.source)' /\ Stored(r.target)'
          /\ r.source \in EvidenceIds /\ r.target \in EvidenceIds
    <3>. SUFFICES ASSUME NEW r \in refs'
                  PROVE  /\ Stored(r.source)' /\ Stored(r.target)'
                         /\ r.source \in EvidenceIds /\ r.target \in EvidenceIds
      OBVIOUS
    <3>1. r.source \in EvidenceIds /\ r.target \in EvidenceIds
      BY <1>0, <1>2, <1>4 DEF TablesOK, Reference
    <3>2. CASE r \in refs
      BY <1>0, <2>5, <3>1, <3>2 DEF ReferencesResolve
    <3>3. CASE r \in b.refs
      BY <1>2, <1>4, <2>5, <3>1, <3>3 DEF ApplyViolatesConstraint
    <3>. QED
      BY <1>4, <3>1, <3>2, <3>3
  <2>9. relations' = relations \cup Projection(b, itemNode')
    BY <1>4 DEF InsertRelations
  <2>10. \A r \in refs' : [source |-> itemNode'[r.source], target |-> itemNode'[r.target],
                           name |-> r.kind] \in relations'
    <3>. SUFFICES ASSUME NEW r \in refs'
                  PROVE  [source |-> itemNode'[r.source], target |-> itemNode'[r.target],
                          name |-> r.kind] \in relations'
      OBVIOUS
    <3>1. CASE r \in b.refs
      BY <2>9, <3>1 DEF Projection
    <3>2. CASE r \in refs
      <4>1. r.source \in EvidenceIds \ b.items /\ r.target \in EvidenceIds \ b.items
        BY <1>0, <2>3, <2>8, <3>2 DEF ReferencesResolve
      <4>. QED
        BY <1>0, <2>4, <2>9, <3>2, <4>1 DEF ProjectionComplete
    <3>. QED
      BY <1>4, <3>1, <3>2
  <2>11. \A r \in relations' : {r.source, r.target} \subseteq nodes'
    <3>. SUFFICES ASSUME NEW r \in relations' PROVE {r.source, r.target} \subseteq nodes'
      OBVIOUS
    <3>1. CASE r \in relations
      BY <1>0, <1>4, <3>1 DEF NothingDangles
    <3>2. ASSUME NEW q \in b.refs,
                 r = [source |-> itemNode'[q.source], target |-> itemNode'[q.target],
                      name |-> q.kind]
          PROVE  {r.source, r.target} \subseteq nodes'
      BY <1>4, <2>6, <2>8, <3>2
    <3>. QED
      BY <2>9, <3>1, <3>2 DEF Projection
  <2>12. \A f \in feedback' : f.relation \in relations'
    BY <1>0, <1>4, <2>9 DEF NothingDangles, feedbackTables
  <2>13. NodesNumbered'
    <3>1. issued' = issued \cup NewNodes(b) /\ nodes' = nodes \cup NewNodes(b)
      BY <1>4
    <3>. QED
      BY <1>0, <2>2, <3>1 DEF NodesNumbered
  <2>. QED
    BY <2>6, <2>7, <2>10, <2>11, <2>12, <2>13 DEF GraphInv, ProjectionComplete, NothingDangles
<1>. QED
  BY <1>3, <1>4 DEF ApplyWrite

(* A rollback removes nodes no other item, relation or event needs. *)
LEMMA RolledBackGraph ==
  ASSUME StoreInv, NEW c \in Connections, RollbackWrite(c)
  PROVE  GraphInv'
<1>. DEFINE k == arg[c]
            left == relations \ TouchingRelations(k)
<1>0. TablesOK /\ ControlOK /\ NodesNumbered /\ ProjectionComplete /\ NothingDangles
      /\ ReferencesResolve /\ NoKey \notin Keys
  BY SentinelsDistinct DEF WellTyped, StoreInv, LedgerInv, GraphInv
<1>1. k \in Keys
  BY <1>0 DEF ControlOK, RollbackWrite
<1>2. CASE Refuse(c, "Database")
  BY <1>2, UnchangedGraph DEF Refuse, StoreInv
<1>3. CASE /\ ~RollbackViolatesConstraint(k)
           /\ refs' = refs \ OwnRefs(k)
           /\ relations' = left
           /\ nodes' = nodes \ BundleNodes(k)
           /\ itemBundle' = [e \in EvidenceIds |->
                               IF itemBundle[e] = k THEN NoKey ELSE itemBundle[e]]
           /\ itemNode' = [e \in EvidenceIds |->
                             IF itemBundle[e] = k THEN 0 ELSE itemNode[e]]
           /\ UNCHANGED <<nodeSeq, issued, feedbackTables>>
  <2>1. \A e \in EvidenceIds :
          Stored(e)' => /\ Stored(e) /\ itemBundle[e] # k
                        /\ itemNode'[e] = itemNode[e]
    BY <1>3 DEF Stored
  <2>2. \A e \in EvidenceIds :
          Stored(e) /\ itemBundle[e] # k => itemNode[e] \notin BundleNodes(k)
    BY <1>0, <1>1 DEF BundleNodes, BundleItems, ProjectionComplete, Stored
  <2>3. \A e \in EvidenceIds : Stored(e)' => itemNode'[e] \in nodes'
    BY <1>0, <1>3, <2>1, <2>2 DEF ProjectionComplete
  <2>4. \A d, e \in EvidenceIds :
          Stored(d)' /\ Stored(e)' /\ itemNode'[d] = itemNode'[e] => d = e
    BY <1>0, <2>1 DEF ProjectionComplete
  <2>5. \A r \in refs' :
          /\ r.source \in EvidenceIds /\ r.target \in EvidenceIds
          /\ Stored(r.source) /\ Stored(r.target)
          /\ itemBundle[r.source] # k /\ itemBundle[r.target] # k
    BY <1>0, <1>3 DEF OwnRefs, RollbackViolatesConstraint, ReferencesResolve, TablesOK, Reference
  <2>6. \A r \in refs' : [source |-> itemNode'[r.source], target |-> itemNode'[r.target],
                          name |-> r.kind] \in relations'
    <3>. SUFFICES ASSUME NEW r \in refs'
                  PROVE  [source |-> itemNode'[r.source], target |-> itemNode'[r.target],
                          name |-> r.kind] \in relations'
      OBVIOUS
    <3>1. [source |-> itemNode[r.source], target |-> itemNode[r.target],
           name |-> r.kind] \in left
      BY <1>0, <1>3, <2>2, <2>5 DEF ProjectionComplete, TouchingRelations
    <3>. QED
      BY <1>3, <2>5, <3>1
  <2>7. \A r \in relations' : {r.source, r.target} \subseteq nodes'
    BY <1>0, <1>3 DEF NothingDangles, TouchingRelations
  <2>8. \A f \in feedback' : f.relation \in relations'
    BY <1>0, <1>3 DEF NothingDangles, RollbackViolatesConstraint, feedbackTables
  <2>9. NodesNumbered'
    BY <1>0, <1>3 DEF NodesNumbered
  <2>. QED
    BY <2>3, <2>4, <2>6, <2>7, <2>8, <2>9 DEF GraphInv, ProjectionComplete, NothingDangles
<1>. QED
  BY <1>2, <1>3 DEF RollbackWrite

(* The ordinary writes only add nodes, relations between stored nodes and   *)
(* events on stored relations.                                              *)
LEMMA WrittenGraph ==
  ASSUME StoreInv, NEW c \in Connections, GraphStep(c)
  PROVE  GraphInv'
<1>0. TablesOK /\ NodesNumbered /\ ProjectionComplete /\ NothingDangles /\ GraphInv
  BY DEF WellTyped, StoreInv, LedgerInv, GraphInv
<1>. USE DEF GraphInv, NodesNumbered, ProjectionComplete, NothingDangles, Stored
<1>1. ASSUME NEW answer, Refuse(c, answer) PROVE GraphInv'
  BY <1>0, <1>1, UnchangedGraph DEF Refuse
<1>2. ASSUME NEW n \in 1 .. MaxNodes, AddNodes(c, n) PROVE GraphInv'
  <2>1. n \in Nat /\ nodeSeq \in Nat /\ nodeSeq' = nodeSeq + n
        /\ nodes' = nodes \cup (nodeSeq + 1 .. nodeSeq + n)
        /\ issued' = issued \cup (nodeSeq + 1 .. nodeSeq + n)
        /\ UNCHANGED <<evidenceTables, relations, feedback>>
    BY <1>0, <1>2, BoundsAreNat DEF AddNodes, TablesOK, feedbackTables
  <2>2. NodesNumbered'
    <3>1. \A m \in issued' : m \in issued \/ m \in nodeSeq + 1 .. nodeSeq + n
      BY <2>1
    <3>2. nodes' \subseteq issued' /\ \A m \in issued : m \in 1 .. nodeSeq
      BY <1>0, <2>1
    <3>3. \A m \in 1 .. nodeSeq : m \in 1 .. nodeSeq'
      BY <2>1
    <3>4. \A m \in nodeSeq + 1 .. nodeSeq + n : m \in 1 .. nodeSeq'
      BY <2>1
    <3>. QED
      BY <3>1, <3>2, <3>3, <3>4
  <2>3. ProjectionComplete' /\ NothingDangles'
    BY <1>0, <2>1 DEF evidenceTables
  <2>. QED
    BY <2>2, <2>3
<1>3. ASSUME NEW batch \in Batches, AddRelations(c, batch) PROVE GraphInv'
  <2>1. CASE /\ \A r \in batch : {r.source, r.target} \subseteq nodes
             /\ InsertRelations(batch)
             /\ UNCHANGED <<evidenceTables, nodes, nodeSeq, issued, feedbackTables>>
    BY <1>0, <2>1 DEF InsertRelations, evidenceTables, feedbackTables
  <2>. QED
    BY <1>1, <1>3, <2>1 DEF AddRelations
<1>4. ASSUME NEW r \in relations \cup OrdinaryRelation, NEW positive \in BOOLEAN,
             RecordFeedback(c, r, positive)
      PROVE  GraphInv'
  <2>1. CASE /\ r \in relations
             /\ feedback' = feedback \cup
                  {[id |-> feedbackSeq + 1, relation |-> r, positive |-> positive]}
             /\ UNCHANGED <<evidenceTables, nodes, nodeSeq, issued, relations>>
    BY <1>0, <2>1 DEF evidenceTables
  <2>. QED
    BY <1>1, <1>4, <2>1 DEF RecordFeedback
<1>5. ASSUME NEW id \in 1 .. MaxFeedback, RemoveFeedback(c, id) PROVE GraphInv'
  <2>1. ASSUME NEW f \in feedback, feedback' = feedback \ {f},
               UNCHANGED <<evidenceTables, nodes, nodeSeq, issued, relations, feedbackSeq>>
        PROVE  GraphInv'
    BY <1>0, <2>1 DEF evidenceTables
  <2>. QED
    BY <1>1, <1>5, <2>1 DEF RemoveFeedback
<1>. QED
  BY <1>2, <1>3, <1>4, <1>5 DEF GraphStep

LEMMA NextStoreInv == StoreInv /\ [Next]_vars => StoreInv'
<1>. SUFFICES ASSUME StoreInv, [Next]_vars PROVE StoreInv'
  OBVIOUS
<1>1. LedgerInv'
  BY NextLedgerInv DEF StoreInv
<1>2. CASE UNCHANGED vars
  <2>1. UNCHANGED tables
    BY <1>2 DEF vars, tables, evidenceTables, graphTables, feedbackTables
  <2>2. GraphInv'
    BY <2>1, UnchangedGraph DEF StoreInv
  <2>. QED
    BY <1>1, <2>2 DEF StoreInv
<1>3. ASSUME NEW c \in Connections, ApplyStep(c) PROVE GraphInv'
  <2>1. ApplyWrite(c) \/ UNCHANGED tables
    BY <1>3 DEF ApplyStep, ApplyLookup, ApplyCheck, ReplayLedger, ReplayItems, Refuse
  <2>. QED
    BY <2>1, AppliedGraph, UnchangedGraph DEF StoreInv
<1>4. ASSUME NEW c \in Connections, RollbackStep(c) PROVE GraphInv'
  <2>1. RollbackWrite(c) \/ UNCHANGED tables
    BY <1>4 DEF RollbackStep, RollbackLookup, RollbackEvidenceCheck, RollbackGraphCheck
  <2>. QED
    BY <2>1, RolledBackGraph, UnchangedGraph DEF StoreInv
<1>5. ASSUME NEW c \in Connections, CallFails(c) PROVE GraphInv'
  BY <1>5, UnchangedGraph DEF StoreInv, CallFails, Refuse
<1>. QED
  BY <1>1, <1>2, <1>3, <1>4, <1>5, WrittenGraph DEF Next, StoreInv

THEOREM StoreInvariant == Spec => []StoreInv
<1>1. Init => StoreInv
  BY InitLedgerInv, InitGraphInv DEF StoreInv
<1>. QED
  BY <1>1, NextStoreInv, PTL DEF Spec

(* Every stored item keeps its own node and every stored reference its      *)
(* relation, for any number of connections.                                 *)
THEOREM ProjectionStaysComplete == Spec => []ProjectionComplete
<1>1. StoreInv => ProjectionComplete
  BY DEF StoreInv, GraphInv
<1>. QED
  BY <1>1, StoreInvariant, PTL

(* No relation outlives its nodes and no feedback event its relation. *)
THEOREM NothingEverDangles == Spec => []NothingDangles
<1>1. StoreInv => NothingDangles
  BY DEF StoreInv, GraphInv
<1>. QED
  BY <1>1, StoreInvariant, PTL

(* A node ID is given out once, also when its node is rolled back: apply    *)
(* and add_nodes number from the sequence, no ID given out so far is above  *)
(* it, and no step lowers it.                                               *)
THEOREM NodeIdsAreFresh == Spec => NodeIdsNeverReused
<1>1. StoreInv /\ [Next]_vars => [(nodes' \ nodes) \cap issued = {}]_vars
  <2>. SUFFICES ASSUME StoreInv, Next PROVE (nodes' \ nodes) \cap issued = {}
    OBVIOUS
  <2>0. TablesOK /\ ControlOK /\ issued \subseteq 1 .. nodeSeq
    BY DEF WellTyped, StoreInv, LedgerInv, GraphInv, NodesNumbered
  <2>1. ASSUME NEW c \in Connections, ApplyStep(c) PROVE (nodes' \ nodes) \cap issued = {}
    <3>1. CASE UNCHANGED tables
      BY <3>1 DEF tables, graphTables
    <3>2. CASE ApplyWrite(c)
      <4>1. arg[c] \in Bundles
        BY <2>0, <3>2 DEF ControlOK, ApplyWrite
      <4>2. Cardinality(arg[c].items) \in Nat /\ nodeSeq \in Nat
        BY <2>0, <4>1, BundleFacts DEF TablesOK
      <4>3. CASE nodes' = nodes \cup NewNodes(arg[c])
        <5>1. PICK m \in Nat : m = nodeSeq
          BY <4>2
        <5>2. NewNodes(arg[c]) \cap (1 .. m) = {} /\ issued \subseteq 1 .. m
          BY <2>0, <4>2, <5>1 DEF NewNodes
        <5>. QED
          BY <4>3, <5>2
      <4>. QED
        BY <3>1, <3>2, <4>3 DEF ApplyWrite, Refuse
    <3>. QED
      BY <2>1, <3>1, <3>2
      DEF ApplyStep, ApplyLookup, ApplyCheck, ReplayLedger, ReplayItems, Refuse
  <2>2. ASSUME NEW c \in Connections, RollbackStep(c) PROVE nodes' \ nodes = {}
    BY <2>2 DEF RollbackStep, RollbackLookup, RollbackEvidenceCheck, RollbackGraphCheck,
                RollbackWrite, Refuse, tables, graphTables
  <2>3. ASSUME NEW c \in Connections, CallFails(c) PROVE nodes' \ nodes = {}
    BY <2>3 DEF CallFails, Refuse, tables, graphTables
  <2>4. ASSUME NEW c \in Connections, GraphStep(c) PROVE (nodes' \ nodes) \cap issued = {}
    <3>1. ASSUME NEW n \in 1 .. MaxNodes, AddNodes(c, n)
          PROVE  (nodes' \ nodes) \cap issued = {}
      BY <2>0, <3>1, BoundsAreNat DEF AddNodes, TablesOK
    <3>2. ASSUME NEW batch \in Batches, AddRelations(c, batch) PROVE nodes' = nodes
      BY <3>2 DEF AddRelations, Refuse, tables, graphTables
    <3>3. ASSUME NEW r \in relations \cup OrdinaryRelation, NEW positive \in BOOLEAN,
                 RecordFeedback(c, r, positive)
          PROVE  nodes' = nodes
      BY <3>3 DEF RecordFeedback, Refuse, tables, graphTables
    <3>4. ASSUME NEW id \in 1 .. MaxFeedback, RemoveFeedback(c, id) PROVE nodes' = nodes
      BY <3>4 DEF RemoveFeedback, Refuse, tables, graphTables
    <3>. QED
      BY <2>4, <3>1, <3>2, <3>3, <3>4 DEF GraphStep
  <2>. QED
    BY <2>1, <2>2, <2>3, <2>4 DEF Next
<1>. QED
  BY <1>1, StoreInvariant, PTL DEF Spec, NodeIdsNeverReused

-----------------------------------------------------------------------------
(* The counters of positive feedback.                                      *)

PositiveEvents(r) == {f \in feedback : f.relation = r /\ f.positive}

(* Events are numbered from a sequence of their own, so a new event is none *)
(* of those that are stored.                                                *)
EventsNumbered == \A f \in feedback : f.id <= feedbackSeq

FeedbackInv == IsFiniteSet(feedback) /\ EventsNumbered /\ FeedbackCountExact

CountedInv == StoreInv /\ FeedbackInv

LEMMA PositiveEventsFinite ==
  ASSUME IsFiniteSet(feedback), NEW r
  PROVE  IsFiniteSet(PositiveEvents(r)) /\ Cardinality(PositiveEvents(r)) \in Nat
<1>1. PositiveEvents(r) \in SUBSET feedback
  BY DEF PositiveEvents
<1>. QED
  BY <1>1, FS_Subset, FS_CardinalityType

LEMMA UnchangedFeedback ==
  ASSUME FeedbackInv, UNCHANGED tables PROVE FeedbackInv'
BY DEF FeedbackInv, EventsNumbered, FeedbackCountExact, tables, graphTables, feedbackTables

(* A relation that is inserted has no events, because events never dangle.  *)
LEMMA InsertedCounts ==
  ASSUME CountedInv, NEW new, InsertRelations(new), UNCHANGED feedbackTables
  PROVE  FeedbackInv'
<1>1. FeedbackInv /\ NothingDangles
  BY DEF CountedInv, StoreInv, GraphInv
<1>2. ASSUME NEW r \in relations' PROVE reinforcement'[r] = Cardinality(PositiveEvents(r))
  <2>1. CASE r \in relations
    BY <1>1, <2>1 DEF FeedbackInv, FeedbackCountExact, PositiveEvents, InsertRelations
  <2>2. CASE r \notin relations
    <3>1. PositiveEvents(r) = {}
      BY <1>1, <2>2 DEF NothingDangles, PositiveEvents
    <3>2. reinforcement'[r] = 0
      BY <2>2 DEF InsertRelations
    <3>. QED
      BY <3>1, <3>2, FS_EmptySet
  <2>. QED
    BY <2>1, <2>2
<1>. QED
  BY <1>1, <1>2
  DEF FeedbackInv, EventsNumbered, FeedbackCountExact, PositiveEvents, feedbackTables

LEMMA RecordedCounts ==
  ASSUME CountedInv, NEW r \in relations, NEW positive \in BOOLEAN,
         feedback' = feedback \cup
           {[id |-> feedbackSeq + 1, relation |-> r, positive |-> positive]},
         feedbackSeq' = feedbackSeq + 1,
         reinforcement' = Reinforced(r, positive),
         UNCHANGED relations
  PROVE  FeedbackInv'
<1>. DEFINE event == [id |-> feedbackSeq + 1, relation |-> r, positive |-> positive]
<1>0. TablesOK /\ FeedbackInv
  BY DEF WellTyped, CountedInv, StoreInv, LedgerInv
<1>1. feedbackSeq \in Nat /\ reinforcement \in [relations -> Nat] /\ feedback \subseteq FeedbackEvent
  BY <1>0 DEF TablesOK
<1>2. \A f \in feedback : f.id \in Nat
  BY <1>1 DEF FeedbackEvent
<1>3. event \notin feedback
  BY <1>0, <1>1 DEF FeedbackInv, EventsNumbered
<1>4. EventsNumbered'
  BY <1>0, <1>1, <1>2 DEF FeedbackInv, EventsNumbered
<1>5. IsFiniteSet(feedback')
  BY <1>0, FS_AddElement DEF FeedbackInv
<1>6. ASSUME NEW q \in relations'
      PROVE  reinforcement'[q] = Cardinality({f \in feedback' : f.relation = q /\ f.positive})
  <2>0. q \in relations /\ reinforcement[q] = Cardinality(PositiveEvents(q))
    BY <1>0 DEF FeedbackInv, FeedbackCountExact, PositiveEvents
  <2>1. CASE q = r /\ positive
    <3>1. {f \in feedback' : f.relation = q /\ f.positive} = PositiveEvents(q) \cup {event}
      BY <2>1 DEF PositiveEvents
    <3>2. event \notin PositiveEvents(q)
      BY <1>3 DEF PositiveEvents
    <3>3. Cardinality(PositiveEvents(q) \cup {event}) = Cardinality(PositiveEvents(q)) + 1
      BY <1>0, <3>2, PositiveEventsFinite, FS_AddElement DEF FeedbackInv
    <3>4. reinforcement'[q] = reinforcement[q] + 1
      BY <1>1, <2>0, <2>1 DEF Reinforced
    <3>. QED
      BY <2>0, <3>1, <3>3, <3>4
  <2>2. CASE ~(q = r /\ positive)
    <3>1. {f \in feedback' : f.relation = q /\ f.positive} = PositiveEvents(q)
      BY <2>2 DEF PositiveEvents
    <3>2. reinforcement'[q] = reinforcement[q]
      BY <1>1, <2>0, <2>2 DEF Reinforced
    <3>. QED
      BY <2>0, <3>1, <3>2
  <2>. QED
    BY <2>1, <2>2
<1>. QED
  BY <1>4, <1>5, <1>6 DEF FeedbackInv, FeedbackCountExact

(* The event that is removed was counted, so the counter is above zero and  *)
(* the guard of the decrement never holds it back.                          *)
LEMMA RemovedCounts ==
  ASSUME CountedInv, NEW event \in feedback, feedback' = feedback \ {event},
         reinforcement' = Compensated(event), UNCHANGED <<relations, feedbackSeq>>
  PROVE  FeedbackInv'
<1>0. TablesOK /\ FeedbackInv /\ event.relation \in relations
  BY DEF WellTyped, CountedInv, StoreInv, LedgerInv, GraphInv, NothingDangles
<1>1. reinforcement \in [relations -> Nat] /\ event.positive \in BOOLEAN
  BY <1>0 DEF TablesOK, FeedbackEvent
<1>2. EventsNumbered' /\ IsFiniteSet(feedback')
  BY <1>0, FS_RemoveElement DEF FeedbackInv, EventsNumbered
<1>3. ASSUME NEW q \in relations'
      PROVE  reinforcement'[q] = Cardinality({f \in feedback' : f.relation = q /\ f.positive})
  <2>0. q \in relations /\ reinforcement[q] = Cardinality(PositiveEvents(q))
    BY <1>0 DEF FeedbackInv, FeedbackCountExact, PositiveEvents
  <2>1. CASE q = event.relation /\ event.positive
    <3>1. {f \in feedback' : f.relation = q /\ f.positive} = PositiveEvents(q) \ {event}
      BY <2>1 DEF PositiveEvents
    <3>2. event \in PositiveEvents(q)
      BY <2>1 DEF PositiveEvents
    <3>3. Cardinality(PositiveEvents(q) \ {event}) = Cardinality(PositiveEvents(q)) - 1
      BY <1>0, <3>2, PositiveEventsFinite, FS_RemoveElement DEF FeedbackInv
    <3>4. Cardinality(PositiveEvents(q)) # 0
      BY <1>0, <3>2, PositiveEventsFinite, FS_EmptySet DEF FeedbackInv
    <3>5. reinforcement[q] > 0
      BY <1>1, <2>0, <3>4
    <3>6. reinforcement'[q] = reinforcement[q] - 1
      BY <1>1, <2>0, <2>1, <3>5 DEF Compensated
    <3>. QED
      BY <2>0, <3>1, <3>3, <3>6
  <2>2. CASE ~(q = event.relation /\ event.positive)
    <3>1. {f \in feedback' : f.relation = q /\ f.positive} = PositiveEvents(q)
      BY <2>2 DEF PositiveEvents
    <3>2. reinforcement'[q] = reinforcement[q]
      BY <1>1, <2>0, <2>2 DEF Compensated
    <3>. QED
      BY <2>0, <3>1, <3>2
  <2>. QED
    BY <2>1, <2>2
<1>. QED
  BY <1>2, <1>3 DEF FeedbackInv, FeedbackCountExact

LEMMA NextFeedbackInv == CountedInv /\ [Next]_vars => FeedbackInv'
<1>. SUFFICES ASSUME CountedInv, [Next]_vars PROVE FeedbackInv'
  OBVIOUS
<1>0. FeedbackInv
  BY DEF CountedInv
<1>1. CASE UNCHANGED vars
  BY <1>0, <1>1, UnchangedFeedback
  DEF vars, tables, evidenceTables, graphTables, feedbackTables
<1>2. ASSUME NEW answer, NEW c, Refuse(c, answer) PROVE FeedbackInv'
  BY <1>0, <1>2, UnchangedFeedback DEF Refuse
<1>3. ASSUME NEW c \in Connections, ApplyStep(c) PROVE FeedbackInv'
  <2>1. ApplyWrite(c) \/ UNCHANGED tables
    BY <1>3 DEF ApplyStep, ApplyLookup, ApplyCheck, ReplayLedger, ReplayItems, Refuse
  <2>2. CASE ApplyWrite(c)
    BY <1>2, <2>2, InsertedCounts DEF ApplyWrite
  <2>. QED
    BY <1>0, <2>1, <2>2, UnchangedFeedback
<1>4. ASSUME NEW c \in Connections, RollbackStep(c) PROVE FeedbackInv'
  <2>1. RollbackWrite(c) \/ UNCHANGED tables
    BY <1>4 DEF RollbackStep, RollbackLookup, RollbackEvidenceCheck, RollbackGraphCheck
  <2>2. ASSUME NEW left \in SUBSET relations, relations' = left,
               reinforcement' = [r \in left |-> reinforcement[r]], UNCHANGED feedbackTables
        PROVE  FeedbackInv'
    BY <1>0, <2>2 DEF FeedbackInv, EventsNumbered, FeedbackCountExact, feedbackTables
  <2>3. CASE RollbackWrite(c)
    BY <1>2, <2>2, <2>3 DEF RollbackWrite
  <2>. QED
    BY <1>0, <2>1, <2>3, UnchangedFeedback
<1>5. ASSUME NEW c \in Connections, GraphStep(c) PROVE FeedbackInv'
  <2>1. ASSUME NEW n \in 1 .. MaxNodes, AddNodes(c, n) PROVE FeedbackInv'
    BY <1>0, <2>1
    DEF AddNodes, FeedbackInv, EventsNumbered, FeedbackCountExact, feedbackTables
  <2>2. ASSUME NEW batch \in Batches, AddRelations(c, batch) PROVE FeedbackInv'
    BY <1>2, <2>2, InsertedCounts DEF AddRelations
  <2>3. ASSUME NEW r \in relations \cup OrdinaryRelation, NEW positive \in BOOLEAN,
               RecordFeedback(c, r, positive)
        PROVE  FeedbackInv'
    BY <1>2, <2>3, RecordedCounts DEF RecordFeedback
  <2>4. ASSUME NEW id \in 1 .. MaxFeedback, RemoveFeedback(c, id) PROVE FeedbackInv'
    BY <1>2, <2>4, RemovedCounts DEF RemoveFeedback
  <2>. QED
    BY <1>5, <2>1, <2>2, <2>3, <2>4 DEF GraphStep
<1>6. ASSUME NEW c \in Connections, CallFails(c) PROVE FeedbackInv'
  BY <1>2, <1>6 DEF CallFails
<1>. QED
  BY <1>1, <1>3, <1>4, <1>5, <1>6 DEF Next

(* The counter of every relation is the number of positive events recorded  *)
(* for it, for any number of connections and any order of recording,        *)
(* removal, apply and rollback.                                             *)
THEOREM FeedbackAlwaysExact == Spec => []FeedbackCountExact
<1>1. Init => CountedInv
  <2>1. Init => FeedbackInv
    BY FS_EmptySet DEF Init, FeedbackInv, EventsNumbered, FeedbackCountExact
  <2>. QED
    BY <2>1, InitLedgerInv, InitGraphInv DEF CountedInv, StoreInv
<1>2. CountedInv /\ [Next]_vars => CountedInv'
  BY NextStoreInv, NextFeedbackInv DEF CountedInv
<1>3. CountedInv => FeedbackCountExact
  BY DEF CountedInv, FeedbackInv
<1>. QED
  BY <1>1, <1>2, <1>3, PTL DEF Spec

-----------------------------------------------------------------------------
(* One writer.  Under the documented operating model, one local writer,    *)
(* what a call has read before its transaction is still so when the        *)
(* transaction runs.  With two connections TLC refutes each of the         *)
(* theorems of this section.                                               *)

(* A checked reference: what CheckReference let pass. *)
Resolved(b, r) == ~ReferenceNotFound(b, r) /\ ~GroupMismatch(b, r)

(* What the call of a connection has found so far still holds: the          *)
(* references it need not look up any more are resolved, a payload it       *)
(* replays is stored and active, and no relation leaves the bundle it is    *)
(* about to delete.                                                         *)
ReadsHold(c) ==
  /\ phase[c] \in {"apply_check", "apply_write"} =>
       \A r \in arg[c].refs \ pending[c] : Resolved(arg[c], r)
  /\ phase[c] \in {"replay_ledger", "replay_items"} => ledger[arg[c].key] = arg[c]
  /\ phase[c] = "replay_items" => arg[c].key \notin rolledBack
  /\ phase[c] = "rollback_write" => ~ExternalGraph(arg[c])

OneWriterInv ==
  /\ LedgerInv
  /\ ConflictGroupsAgree
  /\ \A c \in Connections : ReadsHold(c)

LEMMA ReturnReads ==
  ASSUME ControlOK, NEW c \in Connections, NEW answer, Return(c, answer)
  PROVE  ReadsHold(c)'
BY DEF ControlOK, Return, ReadsHold

LEMMA EnterFacts ==
  ASSUME ControlOK, NEW c \in Connections, NEW p, NEW a, Enter(c, p, a)
  PROVE  phase'[c] = p /\ arg'[c] = a /\ pending'[c] = Reads(p, a)
BY DEF ControlOK, Enter

(* A read of the check settles what it read and nothing else: a read of an  *)
(* item settles no reference.                                               *)
LEMMA PassedReads ==
  ASSUME WellTyped, UNCHANGED tables, NEW c \in Connections, ReadsHold(c),
         phase[c] = "apply_check", NEW read, Passed(c, read, "apply_write"),
         read \in arg[c].refs => Resolved(arg[c], read)
  PROVE  ReadsHold(c)'
<1>0. ControlOK
  BY DEF WellTyped
<1>1. arg'[c] = arg[c] /\ phase'[c] \in {"apply_check", "apply_write"}
  <2>1. CASE Enter(c, "apply_write", arg[c])
    BY <1>0, <2>1, EnterFacts
  <2>2. CASE UNCHANGED <<phase, arg>>
    BY <2>2
  <2>. QED
    BY <2>1, <2>2 DEF Passed
<1>2. pending[c] \ pending'[c] \subseteq {read}
  <2>1. CASE pending[c] \subseteq {read}
    BY <2>1
  <2>2. CASE pending' = [pending EXCEPT ![c] = @ \ {read}]
    <3>1. pending'[c] = pending[c] \ {read}
      BY <1>0, <2>2 DEF ControlOK
    <3>. QED
      BY <3>1
  <2>. QED
    BY <2>1, <2>2 DEF Passed
<1>3. \A r \in arg[c].refs \ pending[c] : Resolved(arg[c], r)
  BY DEF ReadsHold
<1>4. \A r \in arg[c].refs \ pending'[c] : Resolved(arg[c], r)
  BY <1>2, <1>3
<1>5. (\A r \in arg[c].refs \ pending[c] : Resolved(arg[c], r))'
  BY <1>1, <1>4
  DEF tables, evidenceTables, Resolved, ReferenceNotFound, GroupMismatch, TargetGroup,
      ConflictGroup, ActiveEvidence, Stored
<1>. QED
  BY <1>1, <1>5 DEF ReadsHold

LEMMA ApplyReads ==
  ASSUME WellTyped, NEW c \in Connections, ReadsHold(c), ApplyStep(c)
  PROVE  ReadsHold(c)'
<1>0. TablesOK /\ ControlOK
  BY DEF WellTyped
<1>1. ASSUME NEW b \in Bundles, ApplyLookup(c, b) PROVE ReadsHold(c)'
  <2>1. UNCHANGED <<ledger, rolledBack>>
    BY <1>1 DEF ApplyLookup, tables, evidenceTables
  <2>2. CASE Enter(c, "apply_check", b)
    <3>0. Reads("apply_check", b) = b.items \cup b.refs
      BY Zenon DEF Reads
    <3>1. phase'[c] = "apply_check" /\ arg'[c] = b /\ pending'[c] = b.items \cup b.refs
      BY <1>0, <2>2, <3>0, EnterFacts
    <3>. QED
      BY <3>1 DEF ReadsHold
  <2>3. CASE ledger[b.key] = b /\ Enter(c, "replay_ledger", b)
    <3>1. phase'[c] = "replay_ledger" /\ arg'[c] = b
      BY <1>0, <2>3, EnterFacts
    <3>. QED
      BY <2>1, <2>3, <3>1 DEF ReadsHold
  <2>. QED
    BY <1>0, <1>1, <2>2, <2>3, ReturnReads DEF ApplyLookup
<1>2. CASE ApplyCheck(c)
  <2>0. phase[c] = "apply_check" /\ arg[c] \in Bundles /\ UNCHANGED tables
    BY <1>0, <1>2 DEF ApplyCheck, ControlOK
  <2>1. arg[c].items \subseteq EvidenceIds /\ arg[c].refs \subseteq Reference
    BY <2>0, BundleFacts
  <2>2. ASSUME NEW e \in pending[c] \cap arg[c].items, CheckItem(c, e) PROVE ReadsHold(c)'
    <3>1. e \notin arg[c].refs
      BY <2>1, IdsAreNotReferences
    <3>. QED
      BY <1>0, <2>0, <2>2, <3>1, PassedReads, ReturnReads DEF CheckItem
  <2>3. ASSUME NEW r \in pending[c] \cap arg[c].refs, CheckReference(c, r)
        PROVE  ReadsHold(c)'
    BY <1>0, <2>0, <2>3, PassedReads, ReturnReads DEF CheckReference, Resolved
  <2>. QED
    BY <1>2, <2>2, <2>3 DEF ApplyCheck
<1>3. CASE ApplyWrite(c)
  BY <1>0, <1>3, ReturnReads DEF ApplyWrite, Refuse
<1>4. CASE ReplayLedger(c)
  <2>1. phase[c] = "replay_ledger" /\ UNCHANGED <<ledger, rolledBack>>
    BY <1>4 DEF ReplayLedger, tables, evidenceTables
  <2>2. CASE arg[c].key \notin rolledBack /\ Enter(c, "replay_items", arg[c])
    <3>1. phase'[c] = "replay_items" /\ arg'[c] = arg[c]
      BY <1>0, <2>2, EnterFacts
    <3>. QED
      BY <2>1, <2>2, <3>1 DEF ReadsHold
  <2>. QED
    BY <1>0, <1>4, <2>2, ReturnReads DEF ReplayLedger
<1>5. CASE ReplayItems(c)
  BY <1>0, <1>5, ReturnReads DEF ReplayItems, Refuse
<1>. QED
  BY <1>1, <1>2, <1>3, <1>4, <1>5 DEF ApplyStep

LEMMA RollbackReads ==
  ASSUME WellTyped, NEW c \in Connections, RollbackStep(c)
  PROVE  ReadsHold(c)'
<1>0. ControlOK
  BY DEF WellTyped
<1>1. ASSUME NEW k, NEW p \in {"rollback_evidence", "rollback_graph"}, Enter(c, p, k)
      PROVE  ReadsHold(c)'
  <2>1. phase'[c] = p
    BY <1>0, <1>1, EnterFacts
  <2>. QED
    BY <2>1 DEF ReadsHold
<1>2. ASSUME NEW k \in Keys, RollbackLookup(c, k) PROVE ReadsHold(c)'
  BY <1>0, <1>1, <1>2, ReturnReads DEF RollbackLookup
<1>3. CASE RollbackEvidenceCheck(c)
  <2>1. CASE UNCHANGED <<phase, arg>>
    BY <1>3, <2>1 DEF RollbackEvidenceCheck, ReadsHold
  <2>. QED
    BY <1>0, <1>1, <1>3, <2>1, ReturnReads DEF RollbackEvidenceCheck, Passed
<1>4. CASE RollbackGraphCheck(c)
  <2>1. CASE ~ExternalGraph(arg[c]) /\ Enter(c, "rollback_write", arg[c])
    <3>1. phase'[c] = "rollback_write" /\ arg'[c] = arg[c]
      BY <1>0, <2>1, EnterFacts
    <3>2. ExternalGraph(arg[c])' <=> ExternalGraph(arg[c])
      BY <1>4, <3>1 DEF RollbackGraphCheck, ExternalGraph, BundleNodes, BundleItems, tables,
                  evidenceTables, graphTables
    <3>. QED
      BY <2>1, <3>1, <3>2 DEF ReadsHold
  <2>. QED
    BY <1>0, <1>4, <2>1, ReturnReads DEF RollbackGraphCheck
<1>5. CASE RollbackWrite(c)
  BY <1>0, <1>5, ReturnReads DEF RollbackWrite, Refuse
<1>. QED
  BY <1>2, <1>3, <1>4, <1>5 DEF RollbackStep

(* No step of a connection makes its own reads stale. *)
LEMMA OwnStepKeepsReads ==
  ASSUME WellTyped, NEW c \in Connections, ReadsHold(c),
         ApplyStep(c) \/ RollbackStep(c) \/ GraphStep(c) \/ CallFails(c)
  PROVE  ReadsHold(c)'
<1>0. ControlOK
  BY DEF WellTyped
<1>1. CASE GraphStep(c) \/ CallFails(c)
  BY <1>0, <1>1, ReturnReads
  DEF GraphStep, AddNodes, AddRelations, RecordFeedback, RemoveFeedback, CallFails, Refuse
<1>. QED
  BY <1>1, ApplyReads, RollbackReads

-----------------------------------------------------------------------------
(* Conflict groups.                                                        *)

(* A validated item that conflicts with another names its group. *)
LEMMA ConflictsNameGroup ==
  ASSUME NEW b \in Bundles, NEW r \in b.refs, r.kind = ConflictsWith
  PROVE  b.group[r.source] # NoGroup
<1>1. WellFormed(b) /\ r.source \in b.items
  BY BundlesWellFormed, BundleFacts
<1>2. r.target \in {q.target : q \in {q \in b.refs : q.source = r.source /\ q.kind = ConflictsWith}}
  OBVIOUS
<1>3. ItemWellFormed(b, r.source)
  BY <1>1 DEF WellFormed
<1>. QED
  BY <1>2, <1>3, Zenon DEF ItemWellFormed

(* The group of an item no bundle being applied holds stays what it was. *)
LEMMA AppliedGroups ==
  ASSUME LedgerInv, ConflictGroupsAgree, NEW b \in Bundles, ~ApplyViolatesConstraint(b),
         AppliedRows(b), \A r \in b.refs : Resolved(b, r)
  PROVE  ConflictGroupsAgree'
<1>0. TablesOK /\ BundlesAllOrNothing /\ ReferencesResolve /\ NoKey \notin Keys
  BY SentinelsDistinct DEF WellTyped, LedgerInv
<1>1. b.key \in Keys /\ b.items \subseteq EvidenceIds /\ b.refs \subseteq Reference
      /\ \A r \in b.refs : r.source \in b.items
  BY BundleFacts
<1>2. ledger[b.key] = NoBundle /\ \A e \in b.items : ~Stored(e)
  BY DEF ApplyViolatesConstraint
<1>3. \A e \in b.items : ConflictGroup(e)' = b.group[e]
  BY <1>0, <1>1 DEF AppliedRows, ConflictGroup, TablesOK
<1>4. ASSUME NEW e \in EvidenceIds, Stored(e)
      PROVE  e \notin b.items /\ ConflictGroup(e)' = ConflictGroup(e)
  <2>1. e \notin b.items
    BY <1>2, <1>4
  <2>2. itemBundle[e] \in Keys /\ itemBundle'[e] = itemBundle[e]
    BY <1>0, <1>4, <2>1 DEF AppliedRows, TablesOK, Stored
  <2>3. itemBundle[e] # b.key
    BY <1>0, <1>1, <1>2, <2>2 DEF BundlesAllOrNothing, Active
  <2>. QED
    BY <1>0, <1>1, <2>1, <2>2, <2>3 DEF AppliedRows, ConflictGroup, TablesOK
<1>5. ASSUME NEW r \in refs', r.kind = ConflictsWith
      PROVE  ConflictGroup(r.source)' # NoGroup
             /\ ConflictGroup(r.source)' = ConflictGroup(r.target)'
  <2>1. r.source \in EvidenceIds /\ r.target \in EvidenceIds
    BY <1>0, <1>1, <1>5 DEF TablesOK, AppliedRows, Reference
  <2>2. CASE r \in refs
    BY <1>0, <1>4, <1>5, <2>1, <2>2 DEF ConflictGroupsAgree, ReferencesResolve
  <2>3. CASE r \in b.refs
    <3>1. ConflictGroup(r.source)' = b.group[r.source] /\ b.group[r.source] # NoGroup
      BY <1>1, <1>3, <1>5, <2>3, ConflictsNameGroup
    <3>2. TargetGroup(b, r.target) = b.group[r.source]
          /\ (r.target \in b.items \/ Stored(r.target))
      BY <1>5, <2>3 DEF Resolved, ReferenceNotFound, GroupMismatch, ActiveEvidence
    <3>. QED
      BY <1>3, <1>4, <2>1, <3>1, <3>2 DEF TargetGroup
  <2>. QED
    BY <1>5, <2>2, <2>3 DEF AppliedRows
<1>. QED
  BY <1>5 DEF ConflictGroupsAgree

LEMMA RolledBackGroups ==
  ASSUME LedgerInv, ConflictGroupsAgree, NEW k \in Keys, ~RollbackViolatesConstraint(k),
         RolledBackRows(k)
  PROVE  ConflictGroupsAgree'
<1>0. TablesOK
  BY DEF WellTyped, LedgerInv
<1>1. ASSUME NEW r \in refs'
      PROVE  /\ r \in refs
             /\ ConflictGroup(r.source)' = ConflictGroup(r.source)
             /\ ConflictGroup(r.target)' = ConflictGroup(r.target)
  <2>1. r \in refs /\ r \notin OwnRefs(k) /\ r.source \in EvidenceIds /\ r.target \in EvidenceIds
    BY <1>0 DEF RolledBackRows, TablesOK, Reference
  <2>2. itemBundle[r.source] # k /\ itemBundle[r.target] # k
    BY <2>1 DEF OwnRefs, RollbackViolatesConstraint
  <2>. QED
    BY <2>1, <2>2 DEF RolledBackRows, ConflictGroup
<1>. QED
  BY <1>1 DEF ConflictGroupsAgree

LEMMA NextOneWriterInv ==
  ASSUME \A c, d \in Connections : c = d, OneWriterInv, [Next]_vars
  PROVE  OneWriterInv'
<1>0. LedgerInv /\ LedgerInv' /\ WellTyped /\ ConflictGroupsAgree
  BY NextLedgerInv DEF OneWriterInv, LedgerInv
<1>1. ASSUME UNCHANGED evidenceTables PROVE ConflictGroupsAgree'
  BY <1>0, <1>1 DEF ConflictGroupsAgree, ConflictGroup, evidenceTables
<1>2. CASE UNCHANGED vars
  <2>1. UNCHANGED evidenceTables
    BY <1>2 DEF vars, evidenceTables
  <2>2. (\A c \in Connections : ReadsHold(c))'
    BY <1>2
    DEF OneWriterInv, ReadsHold, Resolved, ReferenceNotFound, GroupMismatch, TargetGroup,
        ConflictGroup, ActiveEvidence, Stored, ExternalGraph, BundleNodes, BundleItems, vars
  <2>. QED
    BY <1>0, <1>1, <2>1, <2>2 DEF OneWriterInv
<1>3. ASSUME NEW c \in Connections,
             ApplyStep(c) \/ RollbackStep(c) \/ GraphStep(c) \/ CallFails(c)
      PROVE  OneWriterInv'
  <2>1. ReadsHold(c)'
    BY <1>0, <1>3, OwnStepKeepsReads DEF OneWriterInv
  <2>2. (\A d \in Connections : ReadsHold(d))'
    BY <2>1
  <2>3. ASSUME NEW b \in Bundles, phase[c] = "apply_write", arg[c] = b,
               ~ApplyViolatesConstraint(b), AppliedRows(b)
        PROVE  ConflictGroupsAgree'
    <3>1. pending[c] = {}
      <4>1. pending[c] \subseteq Reads("apply_write", b)
        BY <1>0, <2>3 DEF WellTyped, ControlOK
      <4>2. Reads("apply_write", b) = {}
        BY Zenon DEF Reads
      <4>. QED
        BY <4>1, <4>2
    <3>2. \A r \in b.refs : Resolved(b, r)
      BY <2>3, <3>1 DEF OneWriterInv, ReadsHold
    <3>. QED
      BY <1>0, <2>3, <3>2, AppliedGroups
  <2>4. ConflictGroupsAgree'
    BY <1>0, <1>1, <1>3, <2>3, EvidenceSteps, RolledBackGroups
  <2>. QED
    BY <1>0, <2>2, <2>4 DEF OneWriterInv
<1>. QED
  BY <1>2, <1>3 DEF Next

THEOREM OneWriterInvariant ==
  ASSUME \A c, d \in Connections : c = d
  PROVE  Spec => []OneWriterInv
<1>1. Init => OneWriterInv
  BY InitLedgerInv DEF Init, OneWriterInv, ConflictGroupsAgree, ReadsHold
<1>2. OneWriterInv /\ [Next]_vars => OneWriterInv'
  BY NextOneWriterInv
<1>. QED
  BY <1>1, <1>2, PTL DEF Spec

(* With one writer, evidence that is stored as conflicting is in one        *)
(* conflict group, although the group of the target was read before the     *)
(* transaction and an ID may be stored again with another group.            *)
THEOREM ConflictGroupsAlwaysAgree ==
  ASSUME \A c, d \in Connections : c = d
  PROVE  Spec => []ConflictGroupsAgree
<1>1. OneWriterInv => ConflictGroupsAgree
  BY DEF OneWriterInv
<1>. QED
  BY <1>1, OneWriterInvariant, PTL

(* With one writer, an identical replay reports every item of its payload:  *)
(* nothing rolls the bundle back between its reads.                         *)
THEOREM ReplaysAlwaysReturnMapping ==
  ASSUME \A c, d \in Connections : c = d
  PROVE  Spec => ReplaysReturnMapping
<1>. DEFINE Mapped == reply' = "Replayed" =>
              \E c \in Connections :
                /\ phase[c] = "replay_items"
                /\ phase'[c] = "idle"
                /\ BundleItems(arg[c].key) = arg[c].items
<1>1. OneWriterInv /\ [Next]_vars => [Mapped]_vars
  <2>. SUFFICES ASSUME OneWriterInv, Next, reply' = "Replayed" PROVE Mapped
    OBVIOUS
  <2>0. WellTyped /\ ControlOK /\ BundlesAllOrNothing
    BY DEF WellTyped, OneWriterInv, LedgerInv
  <2>1. PICK c \in Connections : ApplyStep(c) \/ RollbackStep(c) \/ GraphStep(c) \/ CallFails(c)
    BY DEF Next
  <2>2. ReplayItems(c)
    BY <2>1
    DEF ApplyStep, RollbackStep, GraphStep, CallFails, Refuse, Return, Enter, Passed,
        ApplyLookup, ApplyCheck, CheckItem, CheckReference, ApplyWrite, ReplayLedger,
        RollbackLookup, RollbackEvidenceCheck, RollbackGraphCheck, RollbackWrite,
        AddNodes, AddRelations, RecordFeedback, RemoveFeedback
  <2>3. phase[c] = "replay_items" /\ phase'[c] = "idle" /\ arg[c] \in Bundles
    BY <2>0, <2>2 DEF ReplayItems, Refuse, Return, ControlOK
  <2>4. ledger[arg[c].key] = arg[c] /\ arg[c].key \notin rolledBack
    BY <2>3 DEF OneWriterInv, ReadsHold
  <2>5. Active(arg[c].key) /\ arg[c].key \in Keys /\ arg[c].items \subseteq EvidenceIds
    BY <2>3, <2>4, BundleFacts, SentinelsDistinct DEF Active
  <2>6. BundleItems(arg[c].key) = arg[c].items
    BY <2>0, <2>4, <2>5 DEF BundlesAllOrNothing, BundleItems
  <2>. QED
    BY <2>3, <2>6
<1>. QED
  BY <1>1, OneWriterInvariant, PTL DEF Spec, ReplaysReturnMapping

-----------------------------------------------------------------------------
(* What a rollback removes.                                                *)

(* Only a rollback makes the graph smaller. *)
LEMMA OthersRemoveNothing ==
  ASSUME NEW c \in Connections, ~RollbackWrite(c),
         ApplyStep(c) \/ RollbackStep(c) \/ GraphStep(c) \/ CallFails(c)
  PROVE  nodes \subseteq nodes' /\ relations \subseteq relations'
<1>1. ASSUME NEW answer, Refuse(c, answer)
      PROVE  nodes \subseteq nodes' /\ relations \subseteq relations'
  BY <1>1 DEF Refuse, tables, graphTables
<1>2. CASE ApplyStep(c)
  BY <1>1, <1>2
  DEF ApplyStep, ApplyLookup, ApplyCheck, ApplyWrite, InsertRelations, ReplayLedger,
      ReplayItems, tables, graphTables
<1>3. CASE RollbackStep(c)
  BY <1>3
  DEF RollbackStep, RollbackLookup, RollbackEvidenceCheck, RollbackGraphCheck, tables,
      graphTables
<1>4. CASE GraphStep(c)
  BY <1>1, <1>4
  DEF GraphStep, AddNodes, AddRelations, InsertRelations, RecordFeedback, RemoveFeedback
<1>5. CASE CallFails(c)
  BY <1>1, <1>5 DEF CallFails
<1>. QED
  BY <1>2, <1>3, <1>4, <1>5

(* With one writer, a rollback reaches nothing outside its bundle: it       *)
(* removes nodes of the bundle and relations between two of them, so that   *)
(* no relation to a node elsewhere is lost, although the check for one is a *)
(* read of its own.  Which relations between two nodes of the bundle go is  *)
(* not restricted: those that callers have added go too.                    *)
THEOREM RollbackAlwaysStaysInside ==
  ASSUME \A c, d \in Connections : c = d
  PROVE  Spec => RollbackStaysInside
<1>. DEFINE own == RolledBackNodes
            Removed == /\ nodes \ nodes' \subseteq own
                       /\ \A r \in relations \ relations' : {r.source, r.target} \subseteq own
<1>1. OneWriterInv /\ [Next]_vars => [Removed]_vars
  <2>. SUFFICES ASSUME OneWriterInv, Next PROVE Removed
    OBVIOUS
  <2>1. PICK c \in Connections : ApplyStep(c) \/ RollbackStep(c) \/ GraphStep(c) \/ CallFails(c)
    BY DEF Next
  <2>2. CASE nodes \subseteq nodes' /\ relations \subseteq relations'
    BY <2>2
  <2>3. CASE RollbackWrite(c)
    <3>. DEFINE k == arg[c]
    <3>0. ControlOK /\ BundlesAllOrNothing
      BY DEF WellTyped, OneWriterInv, LedgerInv
    <3>1. k \in Keys /\ phase[c] = "rollback_write"
      BY <2>3, <3>0 DEF RollbackWrite, ControlOK
    <3>2. ~ExternalGraph(k)
      BY <3>1 DEF OneWriterInv, ReadsHold
    <3>3. \A r \in TouchingRelations(k) : {r.source, r.target} \subseteq BundleNodes(k)
      BY <3>2 DEF TouchingRelations, ExternalGraph
    <3>4. CASE Refuse(c, "Database")
      BY <2>2, <3>4 DEF Refuse, tables, graphTables
    <3>5. CASE /\ relations' = relations \ TouchingRelations(k)
               /\ nodes' = nodes \ BundleNodes(k)
               /\ rolledBack' = rolledBack \cup {k}
      <4>1. BundleNodes(k) \subseteq own
        <5>1. CASE k \in rolledBack
          BY <3>0, <3>1, <5>1 DEF BundlesAllOrNothing, Active, BundleNodes, BundleItems
        <5>2. CASE k \notin rolledBack
          BY <3>5, <5>2 DEF RolledBackNodes
        <5>. QED
          BY <5>1, <5>2
      <4>. QED
        BY <3>3, <3>5, <4>1
    <3>. QED
      BY <2>3, <3>4, <3>5 DEF RollbackWrite
  <2>. QED
    BY <2>1, <2>2, <2>3, OthersRemoveNothing
<1>. QED
  BY <1>1, OneWriterInvariant, PTL DEF Spec, RollbackStaysInside

=============================================================================
