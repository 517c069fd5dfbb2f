------------------------- MODULE EvidenceLedgerProofs -------------------------
(***************************************************************************)
(* Proofs about EvidenceLedger for every set of connections, keys,         *)
(* evidence IDs, groups and bundles, and every bound.                      *)
(***************************************************************************)
EXTENDS EvidenceLedgerProperties, TLAPS

USE DEF ApplyPhases, RollbackPhases, Phases, Replies

LEMMA UnchangedTables ==
  ASSUME TablesOK, UNCHANGED tables PROVE TablesOK'
BY DEF TablesOK, tables, evidenceTables, graphTables, feedbackTables

(* A call that moves to a phase with an argument of the right kind, and a   *)
(* call that returns, keep the control well typed.                          *)
LEMMA EnterControl ==
  ASSUME ControlOK, NEW c \in Connections, NEW p \in Phases, NEW a,
         Enter(c, p, a),
         p \in ApplyPhases => a \in Bundles,
         p \in RollbackPhases => a \in Keys,
         p # "idle"
  PROVE  ControlOK'
<1>1. phase' \in [Connections -> Phases] /\ phase'[c] = p
      /\ \A d \in Connections \ {c} : phase'[d] = phase[d]
  BY DEF ControlOK, Enter
<1>2. arg' \in [Connections -> Bundles \cup Keys \cup {NoArg}] /\ arg'[c] = a
      /\ \A d \in Connections \ {c} : arg'[d] = arg[d]
  BY DEF ControlOK, Enter
<1>3. pending' = [d \in Connections |-> pending'[d]] /\ pending'[c] = Reads(p, a)
      /\ \A d \in Connections \ {c} : pending'[d] = pending[d]
  BY DEF ControlOK, Enter
<1>4. \A d \in Connections : pending'[d] \subseteq Reads(phase'[d], arg'[d])
  BY <1>1, <1>2, <1>3 DEF ControlOK
<1>. QED
  BY <1>1, <1>2, <1>3, <1>4 DEF ControlOK

LEMMA ReturnControl ==
  ASSUME ControlOK, NEW c \in Connections, NEW answer, Return(c, answer)
  PROVE  ControlOK'
<1>1. phase' \in [Connections -> Phases] /\ phase'[c] = "idle"
      /\ \A d \in Connections \ {c} : phase'[d] = phase[d]
  BY DEF ControlOK, Return
<1>2. arg' \in [Connections -> Bundles \cup Keys \cup {NoArg}]
      /\ \A d \in Connections \ {c} : arg'[d] = arg[d]
  BY DEF ControlOK, Return
<1>3. pending' = [d \in Connections |-> pending'[d]] /\ pending'[c] = {}
      /\ \A d \in Connections \ {c} : pending'[d] = pending[d]
  BY DEF ControlOK, Return
<1>4. \A d \in Connections : pending'[d] \subseteq Reads(phase'[d], arg'[d])
  BY <1>1, <1>2, <1>3 DEF ControlOK
<1>. QED
  BY <1>1, <1>2, <1>3, <1>4 DEF ControlOK

(* A read that refuses nothing leaves the call in its check or enters the   *)
(* next phase.                                                              *)
LEMMA PassedControl ==
  ASSUME ControlOK, NEW c \in Connections, NEW p \in Phases, NEW read,
         Passed(c, read, p), phase[c] # "idle",
         p \in ApplyPhases => arg[c] \in Bundles,
         p \in RollbackPhases => arg[c] \in Keys,
         p # "idle"
  PROVE  ControlOK'
<1>1. CASE Enter(c, p, arg[c])
  BY <1>1, EnterControl
<1>2. CASE /\ pending' = [pending EXCEPT ![c] = @ \ {read}]
           /\ reply' = "none"
           /\ UNCHANGED <<phase, arg>>
  <2>1. pending' = [d \in Connections |-> pending'[d]]
        /\ \A d \in Connections : pending'[d] \subseteq pending[d]
    BY <1>2 DEF ControlOK
  <2>. QED
    BY <1>2, <2>1 DEF ControlOK
<1>. QED
  BY <1>1, <1>2 DEF Passed

(* Each item of a well-formed bundle is an evidence ID, the bundle has a    *)
(* natural number of them, and its references start at its own items.       *)
LEMMA BundleFacts ==
  ASSUME NEW b \in Bundles
  PROVE  /\ b \in Bundle /\ b.key \in Keys
         /\ b.items \subseteq EvidenceIds /\ b.refs \subseteq Reference
         /\ Cardinality(b.items) \in Nat
         /\ \A r \in b.refs : r.source \in b.items
<1>1. b \in Bundle /\ WellFormed(b)
  BY BundlesWellFormed
<1>2. Cardinality(b.items) \in 1 .. MaxBundleItems /\ MaxBundleItems \in Nat
  BY <1>1, BoundsAreNat DEF WellFormed
<1>. QED
  BY <1>1, <1>2 DEF Bundle, WellFormed

LEMMA InsertRelationsType ==
  ASSUME TablesOK, NEW new, new \subseteq Relation, InsertRelations(new)
  PROVE  relations' \subseteq Relation /\ reinforcement' \in [relations' -> Nat]
BY DEF TablesOK, InsertRelations

LEMMA ProjectionType ==
  ASSUME NEW b \in Bundles, NEW node \in [EvidenceIds -> Nat]
  PROVE  Projection(b, node) \subseteq Relation
BY BundleFacts DEF Projection, Relation, Reference

-----------------------------------------------------------------------------
(* Type correctness.                                                       *)

LEMMA ApplyWriteType ==
  ASSUME WellTyped, NEW c \in Connections, ApplyWrite(c)
  PROVE  WellTyped'
<1>. DEFINE b == arg[c]
<1>0. TablesOK /\ ControlOK
  BY DEF WellTyped
<1>1. b \in Bundles
  BY <1>0 DEF ControlOK, ApplyWrite
<1>2. CASE Refuse(c, "Database")
  BY <1>0, <1>2, UnchangedTables, ReturnControl DEF WellTyped, Refuse
<1>3. CASE /\ \E assigned \in NodeAssignments(b) :
                itemNode' = [e \in EvidenceIds |->
                               IF e \in b.items THEN assigned[e] ELSE itemNode[e]]
           /\ ledger' = [ledger EXCEPT ![b.key] = b]
           /\ itemBundle' = [e \in EvidenceIds |->
                               IF e \in b.items THEN b.key ELSE itemBundle[e]]
           /\ refs' = refs \cup b.refs
           /\ nodes' = nodes \cup NewNodes(b)
           /\ issued' = issued \cup NewNodes(b)
           /\ nodeSeq' = nodeSeq + Cardinality(b.items)
           /\ InsertRelations(Projection(b, itemNode'))
           /\ UNCHANGED <<rolledBack, feedbackTables>>
           /\ Return(c, "Applied")
  <2>1. nodeSeq' \in Nat /\ NewNodes(b) \subseteq Nat
    BY <1>0, <1>1, <1>3, BundleFacts DEF TablesOK, NewNodes
  <2>2. itemNode' \in [EvidenceIds -> Nat]
    BY <1>0, <1>1, <1>3, <2>1, BundleFacts DEF TablesOK, NodeAssignments
  <2>3. relations' \subseteq Relation /\ reinforcement' \in [relations' -> Nat]
    BY <1>0, <1>1, <1>3, <2>2, ProjectionType, InsertRelationsType
  <2>4. TablesOK'
    BY <1>0, <1>1, <1>3, <2>1, <2>2, <2>3, BundleFacts DEF TablesOK, feedbackTables
  <2>. QED
    BY <1>0, <1>3, <2>4, ReturnControl DEF WellTyped
<1>. QED
  BY <1>2, <1>3 DEF ApplyWrite

LEMMA RollbackWriteType ==
  ASSUME WellTyped, NEW c \in Connections, RollbackWrite(c)
  PROVE  WellTyped'
<1>. DEFINE k == arg[c]
            left == relations \ TouchingRelations(k)
<1>0. TablesOK /\ ControlOK
  BY DEF WellTyped
<1>1. k \in Keys
  BY <1>0 DEF ControlOK, RollbackWrite
<1>2. CASE Refuse(c, "Database")
  BY <1>0, <1>2, UnchangedTables, ReturnControl DEF WellTyped, Refuse
<1>3. CASE /\ refs' = refs \ OwnRefs(k)
           /\ relations' = left
           /\ reinforcement' = [r \in left |-> reinforcement[r]]
           /\ nodes' = nodes \ BundleNodes(k)
           /\ itemBundle' = [e \in EvidenceIds |->
                               IF itemBundle[e] = k THEN NoKey ELSE itemBundle[e]]
           /\ itemNode' = [e \in EvidenceIds |->
                             IF itemBundle[e] = k THEN 0 ELSE itemNode[e]]
           /\ rolledBack' = rolledBack \cup {k}
           /\ UNCHANGED <<ledger, nodeSeq, issued, feedbackTables>>
           /\ Return(c, "RolledBack")
  <2>1. TablesOK'
    BY <1>0, <1>1, <1>3 DEF TablesOK, feedbackTables
  <2>. QED
    BY <1>0, <1>3, <2>1, ReturnControl DEF WellTyped
<1>. QED
  BY <1>2, <1>3 DEF RollbackWrite

LEMMA ApplyStepType ==
  ASSUME WellTyped, NEW c \in Connections, ApplyStep(c)
  PROVE  WellTyped'
<1>0. TablesOK /\ ControlOK
  BY DEF WellTyped
<1>1. ASSUME NEW b \in Bundles, ApplyLookup(c, b) PROVE WellTyped'
  BY <1>0, <1>1, UnchangedTables, EnterControl, ReturnControl DEF WellTyped, ApplyLookup
<1>2. CASE ApplyCheck(c)
  <2>1. arg[c] \in Bundles
    BY <1>0, <1>2 DEF ControlOK, ApplyCheck
  <2>2. TablesOK'
    BY <1>0, <1>2, UnchangedTables DEF ApplyCheck
  <2>3. ASSUME NEW e, CheckItem(c, e) PROVE ControlOK'
    BY <1>0, <1>2, <2>1, <2>3, PassedControl, ReturnControl DEF CheckItem, ApplyCheck
  <2>4. ASSUME NEW r, CheckReference(c, r) PROVE ControlOK'
    BY <1>0, <1>2, <2>1, <2>4, PassedControl, ReturnControl DEF CheckReference, ApplyCheck
  <2>. QED
    BY <1>2, <2>2, <2>3, <2>4 DEF WellTyped, ApplyCheck
<1>3. CASE ReplayLedger(c)
  <2>1. arg[c] \in Bundles
    BY <1>0, <1>3 DEF ControlOK, ReplayLedger
  <2>. QED
    BY <1>0, <1>3, <2>1, UnchangedTables, EnterControl, ReturnControl
    DEF WellTyped, ReplayLedger
<1>4. CASE ReplayItems(c)
  BY <1>0, <1>4, UnchangedTables, ReturnControl DEF WellTyped, ReplayItems, Refuse
<1>. QED
  BY <1>1, <1>2, <1>3, <1>4, ApplyWriteType DEF ApplyStep

LEMMA RollbackStepType ==
  ASSUME WellTyped, NEW c \in Connections, RollbackStep(c)
  PROVE  WellTyped'
<1>0. TablesOK /\ ControlOK
  BY DEF WellTyped
<1>1. ASSUME NEW k \in Keys, RollbackLookup(c, k) PROVE WellTyped'
  BY <1>0, <1>1, UnchangedTables, EnterControl, ReturnControl DEF WellTyped, RollbackLookup
<1>2. CASE RollbackEvidenceCheck(c)
  <2>1. arg[c] \in Keys
    BY <1>0, <1>2 DEF ControlOK, RollbackEvidenceCheck
  <2>. QED
    BY <1>0, <1>2, <2>1, UnchangedTables, PassedControl, ReturnControl
    DEF WellTyped, RollbackEvidenceCheck
<1>3. CASE RollbackGraphCheck(c)
  <2>1. arg[c] \in Keys
    BY <1>0, <1>3 DEF ControlOK, RollbackGraphCheck
  <2>. QED
    BY <1>0, <1>3, <2>1, UnchangedTables, EnterControl, ReturnControl
    DEF WellTyped, RollbackGraphCheck
<1>. QED
  BY <1>1, <1>2, <1>3, RollbackWriteType DEF RollbackStep

LEMMA GraphStepType ==
  ASSUME WellTyped, NEW c \in Connections, GraphStep(c)
  PROVE  WellTyped'
<1>0. TablesOK /\ ControlOK
  BY DEF WellTyped
<1>1. OrdinaryRelation \subseteq Relation
  BY <1>0 DEF OrdinaryRelation, Relation, TablesOK
<1>2. ASSUME NEW n \in 1 .. MaxNodes, AddNodes(c, n) PROVE WellTyped'
  <2>1. n \in Nat
    BY BoundsAreNat
  <2>2. TablesOK'
    BY <1>0, <1>2, <2>1 DEF AddNodes, TablesOK, evidenceTables, feedbackTables
  <2>. QED
    BY <1>0, <1>2, <2>2, ReturnControl DEF WellTyped, AddNodes
<1>3. ASSUME NEW batch \in Batches, AddRelations(c, batch) PROVE WellTyped'
  <2>1. batch \subseteq Relation
    BY <1>1, <1>3 DEF Batches
  <2>2. CASE InsertRelations(batch) /\ Return(c, "Stored")
             /\ UNCHANGED <<evidenceTables, nodes, nodeSeq, issued, feedbackTables>>
    <3>1. TablesOK'
      BY <1>0, <2>1, <2>2, InsertRelationsType DEF TablesOK, evidenceTables, feedbackTables
    <3>. QED
      BY <1>0, <2>2, <3>1, ReturnControl DEF WellTyped
  <2>. QED
    BY <1>0, <1>3, <2>2, UnchangedTables, ReturnControl DEF WellTyped, AddRelations, Refuse
<1>4. ASSUME NEW r \in relations \cup OrdinaryRelation, NEW positive \in BOOLEAN,
             RecordFeedback(c, r, positive)
      PROVE  WellTyped'
  <2>1. CASE /\ r \in relations
             /\ feedback' = feedback \cup
                  {[id |-> feedbackSeq + 1, relation |-> r, positive |-> positive]}
             /\ feedbackSeq' = feedbackSeq + 1
             /\ reinforcement' = Reinforced(r, positive)
             /\ UNCHANGED <<evidenceTables, nodes, nodeSeq, issued, relations>>
             /\ Return(c, "Stored")
    <3>1. [id |-> feedbackSeq + 1, relation |-> r, positive |-> positive] \in FeedbackEvent
      BY <1>0, <2>1 DEF TablesOK, FeedbackEvent
    <3>2. reinforcement' \in [relations' -> Nat]
      BY <1>0, <2>1 DEF TablesOK, Reinforced
    <3>3. TablesOK'
      BY <1>0, <2>1, <3>1, <3>2 DEF TablesOK, evidenceTables
    <3>. QED
      BY <1>0, <2>1, <3>3, ReturnControl DEF WellTyped
  <2>. QED
    BY <1>0, <1>4, <2>1, UnchangedTables, ReturnControl DEF WellTyped, RecordFeedback, Refuse
<1>5. ASSUME NEW id \in 1 .. MaxFeedback, RemoveFeedback(c, id) PROVE WellTyped'
  <2>1. ASSUME NEW f \in feedback,
               /\ feedback' = feedback \ {f}
               /\ reinforcement' = Compensated(f)
               /\ UNCHANGED <<evidenceTables, nodes, nodeSeq, issued, relations, feedbackSeq>>
               /\ Return(c, "Removed")
        PROVE  WellTyped'
    <3>1. reinforcement' \in [relations' -> Nat]
      <4>1. reinforcement \in [relations -> Nat] /\ UNCHANGED relations
        BY <1>0, <2>1 DEF TablesOK
      <4>2. f.relation \in relations /\ reinforcement[f.relation] > 0
              => reinforcement[f.relation] - 1 \in Nat
        BY <4>1
      <4>. QED
        BY <2>1, <4>1, <4>2 DEF Compensated
    <3>2. TablesOK'
      BY <1>0, <2>1, <3>1 DEF TablesOK, evidenceTables
    <3>. QED
      BY <1>0, <2>1, <3>2, ReturnControl DEF WellTyped
  <2>. QED
    BY <1>0, <1>5, <2>1, UnchangedTables, ReturnControl DEF WellTyped, RemoveFeedback, Refuse
<1>. QED
  BY <1>2, <1>3, <1>4, <1>5 DEF GraphStep

LEMMA RefuseType ==
  ASSUME WellTyped, NEW c \in Connections, NEW answer, Refuse(c, answer)
  PROVE  WellTyped'
BY UnchangedTables, ReturnControl DEF WellTyped, Refuse

LEMMA InitType == Init => TypeOK
BY DEF Init, TypeOK, WellTyped, TablesOK, ControlOK

LEMMA NextType == WellTyped /\ [Next]_vars => WellTyped'
<1>. SUFFICES ASSUME WellTyped, [Next]_vars PROVE WellTyped'
  OBVIOUS
<1>1. ASSUME NEW c \in Connections, CallFails(c) PROVE WellTyped'
  BY <1>1, RefuseType DEF CallFails
<1>2. CASE UNCHANGED vars
  BY <1>2 DEF vars, WellTyped, TablesOK, ControlOK
<1>. QED
  BY <1>1, <1>2, ApplyStepType, RollbackStepType, GraphStepType DEF Next

(* What the steps of a call answer. *)
LEMMA PassedReply ==
  ASSUME NEW c, NEW read, NEW p, Passed(c, read, p) PROVE reply' = "none"
BY DEF Passed, Enter

LEMMA NextReply == [Next]_vars => reply' \in Replies \cup {reply}
<1>1. ASSUME NEW c \in Connections, ApplyStep(c) PROVE reply' \in Replies
  BY <1>1, PassedReply
  DEF ApplyStep, ApplyLookup, ApplyCheck, CheckItem, CheckReference, ApplyWrite, ReplayLedger,
      ReplayItems, Refuse, Return, Enter
<1>2. ASSUME NEW c \in Connections, RollbackStep(c) PROVE reply' \in Replies
  BY <1>2, PassedReply
  DEF RollbackStep, RollbackLookup, RollbackEvidenceCheck, RollbackGraphCheck, RollbackWrite,
      Refuse, Return, Enter
<1>3. ASSUME NEW c \in Connections, GraphStep(c) \/ CallFails(c) PROVE reply' \in Replies
  BY <1>3
  DEF GraphStep, AddNodes, AddRelations, RecordFeedback, RemoveFeedback, CallFails, Refuse,
      Return
<1>. QED
  BY <1>1, <1>2, <1>3 DEF Next, vars

(* The tables hold values their schema allows and every call holds an       *)
(* argument of its kind, in every reachable state.                          *)
THEOREM TypeCorrect == Spec => []TypeOK
<1>1. TypeOK /\ [Next]_vars => TypeOK'
  BY NextType, NextReply DEF TypeOK
<1>. QED
  BY <1>1, InitType, PTL DEF Spec
-----------------------------------------------------------------------------
(* The evidence tables: what is stored is what is applied and not rolled   *)
(* back, and no reference dangles.                                         *)

EvidenceInv == BundlesAllOrNothing /\ ReferencesResolve

LEMMA UnchangedEvidence ==
  ASSUME EvidenceInv, UNCHANGED evidenceTables PROVE EvidenceInv'
BY DEF EvidenceInv, BundlesAllOrNothing, ReferencesResolve, Active, Stored, evidenceTables

(* The effect of a committed apply transaction on the evidence tables. *)
AppliedRows(b) ==
  /\ ledger' = [ledger EXCEPT ![b.key] = b]
  /\ itemBundle' = [e \in EvidenceIds |-> IF e \in b.items THEN b.key ELSE itemBundle[e]]
  /\ refs' = refs \cup b.refs
  /\ rolledBack' = rolledBack

(* The effect of a committed rollback transaction on the evidence tables. *)
RolledBackRows(k) ==
  /\ refs' = refs \ OwnRefs(k)
  /\ itemBundle' = [e \in EvidenceIds |-> IF itemBundle[e] = k THEN NoKey ELSE itemBundle[e]]
  /\ rolledBack' = rolledBack \cup {k}
  /\ ledger' = ledger

(* Every transaction on the evidence tables is one of these two, and a      *)
(* connection that starts a rollback has found its bundle in the ledger.    *)
LEMMA EvidenceSteps ==
  ASSUME WellTyped, NEW c \in Connections,
         ApplyStep(c) \/ RollbackStep(c) \/ GraphStep(c) \/ CallFails(c)
  PROVE  \/ /\ UNCHANGED evidenceTables
            /\ \A d \in Connections :
                 phase'[d] \in RollbackPhases =>
                   \/ phase[d] \in RollbackPhases /\ arg'[d] = arg[d]
                   \/ ledger[arg'[d]] # NoBundle
         \/ \E b \in Bundles :
              /\ phase[c] = "apply_write" /\ arg[c] = b
              /\ ~ApplyViolatesConstraint(b) /\ AppliedRows(b)
              /\ Return(c, "Applied")
         \/ \E k \in Keys :
              /\ phase[c] = "rollback_write" /\ arg[c] = k
              /\ ~RollbackViolatesConstraint(k) /\ RolledBackRows(k)
              /\ Return(c, "RolledBack")
<1>0. TablesOK /\ ControlOK
  BY DEF WellTyped
<1>1. ASSUME NEW answer, Refuse(c, answer) PROVE
         /\ UNCHANGED evidenceTables
         /\ \A d \in Connections :
              phase'[d] \in RollbackPhases =>
                phase[d] \in RollbackPhases /\ arg'[d] = arg[d]
  BY <1>0, <1>1 DEF Refuse, Return, tables, ControlOK
<1>2. ASSUME NEW answer, Return(c, answer) PROVE
         \A d \in Connections :
              phase'[d] \in RollbackPhases =>
                phase[d] \in RollbackPhases /\ arg'[d] = arg[d]
  BY <1>0, <1>2 DEF Return, ControlOK
<1>3. ASSUME NEW p \in ApplyPhases, NEW a, Enter(c, p, a) PROVE
         \A d \in Connections :
              phase'[d] \in RollbackPhases =>
                phase[d] \in RollbackPhases /\ arg'[d] = arg[d]
  BY <1>0, <1>3 DEF Enter, ControlOK
<1>4. ASSUME NEW p \in RollbackPhases, NEW k \in Keys, Enter(c, p, k),
             ledger[k] # NoBundle \/ (phase[c] \in RollbackPhases /\ arg[c] = k)
      PROVE \A d \in Connections :
              phase'[d] \in RollbackPhases =>
                \/ phase[d] \in RollbackPhases /\ arg'[d] = arg[d]
                \/ ledger[arg'[d]] # NoBundle
  BY <1>0, <1>4 DEF Enter, ControlOK
<1>4a. ASSUME NEW p \in ApplyPhases \cup RollbackPhases, NEW read, Passed(c, read, p),
             p \in RollbackPhases => phase[c] \in RollbackPhases
      PROVE \A d \in Connections :
              phase'[d] \in RollbackPhases =>
                phase[d] \in RollbackPhases /\ arg'[d] = arg[d]
  BY <1>0, <1>4a DEF Passed, Enter, ControlOK
<1>5. CASE ApplyStep(c)
  <2>1. ASSUME NEW b \in Bundles, ApplyLookup(c, b) PROVE UNCHANGED evidenceTables
             /\ \A d \in Connections : phase'[d] \in RollbackPhases =>
                  phase[d] \in RollbackPhases /\ arg'[d] = arg[d]
    BY <1>2, <1>3, <2>1 DEF ApplyLookup, tables
  <2>2. CASE ApplyCheck(c)
    <3>1. ASSUME NEW e, CheckItem(c, e) PROVE
            \A d \in Connections : phase'[d] \in RollbackPhases =>
              phase[d] \in RollbackPhases /\ arg'[d] = arg[d]
      BY <1>2, <1>4a, <3>1 DEF CheckItem
    <3>2. ASSUME NEW r, CheckReference(c, r) PROVE
            \A d \in Connections : phase'[d] \in RollbackPhases =>
              phase[d] \in RollbackPhases /\ arg'[d] = arg[d]
      BY <1>2, <1>4a, <3>2 DEF CheckReference
    <3>. QED
      BY <2>2, <3>1, <3>2 DEF ApplyCheck, tables
  <2>3. CASE ReplayLedger(c)
    BY <1>2, <1>3, <2>3 DEF ReplayLedger, tables
  <2>4. CASE ReplayItems(c)
    BY <1>1, <2>4 DEF ReplayItems
  <2>5. CASE ApplyWrite(c)
    <3>1. arg[c] \in Bundles
      BY <1>0, <2>5 DEF ControlOK, ApplyWrite
    <3>. QED
      BY <1>1, <2>5, <3>1 DEF ApplyWrite, AppliedRows
  <2>. QED
    BY <1>5, <2>1, <2>2, <2>3, <2>4, <2>5 DEF ApplyStep
<1>6. CASE RollbackStep(c)
  <2>1. ASSUME NEW k \in Keys, RollbackLookup(c, k) PROVE UNCHANGED evidenceTables
             /\ \A d \in Connections : phase'[d] \in RollbackPhases =>
                  \/ phase[d] \in RollbackPhases /\ arg'[d] = arg[d]
                  \/ ledger[arg'[d]] # NoBundle
    BY <1>2, <1>4, <2>1 DEF RollbackLookup, Active, tables
  <2>2. CASE RollbackEvidenceCheck(c)
    BY <1>2, <1>4a, <2>2 DEF RollbackEvidenceCheck, tables
  <2>3. CASE RollbackGraphCheck(c)
    <3>1. arg[c] \in Keys
      BY <1>0, <2>3 DEF ControlOK, RollbackGraphCheck
    <3>. QED
      BY <1>2, <1>4, <2>3, <3>1 DEF RollbackGraphCheck, tables
  <2>4. CASE RollbackWrite(c)
    <3>1. arg[c] \in Keys
      BY <1>0, <2>4 DEF ControlOK, RollbackWrite
    <3>. QED
      BY <1>1, <2>4, <3>1 DEF RollbackWrite, RolledBackRows
  <2>. QED
    BY <1>6, <2>1, <2>2, <2>3, <2>4 DEF RollbackStep
<1>7. CASE GraphStep(c)
  <2>1. ASSUME NEW n \in 1 .. MaxNodes, AddNodes(c, n) PROVE UNCHANGED evidenceTables
             /\ \A d \in Connections : phase'[d] \in RollbackPhases =>
                  phase[d] \in RollbackPhases /\ arg'[d] = arg[d]
    BY <1>2, <2>1 DEF AddNodes
  <2>2. ASSUME NEW batch \in Batches, AddRelations(c, batch) PROVE UNCHANGED evidenceTables
             /\ \A d \in Connections : phase'[d] \in RollbackPhases =>
                  phase[d] \in RollbackPhases /\ arg'[d] = arg[d]
    BY <1>1, <1>2, <2>2 DEF AddRelations
  <2>3. ASSUME NEW r \in relations \cup OrdinaryRelation, NEW positive \in BOOLEAN,
               RecordFeedback(c, r, positive)
        PROVE  UNCHANGED evidenceTables
             /\ \A d \in Connections : phase'[d] \in RollbackPhases =>
                  phase[d] \in RollbackPhases /\ arg'[d] = arg[d]
    BY <1>1, <1>2, <2>3 DEF RecordFeedback
  <2>4. ASSUME NEW id \in 1 .. MaxFeedback, RemoveFeedback(c, id)
        PROVE  UNCHANGED evidenceTables
             /\ \A d \in Connections : phase'[d] \in RollbackPhases =>
                  phase[d] \in RollbackPhases /\ arg'[d] = arg[d]
    BY <1>1, <1>2, <2>4 DEF RemoveFeedback
  <2>. QED
    BY <1>7, <2>1, <2>2, <2>3, <2>4 DEF GraphStep
<1>8. CASE CallFails(c)
  BY <1>1, <1>8 DEF CallFails
<1>. QED
  BY <1>5, <1>6, <1>7, <1>8

LEMMA AppliedRowsKeepInv ==
  ASSUME LedgerInv, NEW b \in Bundles, ~ApplyViolatesConstraint(b), AppliedRows(b)
  PROVE  EvidenceInv'
<1>0. TablesOK /\ NoBundle \notin Bundles /\ NoKey \notin Keys
  BY SentinelsDistinct DEF WellTyped, LedgerInv
<1>1. b.key \in Keys /\ b.items \subseteq EvidenceIds /\ b.refs \subseteq Reference
      /\ \A r \in b.refs : r.source \in b.items
  BY BundleFacts
<1>2. b.key \notin rolledBack
  BY <1>1 DEF LedgerInv, LedgerRowsStay, ApplyViolatesConstraint
<1>3. \A k \in Keys : Active(k)' <=> Active(k) \/ k = b.key
  BY <1>0, <1>1, <1>2 DEF Active, AppliedRows, TablesOK
<1>4. \A k \in Keys : k # b.key => ledger'[k] = ledger[k]
  BY <1>0, <1>1 DEF AppliedRows, TablesOK
<1>5. ledger'[b.key] = b /\ ~Active(b.key)
  BY <1>0, <1>1 DEF AppliedRows, TablesOK, Active, ApplyViolatesConstraint
<1>6. \A e \in b.items : itemBundle[e] = NoKey /\ itemBundle'[e] = b.key
  BY <1>1 DEF ApplyViolatesConstraint, Stored, AppliedRows
<1>7. \A e \in EvidenceIds \ b.items : itemBundle'[e] = itemBundle[e]
  BY DEF AppliedRows
<1>8. \A k \in Keys, e \in EvidenceIds :
        itemBundle'[e] = k <=> Active(k)' /\ e \in ledger'[k].items
  <2>. SUFFICES ASSUME NEW k \in Keys, NEW e \in EvidenceIds
                PROVE  itemBundle'[e] = k <=> Active(k)' /\ e \in ledger'[k].items
    OBVIOUS
  <2>1. itemBundle[e] = k <=> Active(k) /\ e \in ledger[k].items
    BY DEF LedgerInv, BundlesAllOrNothing
  <2>2. CASE k = b.key
    BY <1>0, <1>1, <1>3, <1>5, <1>6, <1>7, <2>1, <2>2
  <2>3. CASE k # b.key
    BY <1>0, <1>1, <1>3, <1>4, <1>6, <1>7, <2>1, <2>3
  <2>. QED
    BY <2>2, <2>3
<1>9. refs' = UNION {ledger'[k].refs : k \in {j \in Keys : Active(j)'}}
  <2>1. refs = UNION {ledger[k].refs : k \in {j \in Keys : Active(j)}}
    BY DEF LedgerInv, BundlesAllOrNothing
  <2>2. ASSUME NEW r PROVE r \in refs' <=> \E k \in Keys : Active(k)' /\ r \in ledger'[k].refs
    BY <1>1, <1>3, <1>4, <1>5, <2>1 DEF AppliedRows
  <2>. QED
    BY <2>2
<1>10. ASSUME NEW r \in refs' PROVE Stored(r.source)' /\ Stored(r.target)'
  <2>1. r.source \in EvidenceIds /\ r.target \in EvidenceIds
    BY <1>0, <1>1 DEF AppliedRows, TablesOK, Reference
  <2>2. CASE r \in refs
    BY <1>0, <1>1, <1>6, <1>7, <2>1, <2>2 DEF LedgerInv, ReferencesResolve, Stored
  <2>3. CASE r \in b.refs
    BY <1>0, <1>1, <1>6, <1>7, <2>1, <2>3 DEF ApplyViolatesConstraint, Stored
  <2>. QED
    BY <2>2, <2>3 DEF AppliedRows
<1>. QED
  BY <1>8, <1>9, <1>10 DEF EvidenceInv, BundlesAllOrNothing, ReferencesResolve

(* The rows a rollback deletes are exactly those of the payload. *)
LEMMA OwnRefsOfActive ==
  ASSUME LedgerInv, NEW j \in Keys, Active(j), NEW r \in ledger[j].refs
  PROVE  r \in refs /\ r.source \in EvidenceIds /\ r.target \in EvidenceIds
         /\ itemBundle[r.source] = j
<1>1. ledger[j] \in Bundles
  BY DEF WellTyped, LedgerInv, TablesOK, Active
<1>2. r \in Reference /\ r.source \in ledger[j].items
  BY <1>1, BundleFacts
<1>. QED
  BY <1>2 DEF LedgerInv, BundlesAllOrNothing, Reference

LEMMA RolledBackRowsKeepInv ==
  ASSUME LedgerInv, NEW k \in Keys, ~RollbackViolatesConstraint(k), RolledBackRows(k)
  PROVE  EvidenceInv'
<1>0. TablesOK /\ NoKey \notin Keys
  BY SentinelsDistinct DEF WellTyped, LedgerInv
<1>1. \A j \in Keys : Active(j)' <=> Active(j) /\ j # k
  BY DEF Active, RolledBackRows
<1>2. \A j \in Keys, e \in EvidenceIds :
        itemBundle'[e] = j <=> Active(j)' /\ e \in ledger'[j].items
  <2>. SUFFICES ASSUME NEW j \in Keys, NEW e \in EvidenceIds
                PROVE  itemBundle'[e] = j <=> Active(j)' /\ e \in ledger'[j].items
    OBVIOUS
  <2>1. itemBundle[e] = j <=> Active(j) /\ e \in ledger[j].items
    BY DEF LedgerInv, BundlesAllOrNothing
  <2>. QED
    BY <1>0, <1>1, <2>1 DEF RolledBackRows
<1>3. refs' = UNION {ledger'[j].refs : j \in {i \in Keys : Active(i)'}}
  <2>1. refs = UNION {ledger[j].refs : j \in {i \in Keys : Active(i)}}
    BY DEF LedgerInv, BundlesAllOrNothing
  <2>2. ASSUME NEW r PROVE r \in refs' <=> \E j \in Keys : Active(j)' /\ r \in ledger'[j].refs
    <3>1. ASSUME NEW j \in Keys, Active(j), r \in ledger[j].refs
          PROVE  r \in refs' <=> j # k
      BY <3>1, OwnRefsOfActive DEF RolledBackRows, OwnRefs
    <3>. QED
      BY <1>1, <2>1, <3>1 DEF RolledBackRows
  <2>. QED
    BY <2>2
<1>4. ASSUME NEW r \in refs' PROVE Stored(r.source)' /\ Stored(r.target)'
  <2>1. r \in refs /\ r \notin OwnRefs(k) /\ r.source \in EvidenceIds /\ r.target \in EvidenceIds
    BY <1>0 DEF RolledBackRows, TablesOK, Reference
  <2>2. itemBundle[r.source] # k /\ itemBundle[r.target] # k
    BY <2>1 DEF OwnRefs, RollbackViolatesConstraint
  <2>. QED
    BY <2>1, <2>2 DEF LedgerInv, ReferencesResolve, Stored, RolledBackRows
<1>. QED
  BY <1>2, <1>3, <1>4 DEF EvidenceInv, BundlesAllOrNothing, ReferencesResolve

LEMMA InitLedgerInv == Init => LedgerInv
<1>. SUFFICES ASSUME Init PROVE LedgerInv
  OBVIOUS
<1>1. BundlesAllOrNothing
  BY SentinelsDistinct DEF Init, BundlesAllOrNothing, Active
<1>. QED
  BY <1>1, InitType DEF Init, TypeOK, LedgerInv, ReferencesResolve, LedgerRowsStay

LEMMA NextLedgerInv == LedgerInv /\ [Next]_vars => LedgerInv'
<1>. SUFFICES ASSUME LedgerInv, [Next]_vars PROVE LedgerInv'
  OBVIOUS
<1>0. WellTyped /\ WellTyped' /\ TablesOK /\ ControlOK /\ EvidenceInv
      /\ NoBundle \notin Bundles /\ BundlesAllOrNothing
  BY NextType, SentinelsDistinct DEF WellTyped, LedgerInv, EvidenceInv
<1>1. CASE UNCHANGED vars
  BY <1>0, <1>1, UnchangedEvidence
  DEF vars, evidenceTables, LedgerInv, EvidenceInv, LedgerRowsStay
<1>2. ASSUME NEW c \in Connections,
             ApplyStep(c) \/ RollbackStep(c) \/ GraphStep(c) \/ CallFails(c)
      PROVE  LedgerInv'
  <2>1. CASE /\ UNCHANGED evidenceTables
             /\ \A d \in Connections :
                  phase'[d] \in RollbackPhases =>
                    \/ phase[d] \in RollbackPhases /\ arg'[d] = arg[d]
                    \/ ledger[arg'[d]] # NoBundle
    <3>1. EvidenceInv'
      BY <1>0, <2>1, UnchangedEvidence
    <3>2. LedgerRowsStay'
      BY <2>1 DEF LedgerInv, LedgerRowsStay, evidenceTables
    <3>. QED
      BY <1>0, <3>1, <3>2 DEF LedgerInv, EvidenceInv
  <2>2. ASSUME NEW b \in Bundles, phase[c] = "apply_write", arg[c] = b,
               ~ApplyViolatesConstraint(b), AppliedRows(b), Return(c, "Applied")
        PROVE  LedgerInv'
    <3>1. EvidenceInv'
      BY <2>2, AppliedRowsKeepInv
    <3>2. b.key \in Keys
      BY BundleFacts
    <3>3. \A d \in Connections : phase'[d] \in RollbackPhases =>
            phase[d] \in RollbackPhases /\ arg'[d] = arg[d] /\ arg[d] \in Keys
      BY <1>0, <2>2 DEF Return, ControlOK
    <3>4. LedgerRowsStay'
      BY <1>0, <2>2, <3>2, <3>3 DEF LedgerInv, LedgerRowsStay, AppliedRows, TablesOK
    <3>. QED
      BY <1>0, <3>1, <3>4 DEF LedgerInv, EvidenceInv
  <2>3. ASSUME NEW k \in Keys, phase[c] = "rollback_write", arg[c] = k,
               ~RollbackViolatesConstraint(k), RolledBackRows(k), Return(c, "RolledBack")
        PROVE  LedgerInv'
    <3>1. EvidenceInv'
      BY <2>3, RolledBackRowsKeepInv
    <3>2. \A d \in Connections : phase'[d] \in RollbackPhases =>
            phase[d] \in RollbackPhases /\ arg'[d] = arg[d]
      BY <1>0, <2>3 DEF Return, ControlOK
    <3>3. LedgerRowsStay'
      BY <2>3, <3>2 DEF LedgerInv, LedgerRowsStay, RolledBackRows
    <3>. QED
      BY <1>0, <3>1, <3>3 DEF LedgerInv, EvidenceInv
  <2>. QED
    BY <1>0, <1>2, <2>1, <2>2, <2>3, EvidenceSteps
<1>. QED
  BY <1>1, <1>2 DEF Next

THEOREM LedgerInvariant == Spec => []LedgerInv
BY InitLedgerInv, NextLedgerInv, PTL DEF Spec

(* Apply and rollback are all-or-nothing, for any number of connections and *)
(* any interleaving of their calls and failures.                            *)
THEOREM AllOrNothing == Spec => []BundlesAllOrNothing
<1>1. LedgerInv => BundlesAllOrNothing
  BY DEF LedgerInv
<1>. QED
  BY <1>1, LedgerInvariant, PTL

(* No stored reference ever dangles, though every check of it is stale by   *)
(* the time its transaction runs.                                           *)
THEOREM NoDanglingReference == Spec => []ReferencesResolve
<1>1. LedgerInv => ReferencesResolve
  BY DEF LedgerInv
<1>. QED
  BY <1>1, LedgerInvariant, PTL

-----------------------------------------------------------------------------
(* The tables implement EvidencePromise.                                   *)

LEMMA PromisedStep ==
  LedgerInv /\ [Next]_vars => [Promise!Next]_<<ledger, rolledBack>>
<1>. SUFFICES ASSUME LedgerInv, [Next]_vars
              PROVE  Promise!Next \/ UNCHANGED <<ledger, rolledBack>>
  OBVIOUS
<1>0. WellTyped /\ TablesOK /\ NoKey \notin Keys
  BY SentinelsDistinct DEF WellTyped, LedgerInv
<1>1. CASE UNCHANGED vars
  BY <1>1 DEF vars
<1>2. ASSUME NEW b \in Bundles, ~ApplyViolatesConstraint(b), AppliedRows(b)
      PROVE  Promise!Apply(b)
  <2>1. b.items \subseteq EvidenceIds /\ b.refs \subseteq Reference
    BY BundleFacts
  <2>2. \A e \in EvidenceIds : Stored(e) <=> e \in Promise!ActiveIds
    BY <1>0 DEF LedgerInv, BundlesAllOrNothing, Promise!ActiveIds, Promise!ActiveKeys, Active,
                Stored, TablesOK
  <2>3. \A r \in b.refs : r.target \in EvidenceIds
    BY <2>1 DEF Reference
  <2>. QED
    BY <1>2, <2>1, <2>2, <2>3 DEF Promise!Apply, ApplyViolatesConstraint, AppliedRows
<1>3. ASSUME NEW k \in Keys, ~RollbackViolatesConstraint(k), RolledBackRows(k),
             ledger[k] # NoBundle
      PROVE  Promise!Rollback(k) \/ UNCHANGED <<ledger, rolledBack>>
  <2>1. CASE k \in rolledBack
    BY <1>3, <2>1 DEF RolledBackRows
  <2>2. CASE k \notin rolledBack
    <3>1. k \in Promise!ActiveKeys /\ Active(k)
      BY <1>3, <2>2 DEF Promise!ActiveKeys, Active
    <3>2. ASSUME NEW j \in Promise!ActiveKeys \ {k}, NEW r \in ledger[j].refs
          PROVE  r.target \notin ledger[k].items
      <4>1. j \in Keys /\ Active(j)
        BY DEF Promise!ActiveKeys, Active
      <4>2. r \in refs /\ r.target \in EvidenceIds /\ itemBundle[r.source] = j
        BY <4>1, OwnRefsOfActive
      <4>3. itemBundle[r.target] # k
        BY <1>3, <3>2, <4>2 DEF RollbackViolatesConstraint, OwnRefs
      <4>. QED
        BY <3>1, <4>2, <4>3 DEF LedgerInv, BundlesAllOrNothing
    <3>. QED
      BY <1>3, <3>1, <3>2 DEF Promise!Rollback, RolledBackRows
  <2>. QED
    BY <2>1, <2>2
<1>4. ASSUME NEW c \in Connections,
             ApplyStep(c) \/ RollbackStep(c) \/ GraphStep(c) \/ CallFails(c)
      PROVE  Promise!Next \/ UNCHANGED <<ledger, rolledBack>>
  <2>1. CASE UNCHANGED evidenceTables
    BY <2>1 DEF evidenceTables
  <2>2. ASSUME NEW b \in Bundles, ~ApplyViolatesConstraint(b), AppliedRows(b)
        PROVE  Promise!Next
    BY <1>2, <2>2 DEF Promise!Next
  <2>3. ASSUME NEW k \in Keys, phase[c] = "rollback_write", arg[c] = k,
               ~RollbackViolatesConstraint(k), RolledBackRows(k)
        PROVE  Promise!Next \/ UNCHANGED <<ledger, rolledBack>>
    <3>1. ledger[k] # NoBundle
      BY <2>3 DEF LedgerInv, LedgerRowsStay
    <3>. QED
      BY <1>3, <2>3, <3>1 DEF Promise!Next
  <2>. QED
    BY <1>0, <1>4, <2>1, <2>2, <2>3, EvidenceSteps
<1>. QED
  BY <1>1, <1>4 DEF Next

(* Whatever the connections interleave, lose or retry, callers see a ledger *)
(* that applies each key at most once, rolls it back at most once, and      *)
(* never breaks a reference of an active bundle.                            *)
THEOREM PromiseKept == Spec => KeepsPromise
<1>1. Init => Promise!Init
  BY DEF Init, Promise!Init
<1>. QED
  BY <1>1, PromisedStep, LedgerInvariant, PTL DEF Spec, KeepsPromise, Promise!Spec
=============================================================================
