-------------------------- MODULE LocalClientsProofs --------------------------
(***************************************************************************)
(* Proofs about LocalClients for any number of tasks, processes and        *)
(* objects, any plans and every value of the ledger's constants: what is   *)
(* proved of the ledger survives its surfaces, and what these answer is    *)
(* true.                                                                   *)
(***************************************************************************)
EXTENDS LocalClients, EvidenceProjectionProofs

USE DEF ApplyPhases, RollbackPhases, Phases, Replies

-----------------------------------------------------------------------------
(* The ledger under its callers.                                           *)

(* A caller that only reads, or gives a call up, keeps the ledger. *)
LEMMA RefuseKeeps ==
  ASSUME CountedInv, NEW k \in Connections, NEW a, Refuse(k, a)
  PROVE  CountedInv'
<1>0. LedgerInv /\ WellTyped /\ ControlOK /\ GraphInv /\ FeedbackInv
  BY DEF CountedInv, StoreInv, LedgerInv, WellTyped
<1>1. UNCHANGED tables /\ UNCHANGED evidenceTables
  BY DEF Refuse, tables
<1>2. WellTyped'
  BY <1>0, RefuseType
<1>3. EvidenceInv'
  BY <1>0, <1>1, UnchangedEvidence DEF LedgerInv, EvidenceInv
<1>4. LedgerRowsStay'
  BY <1>0, <1>1 DEF LedgerInv, LedgerRowsStay, Refuse, Return, ControlOK, evidenceTables
<1>5. GraphInv' /\ FeedbackInv'
  BY <1>0, <1>1, UnchangedGraph, UnchangedFeedback
<1>. QED
  BY <1>2, <1>3, <1>4, <1>5 DEF CountedInv, StoreInv, LedgerInv, EvidenceInv

LEMMA StepKeeps ==
  ASSUME CountedInv, NEW k \in Connections,
         ApplyStep(k) \/ RollbackStep(k) \/ GraphStep(k) \/ CallFails(k)
  PROVE  CountedInv'
BY NextStoreInv, NextFeedbackInv DEF Next, CountedInv

(* A call on one connection leaves the calls on others where they are. *)
Beside(k) ==
  \A j \in Connections \ {k} :
    phase'[j] = phase[j] /\ arg'[j] = arg[j] /\ pending'[j] = pending[j]

LEMMA ReturnMove ==
  ASSUME ControlOK, NEW k \in Connections, NEW a, Return(k, a)
  PROVE  Beside(k) /\ phase'[k] = "idle" /\ reply' = a
BY DEF ControlOK, Return, Beside

LEMMA EnterMove ==
  ASSUME ControlOK, NEW k \in Connections, NEW p, NEW a, Enter(k, p, a)
  PROVE  /\ Beside(k) /\ reply' = "none"
         /\ phase'[k] = p /\ arg'[k] = a /\ pending'[k] = Reads(p, a)
BY DEF ControlOK, Enter, Beside

LEMMA PassedMove ==
  ASSUME ControlOK, NEW k \in Connections, NEW read, NEW p, Passed(k, read, p)
  PROVE  /\ Beside(k) /\ reply' = "none"
         /\ phase'[k] \in {phase[k], p} /\ arg'[k] = arg[k]
<1>1. CASE Enter(k, p, arg[k])
  BY <1>1, EnterMove
<1>2. CASE /\ pending' = [pending EXCEPT ![k] = @ \ {read}]
           /\ reply' = "none"
           /\ UNCHANGED <<phase, arg>>
  BY <1>2 DEF ControlOK, Beside
<1>. QED
  BY <1>1, <1>2 DEF Passed

(* The lookup and the check of an apply, which are the whole of a preview. *)
LEMMA PreviewMoves ==
  ASSUME CountedInv, NEW k \in Connections, NEW b \in Bundles,
         ApplyLookup(k, b) \/ (ApplyCheck(k) /\ arg[k] = b)
  PROVE  /\ UNCHANGED tables /\ Beside(k) /\ CountedInv'
         /\ \/ /\ reply' = "none" /\ arg'[k] = b
               /\ phase'[k] \in {"apply_check", "apply_write", "replay_ledger"}
            \/ /\ reply' \notin Successes \cup {"none", "Counted"}
               /\ phase'[k] = "idle"
<1>0. ControlOK
  BY DEF CountedInv, StoreInv, LedgerInv, WellTyped
<1>1. CountedInv'
  BY StepKeeps DEF ApplyStep
<1>2. CASE ApplyLookup(k, b)
  BY <1>0, <1>1, <1>2, ReturnMove, EnterMove DEF ApplyLookup, Successes
<1>3. CASE ApplyCheck(k) /\ arg[k] = b
  <2>1. UNCHANGED tables /\ phase[k] = "apply_check"
    BY <1>3 DEF ApplyCheck
  <2>2. ASSUME NEW e, CheckItem(k, e)
        PROVE  \/ Passed(k, e, "apply_write")
               \/ Return(k, "EvidenceIdExists")
    BY <2>2 DEF CheckItem
  <2>3. ASSUME NEW r, CheckReference(k, r)
        PROVE  \/ Passed(k, r, "apply_write")
               \/ Return(k, "EvidenceReferenceNotFound")
               \/ Return(k, "EvidenceConflictGroupMismatch")
    BY <2>3 DEF CheckReference
  <2>4. PICK x : \/ Passed(k, x, "apply_write")
                 \/ Return(k, "EvidenceIdExists")
                 \/ Return(k, "EvidenceReferenceNotFound")
                 \/ Return(k, "EvidenceConflictGroupMismatch")
    BY <1>3, <2>2, <2>3 DEF ApplyCheck
  <2>. QED
    BY <1>0, <1>1, <1>3, <2>1, <2>4, ReturnMove, PassedMove DEF Successes
<1>. QED
  BY <1>2, <1>3

-----------------------------------------------------------------------------
(* What a call of the repository does to its connection and the tables.    *)

(* A reply tells what the call has committed. *)
ReplyFits(k) ==
  /\ reply' # "Counted"
  /\ tables' # tables => reply' \in {"Applied", "Stored", "RolledBack"}
  /\ reply' \in {"Applied", "Stored"} => tables' # tables
  /\ reply' = "RolledBack" =>
       tables' # tables \/ (phase[k] = "rollback_write" /\ arg[k] \in rolledBack)

Replied(k) == phase'[k] = "idle" /\ reply' # "none" /\ ReplyFits(k)

(* A call that goes on works for its request, and has committed nothing. *)
GoesOn(k, r) ==
  /\ reply' = "none" /\ UNCHANGED tables
  /\ arg'[k] = r.arg
  /\ \/ r.op = "apply" /\ phase'[k] \in ApplyPhases
     \/ /\ r.op = "rollback" /\ phase'[k] \in RollbackPhases
        /\ r.arg \in rolledBack => phase[k] \in RollbackPhases

LEMMA ReadOnlyReply ==
  ASSUME CountedInv, NEW k \in Connections, NEW a, Refuse(k, a),
         a \notin {"none", "Applied", "Stored", "RolledBack", "Counted"}
  PROVE  Beside(k) /\ CountedInv' /\ Replied(k)
<1>0. ControlOK
  BY DEF CountedInv, StoreInv, LedgerInv, WellTyped
<1>. QED
  BY <1>0, RefuseKeeps, ReturnMove DEF Refuse, Replied, ReplyFits

LEMMA GraphCalls ==
  ASSUME CountedInv, NEW k \in Connections, NEW r, AsksFor(r), r.arg # Invalid,
         \/ r.op = "add" /\ AddNodes(k, 1)
         \/ r.op = "link" /\ AddRelations(k, {r.arg})
         \/ r.op = "feedback" /\ RecordFeedback(k, r.arg, TRUE)
  PROVE  Beside(k) /\ CountedInv' /\ Replied(k)
<1>0. ControlOK /\ TablesOK /\ nodes \subseteq 1 .. nodeSeq
  BY DEF CountedInv, StoreInv, LedgerInv, WellTyped, GraphInv, NodesNumbered
<1>1. CASE r.op = "add" /\ AddNodes(k, 1)
  <2>1. 1 \in 1 .. MaxNodes /\ nodeSeq' # nodeSeq
    BY <1>0, <1>1, BoundsAreNat DEF AddNodes, TablesOK
  <2>2. CountedInv'
    BY <1>1, <2>1, StepKeeps DEF GraphStep
  <2>3. tables' # tables
    BY <2>1 DEF tables, graphTables
  <2>. QED
    BY <1>0, <1>1, <2>2, <2>3, ReturnMove DEF AddNodes, Replied, ReplyFits
<1>2. CASE r.op = "link" /\ AddRelations(k, {r.arg})
  <2>. DEFINE x == r.arg
  <2>1. x \in Relation /\ x.name \in OrdinaryNames
    BY <1>2 DEF AsksFor
  <2>2. CASE Refuse(k, "NodeNotFound") \/ Refuse(k, "Database")
    BY <2>2, ReadOnlyReply
  <2>3. CASE /\ {x.source, x.target} \subseteq nodes
             /\ {x} \cap relations = {}
             /\ InsertRelations({x})
             /\ Return(k, "Stored")
    <3>1. x \in OrdinaryRelation
      BY <1>0, <2>1, <2>3 DEF OrdinaryRelation, Relation
    <3>2. {x} \in Batches
      BY <3>1 DEF Batches
    <3>3. CountedInv'
      BY <1>2, <3>2, StepKeeps DEF GraphStep
    <3>4. relations' # relations
      BY <2>3 DEF InsertRelations
    <3>5. tables' # tables
      BY <3>4 DEF tables, graphTables
    <3>. QED
      BY <1>0, <2>3, <3>3, <3>5, ReturnMove DEF Replied, ReplyFits
  <2>. QED
    BY <1>2, <2>2, <2>3 DEF AddRelations
<1>3. CASE r.op = "feedback" /\ RecordFeedback(k, r.arg, TRUE)
  <2>1. CASE Refuse(k, "RelationNotFound")
    BY <2>1, ReadOnlyReply
  <2>2. CASE r.arg \in relations /\ feedbackSeq' = feedbackSeq + 1 /\ Return(k, "Stored")
    <3>1. CountedInv'
      BY <1>3, <2>2, StepKeeps DEF GraphStep
    <3>2. feedbackSeq' # feedbackSeq
      BY <1>0, <2>2 DEF TablesOK
    <3>3. tables' # tables
      BY <3>2 DEF tables, feedbackTables
    <3>. QED
      BY <1>0, <2>2, <3>1, <3>3, ReturnMove DEF Replied, ReplyFits
  <2>. QED
    BY <1>3, <2>1, <2>2 DEF RecordFeedback
<1>. QED
  BY <1>1, <1>2, <1>3

LEMMA ApplyCalls ==
  ASSUME CountedInv, NEW k \in Connections, NEW r, r.op = "apply", r.arg \in Bundles,
         ApplyLookup(k, r.arg) \/ (arg[k] = r.arg /\ ApplyCheck(k))
           \/ (arg[k] = r.arg /\ (ApplyWrite(k) \/ ReplayLedger(k) \/ ReplayItems(k)))
  PROVE  Beside(k) /\ CountedInv' /\ (GoesOn(k, r) \/ Replied(k))
<1>. DEFINE b == r.arg
<1>0. ControlOK /\ TablesOK
  BY DEF CountedInv, StoreInv, LedgerInv, WellTyped
<1>1. CASE ApplyLookup(k, b) \/ (ApplyCheck(k) /\ arg[k] = b)
  BY <1>1, PreviewMoves DEF GoesOn, Replied, ReplyFits, Successes
<1>2. CASE arg[k] = b /\ ApplyWrite(k)
  <2>1. CountedInv'
    BY <1>2, StepKeeps DEF ApplyStep
  <2>2. CASE Refuse(k, "Database")
    BY <2>2, ReadOnlyReply
  <2>3. CASE ~ApplyViolatesConstraint(b) /\ ledger' = [ledger EXCEPT ![b.key] = b]
             /\ Return(k, "Applied")
    <3>1. b.key \in Keys /\ b # NoBundle
      BY BundleFacts, SentinelsDistinct
    <3>2. ledger'[b.key] # ledger[b.key]
      BY <1>0, <2>3, <3>1 DEF TablesOK, ApplyViolatesConstraint
    <3>3. tables' # tables
      BY <3>2 DEF tables, evidenceTables
    <3>. QED
      BY <1>0, <2>1, <2>3, <3>3, ReturnMove DEF Replied, ReplyFits
  <2>. QED
    BY <1>2, <2>2, <2>3 DEF ApplyWrite
<1>3. CASE arg[k] = b /\ ReplayLedger(k)
  <2>1. CountedInv' /\ UNCHANGED tables
    BY <1>3, StepKeeps DEF ApplyStep, ReplayLedger
  <2>. QED
    BY <1>0, <1>3, <2>1, ReturnMove, EnterMove DEF ReplayLedger, GoesOn, Replied, ReplyFits
<1>4. CASE arg[k] = b /\ ReplayItems(k)
  BY <1>4, ReadOnlyReply DEF ReplayItems
<1>. QED
  BY <1>1, <1>2, <1>3, <1>4

LEMMA RollbackCalls ==
  ASSUME CountedInv, NEW k \in Connections, NEW r, r.op = "rollback", r.arg \in Keys,
         RollbackLookup(k, r.arg)
           \/ (arg[k] = r.arg /\ (RollbackEvidenceCheck(k) \/ RollbackGraphCheck(k)))
           \/ (arg[k] = r.arg /\ RollbackWrite(k))
  PROVE  Beside(k) /\ CountedInv' /\ (GoesOn(k, r) \/ Replied(k))
<1>. DEFINE b == r.arg
<1>0. ControlOK /\ TablesOK
  BY DEF CountedInv, StoreInv, LedgerInv, WellTyped
<1>1. CASE RollbackLookup(k, b)
  <2>1. CountedInv' /\ UNCHANGED tables
    BY <1>1, StepKeeps DEF RollbackStep, RollbackLookup
  <2>. QED
    BY <1>0, <1>1, <2>1, ReturnMove, EnterMove DEF RollbackLookup, Active, GoesOn, Replied, ReplyFits
<1>2. CASE arg[k] = b /\ RollbackEvidenceCheck(k)
  <2>1. CountedInv' /\ UNCHANGED tables /\ phase[k] = "rollback_evidence"
    BY <1>2, StepKeeps DEF RollbackStep, RollbackEvidenceCheck
  <2>2. PICK i : Return(k, "EvidenceRollbackBlocked") \/ Passed(k, i, "rollback_graph")
    BY <1>2 DEF RollbackEvidenceCheck
  <2>. QED
    BY <1>0, <1>2, <2>1, <2>2, ReturnMove, PassedMove DEF GoesOn, Replied, ReplyFits
<1>3. CASE arg[k] = b /\ RollbackGraphCheck(k)
  <2>1. CountedInv' /\ UNCHANGED tables
    BY <1>3, StepKeeps DEF RollbackStep, RollbackGraphCheck
  <2>. QED
    BY <1>0, <1>3, <2>1, ReturnMove, EnterMove DEF RollbackGraphCheck, GoesOn, Replied, ReplyFits
<1>4. CASE arg[k] = b /\ RollbackWrite(k)
  <2>1. CountedInv' /\ phase[k] = "rollback_write"
    BY <1>4, StepKeeps DEF RollbackStep, RollbackWrite
  <2>2. CASE Refuse(k, "Database")
    BY <2>2, ReadOnlyReply
  <2>3. CASE rolledBack' = rolledBack \cup {b} /\ Return(k, "RolledBack")
    <3>1. tables' # tables \/ b \in rolledBack
      BY <2>3 DEF tables, evidenceTables
    <3>. QED
      BY <1>0, <1>4, <2>1, <2>3, <3>1, ReturnMove DEF Replied, ReplyFits
  <2>. QED
    BY <1>4, <2>2, <2>3 DEF RollbackWrite
<1>. QED
  BY <1>1, <1>2, <1>3, <1>4

-----------------------------------------------------------------------------
(* The requests of the surfaces.                                           *)

Stages == {"idle", "nodes", "relations", "preview", "call"}
Statuses == {"none", "new", "idempotent_replay"}

Offered(c, r) == r \in Requests /\ r.op \in Offers(c) /\ AsksFor(r)

RequestTypes ==
  /\ todo \in [Clients -> Seq(Requests)]
  /\ \A c \in Clients : \A i \in DOMAIN todo[c] : Offered(c, todo[c][i])
  /\ stage \in [Clients -> Stages]
  /\ mutex \in Tasks \cup {NoTask}
  /\ answer = [c \in Clients |-> answer[c]]

NoteTypes ==
  /\ report = [c \in Clients |-> [status |-> report[c].status, nodes |-> report[c].nodes,
                                  relations |-> report[c].relations]]
  /\ \A c \in Clients : report[c].status \in Statuses
  /\ commits \in [Clients -> Nat]
  /\ raced \in [Clients -> BOOLEAN]

LEMMA ConnOfClients ==
  /\ \A c \in Clients : Conn(c) \in Connections
  /\ \A c, d \in Clients : Conn(c) = Conn(d) => c = d \/ (c \in Tasks /\ d \in Tasks)
BY ConnectionsOfClients, ClientsDistinct DEF Clients, Conn

LEMMA CallsOf ==
  /\ Calls("health") = <<"nodes", "relations">>
  /\ Calls("preview") = <<"preview">>
  /\ Calls("apply") = <<"preview", "call">>
  /\ \A op : op \notin {"health", "preview", "apply"} => Calls(op) = <<"call">>
BY Zenon DEF Calls

(* The stage that follows the only place of a stage. *)
LEMMA AfterPlace ==
  ASSUME NEW op, NEW s, NEW i \in DOMAIN Calls(op), Calls(op)[i] = s,
         \A j \in DOMAIN Calls(op) : Calls(op)[j] = s => j = i
  PROVE  After(op, s) = IF i < Len(Calls(op)) THEN Calls(op)[i + 1] ELSE "idle"
<1>1. (CHOOSE j \in DOMAIN Calls(op) : Calls(op)[j] = s) = i
  OBVIOUS
<1>. QED
  BY <1>1 DEF After

LEMMA AfterStage ==
  /\ After("health", "nodes") = "relations"
  /\ After("health", "relations") = "idle"
  /\ After("preview", "preview") = "idle"
  /\ After("apply", "preview") = "call"
  /\ \A op : op \notin {"health", "preview"} => After(op, "call") = "idle"
<1>1. After("health", "nodes") = "relations" /\ After("health", "relations") = "idle"
  <2>1. /\ DOMAIN Calls("health") = 1 .. 2 /\ Len(Calls("health")) = 2
        /\ Calls("health")[1] = "nodes" /\ Calls("health")[2] = "relations"
    BY CallsOf
  <2>. QED
    BY <2>1, AfterPlace
<1>2. After("apply", "preview") = "call" /\ After("apply", "call") = "idle"
  <2>1. /\ DOMAIN Calls("apply") = 1 .. 2 /\ Len(Calls("apply")) = 2
        /\ Calls("apply")[1] = "preview" /\ Calls("apply")[2] = "call"
    BY CallsOf
  <2>. QED
    BY <2>1, AfterPlace
<1>3. After("preview", "preview") = "idle"
  <2>1. /\ DOMAIN Calls("preview") = 1 .. 1 /\ Len(Calls("preview")) = 1
        /\ Calls("preview")[1] = "preview"
    BY CallsOf
  <2>. QED
    BY <2>1, AfterPlace
<1>4. ASSUME NEW op, op \notin {"health", "preview", "apply"}
      PROVE  After(op, "call") = "idle"
  <2>1. Calls(op) = <<"call">>
    BY <1>4, CallsOf
  <2>2. DOMAIN Calls(op) = 1 .. 1 /\ Len(Calls(op)) = 1 /\ Calls(op)[1] = "call"
    BY <2>1
  <2>. QED
    BY <2>2, AfterPlace
<1>. QED
  BY <1>1, <1>2, <1>3, <1>4


(* A step for one client leaves the requests of others where they are. *)
Apart(c) ==
  \A d \in Clients \ {c} :
    todo'[d] = todo[d] /\ stage'[d] = stage[d] /\ answer'[d] = answer[d]

(* The request is answered a. *)
Ended(c, a) ==
  /\ todo'[c] = Tail(todo[c]) /\ stage'[c] = "idle" /\ answer'[c] = a
  /\ mutex' = IF mutex = c THEN NoTask ELSE mutex

(* The request goes on with its next call. *)
Advanced(c, s) ==
  /\ todo'[c] = todo[c] /\ stage'[c] = s /\ answer'[c] = answer[c]
  /\ mutex' = mutex

LEMMA RequestOffered ==
  ASSUME RequestTypes, NEW c \in Clients, todo[c] # <<>>
  PROVE  Offered(c, Request(c))
BY DEF RequestTypes, Request

LEMMA TailShorter ==
  ASSUME RequestTypes, NEW c \in Clients, todo[c] # <<>>
  PROVE  /\ Tail(todo[c]) \in Seq(Requests) /\ Tail(todo[c]) # todo[c]
         /\ \A i \in DOMAIN Tail(todo[c]) : Offered(c, Tail(todo[c])[i])
<1>. DEFINE s == todo[c]
<1>1. s \in Seq(Requests) /\ \A i \in DOMAIN s : Offered(c, s[i])
  BY DEF RequestTypes
<1>2. /\ Tail(s) \in Seq(Requests) /\ Len(Tail(s)) = Len(s) - 1 /\ Len(s) \in Nat
      /\ \A i \in 1 .. Len(s) - 1 : Tail(s)[i] = s[i + 1]
  BY <1>1
<1>3. Tail(s) # s
  <2>1. Len(Tail(s)) # Len(s)
    BY <1>2
  <2>. QED
    BY <2>1, Zenon
<1>4. \A i \in DOMAIN Tail(s) : i + 1 \in DOMAIN s /\ Tail(s)[i] = s[i + 1]
  BY <1>1, <1>2
<1>. QED
  BY <1>1, <1>2, <1>3, <1>4

LEMMA EndsMove ==
  ASSUME RequestTypes, NEW c \in Clients, todo[c] # <<>>, NEW a, Ends(c, a)
  PROVE  RequestTypes' /\ Apart(c) /\ Ended(c, a)
<1>1. Apart(c) /\ Ended(c, a)
  BY DEF RequestTypes, Ends, Unlocked, Apart, Ended
<1>2. Tail(todo[c]) \in Seq(Requests)
      /\ \A i \in DOMAIN Tail(todo[c]) : Offered(c, Tail(todo[c])[i])
  BY TailShorter
<1>3. todo' \in [Clients -> Seq(Requests)] /\ stage' \in [Clients -> Stages]
  BY <1>2 DEF RequestTypes, Ends, Stages
<1>4. \A d \in Clients : \A i \in DOMAIN todo'[d] : Offered(d, todo'[d][i])
  BY <1>1, <1>2 DEF RequestTypes, Apart, Ended
<1>5. mutex' \in Tasks \cup {NoTask} /\ answer' = [d \in Clients |-> answer'[d]]
  BY DEF RequestTypes, Ends, Unlocked
<1>6. RequestTypes'
  BY <1>3, <1>4, <1>5 DEF RequestTypes
<1>. QED
  BY <1>1, <1>6

LEMMA AdvanceMove ==
  ASSUME RequestTypes, NEW c \in Clients, NEW s \in Stages,
         stage' = [stage EXCEPT ![c] = s], UNCHANGED <<todo, mutex, answer>>
  PROVE  RequestTypes' /\ Apart(c) /\ Advanced(c, s)
BY DEF RequestTypes, Apart, Advanced

LEMMA ReturnedMove ==
  ASSUME RequestTypes, NEW c \in Clients, todo[c] # <<>>, NEW s, NEW a, NEW e \in BOOLEAN,
         Returned(c, s, a, e), After(Request(c).op, s) \in Stages
  PROVE  /\ RequestTypes' /\ Apart(c)
         /\ \/ (e \/ After(Request(c).op, s) = "idle") /\ Ended(c, a)
            \/ /\ ~e /\ After(Request(c).op, s) # "idle"
               /\ Advanced(c, After(Request(c).op, s))
BY EndsMove, AdvanceMove DEF Returned

-----------------------------------------------------------------------------
(* The surfaces keep the ledger's promises.                                *)

(* Where the call of a request stands on its connection. *)
StageFits(c) ==
  LET k == Conn(c)  r == Request(c) IN
  /\ stage[c] \in {"nodes", "relations"} => r.op = "health"
  /\ stage[c] = "preview" =>
       /\ r.op \in {"preview", "apply"}
       /\ \/ phase[k] = "idle"
          \/ arg[k] = r.arg /\ phase[k] \in {"apply_check", "apply_write", "replay_ledger"}
  /\ stage[c] = "call" =>
       /\ r.op \notin {"health", "preview", "open", "close"}
       /\ \/ phase[k] = "idle"
          \/ arg[k] = r.arg /\ r.op = "apply" /\ phase[k] \in ApplyPhases
          \/ arg[k] = r.arg /\ r.op = "rollback" /\ phase[k] \in RollbackPhases

(* A request under way is valid, and only its last step commits. *)
UnderWay(c) ==
  stage[c] # "idle" =>
    todo[c] # <<>> /\ Request(c).arg # Invalid /\ commits[c] = 0 /\ StageFits(c)

LockHeld == \A t \in Tasks : stage[t] # "idle" <=> mutex = t

(* A connection only executes the call of a request. *)
Served ==
  \A k \in Connections :
    phase[k] # "idle" => \E c \in Clients : Conn(c) = k /\ stage[c] \in {"preview", "call"}

(* A rollback finds its bundle rolled back already only after a race. *)
RaceSeen(c) ==
  LET k == Conn(c) IN
  stage[c] = "call" /\ phase[k] \in RollbackPhases /\ arg[k] \in rolledBack => raced[c]

ClientsInv ==
  /\ CountedInv /\ RequestTypes /\ NoteTypes /\ LockHeld /\ Served
  /\ \A c \in Clients : UnderWay(c) /\ RaceSeen(c)

(* What every step for a client does to the rest ... *)
NotesApart(c) ==
  \A d \in Clients \ {c} :
    /\ commits'[d] = commits[d] /\ report'[d] = report[d]
    /\ raced'[d] = (raced[d] \/ (tables' # tables /\ stage[d] # "idle" /\ Conn(d) # Conn(c)))

Moved(c) ==
  /\ RequestTypes' /\ NoteTypes' /\ CountedInv'
  /\ Apart(c) /\ Beside(Conn(c)) /\ NotesApart(c)

(* ... and to the client itself. *)
OwnMove(c) ==
  /\ UnderWay(c)' /\ RaceSeen(c)'
  /\ \/ stage[c] = "idle" /\ UNCHANGED vars /\ (c \in Tasks => mutex = NoTask)
     \/ stage[c] # "idle" /\ (phase'[Conn(c)] # "idle" => stage'[c] \in {"preview", "call"})
  /\ mutex' = IF c \in Tasks THEN (IF stage'[c] = "idle" THEN NoTask ELSE c) ELSE mutex

(* A client at work is the only one on its connection. *)
LEMMA AloneAtWork ==
  ASSUME LockHeld, ClientsDistinct, NEW c \in Clients, NEW d \in Clients \ {c},
         Conn(c) = Conn(d), stage[d] # "idle"
  PROVE  c \in Tasks /\ mutex = d /\ d # NoTask /\ stage[c] = "idle"
<1>1. c \in Tasks /\ d \in Tasks
  BY ConnOfClients
<1>. QED
  BY <1>1 DEF LockHeld, ClientsDistinct

LEMMA MovesKeepInv ==
  ASSUME ClientsInv, NEW c \in Clients, Moved(c), OwnMove(c)
  PROVE  ClientsInv'
<1>. DEFINE k == Conn(c)
<1>0. /\ LockHeld /\ Served /\ k \in Connections /\ WellTyped
      /\ stage \in [Clients -> Stages] /\ mutex \in Tasks \cup {NoTask}
  BY ConnOfClients DEF ClientsInv, RequestTypes, CountedInv, StoreInv, LedgerInv
<1>1. LockHeld'
  <2>1. CASE c \in Tasks
    <3>1. mutex \in {NoTask, c}
      BY <1>0, <2>1 DEF OwnMove, LockHeld
    <3>. QED
      BY <1>0, <2>1, <3>1, ClientsDistinct DEF OwnMove, Moved, Apart, LockHeld, Clients
  <2>2. CASE c \notin Tasks
    BY <1>0, <2>2 DEF OwnMove, Moved, Apart, LockHeld, Clients
  <2>. QED
    BY <2>1, <2>2
<1>2. Served'
  <2>. SUFFICES ASSUME NEW j \in Connections, phase'[j] # "idle"
                PROVE  \E d \in Clients : Conn(d) = j /\ stage'[d] \in {"preview", "call"}
    BY DEF Served, Conn
  <2>1. CASE j # k \/ stage[c] = "idle"
    <3>1. phase[j] # "idle"
      BY <2>1 DEF OwnMove, Moved, Beside, vars
    <3>2. PICK d \in Clients : Conn(d) = j /\ stage[d] \in {"preview", "call"}
      BY <1>0, <3>1 DEF Served
    <3>3. d # c
      BY <2>1, <3>2
    <3>. QED
      BY <3>2, <3>3 DEF Moved, Apart
  <2>2. CASE j = k /\ stage[c] # "idle"
    BY <2>2 DEF OwnMove
  <2>. QED
    BY <2>1, <2>2
<1>3. ASSUME NEW d \in Clients \ {c} PROVE UnderWay(d)' /\ RaceSeen(d)'
  <2>1. CASE stage[d] = "idle"
    BY <2>1 DEF Moved, Apart, UnderWay, RaceSeen
  <2>2. CASE stage[d] # "idle"
    <3>1. Conn(d) # k
      BY <1>0, <2>2, AloneAtWork, ClientsDistinct DEF OwnMove
    <3>2. /\ phase'[Conn(d)] = phase[Conn(d)] /\ arg'[Conn(d)] = arg[Conn(d)]
          /\ todo'[d] = todo[d] /\ stage'[d] = stage[d] /\ commits'[d] = commits[d]
          /\ raced'[d] = (raced[d] \/ tables' # tables)
      BY <2>2, <3>1, ConnOfClients DEF Moved, Apart, NotesApart, Beside
    <3>3. UnderWay(d) /\ RaceSeen(d)
      BY DEF ClientsInv
    <3>4. UnderWay(d)'
      BY <3>2, <3>3 DEF UnderWay, StageFits, Request, Conn
    <3>5. rolledBack' # rolledBack => tables' # tables
      BY DEF tables, evidenceTables
    <3>6. RaceSeen(d)'
      BY <3>2, <3>3, <3>5 DEF RaceSeen, Conn
    <3>. QED
      BY <3>4, <3>6
  <2>. QED
    BY <2>1, <2>2
<1>4. UnderWay(c)' /\ RaceSeen(c)'
  BY DEF OwnMove
<1>. QED
  BY <1>1, <1>2, <1>3, <1>4 DEF ClientsInv, Moved

-----------------------------------------------------------------------------
(* What the steps of a client do.                                          *)

(* A request at work takes note of the transactions it commits. *)
Notes(c) ==
  /\ NoteTypes' /\ NotesApart(c) /\ raced'[c] = raced[c]
  /\ commits'[c] = (IF tables' # tables THEN commits[c] + 1 ELSE commits[c])

LEMMA NotedMove ==
  ASSUME NoteTypes, NEW c \in Clients, Noted(c),
         \/ UNCHANGED report
         \/ \E s \in Statuses : report' = [report EXCEPT ![c].status = s]
  PROVE  Notes(c)
<1>1. /\ commits' \in [Clients -> Nat] /\ raced' \in [Clients -> BOOLEAN]
      /\ commits'[c] = (IF tables' # tables THEN commits[c] + 1 ELSE commits[c])
      /\ raced'[c] = raced[c]
  BY DEF NoteTypes, Noted
<1>2. ASSUME NEW d \in Clients \ {c}
      PROVE  /\ commits'[d] = commits[d]
             /\ raced'[d] = (raced[d] \/ (tables' # tables /\ stage[d] # "idle" /\ Conn(d) # Conn(c)))
  BY <1>2 DEF NoteTypes, Noted
<1>3. /\ report' = [d \in Clients |-> [status |-> report'[d].status, nodes |-> report'[d].nodes,
                                       relations |-> report'[d].relations]]
      /\ \A d \in Clients : report'[d].status \in Statuses
      /\ \A d \in Clients \ {c} : report'[d] = report[d]
  BY DEF NoteTypes
<1>. QED
  BY <1>1, <1>2, <1>3 DEF Notes, NoteTypes, NotesApart

LEMMA UnnotedMove ==
  ASSUME NoteTypes, NEW c \in Clients, UNCHANGED <<tables, commits, raced>>,
         \/ \E n : report' = [report EXCEPT ![c].nodes = n]
         \/ \E n : report' = [report EXCEPT ![c].relations = n]
  PROVE  Notes(c)
<1>1. /\ report' = [d \in Clients |-> [status |-> report'[d].status, nodes |-> report'[d].nodes,
                                       relations |-> report'[d].relations]]
      /\ \A d \in Clients : report'[d].status \in Statuses
      /\ \A d \in Clients \ {c} : report'[d] = report[d]
  BY DEF NoteTypes
<1>. QED
  BY <1>1 DEF Notes, NoteTypes, NotesApart

LEMMA ForgottenMove ==
  ASSUME NoteTypes, NEW c \in Clients, Forgotten(c), UNCHANGED tables,
         UNCHANGED report \/ report' = [report EXCEPT ![c] = NoReport]
  PROVE  NoteTypes' /\ NotesApart(c) /\ commits'[c] = 0 /\ raced'[c] = FALSE
<1>1. /\ report' = [d \in Clients |-> [status |-> report'[d].status, nodes |-> report'[d].nodes,
                                       relations |-> report'[d].relations]]
      /\ \A d \in Clients : report'[d].status \in Statuses
      /\ \A d \in Clients \ {c} : report'[d] = report[d]
  BY DEF NoteTypes, NoReport, Statuses
<1>. QED
  BY <1>1 DEF NoteTypes, NotesApart, Forgotten

(* What a request is answered tells what it has committed. *)
Told(c) ==
  Answered(c) /\ answer'[c] # "none" =>
    /\ answer'[c] \in {"Applied", "Stored"} => commits'[c] = 1
    /\ answer'[c] = "RolledBack" => commits'[c] = 1 \/ (raced[c] /\ commits'[c] = 0)
    /\ answer'[c] \notin {"Applied", "Stored", "RolledBack"} => commits'[c] = 0

LEMMA NobodyOnConnection ==
  ASSUME ClientsInv, NEW c \in Clients, stage[c] \in {"nodes", "relations"}
  PROVE  phase[Conn(c)] = "idle"
BY ConnOfClients, AloneAtWork, ClientsDistinct DEF ClientsInv, Served

LEMMA WorkEnds ==
  ASSUME ClientsInv, NEW c \in Clients, stage[c] # "idle", Notes(c),
         CountedInv', Beside(Conn(c)), phase'[Conn(c)] = "idle",
         RequestTypes', Apart(c), NEW a, Ended(c, a)
  PROVE  Moved(c) /\ OwnMove(c)
<1>1. /\ LockHeld /\ mutex \in Tasks \cup {NoTask} /\ NoTask \notin Tasks
  BY ClientsDistinct DEF ClientsInv, RequestTypes
<1>2. mutex' = IF c \in Tasks THEN NoTask ELSE mutex
  BY <1>1 DEF LockHeld, Ended
<1>. QED
  BY <1>2 DEF Moved, OwnMove, Notes, Ended, UnderWay, RaceSeen

LEMMA WorkAdvances ==
  ASSUME ClientsInv, NEW c \in Clients, stage[c] # "idle", Notes(c), UNCHANGED tables,
         CountedInv', Beside(Conn(c)), phase'[Conn(c)] = "idle",
         RequestTypes', Apart(c), NEW s, s = After(Request(c).op, stage[c]), s # "idle",
         Advanced(c, s)
  PROVE  Moved(c) /\ OwnMove(c)
<1>1. /\ LockHeld /\ UnderWay(c) /\ stage[c] \in Stages
  BY DEF ClientsInv, RequestTypes
<1>2. \/ Request(c).op = "health" /\ s = "relations"
      \/ Request(c).op = "apply" /\ s = "call"
  BY <1>1, AfterStage DEF UnderWay, StageFits, Stages
<1>3. UnderWay(c)' /\ RaceSeen(c)'
  BY <1>1, <1>2 DEF UnderWay, RaceSeen, StageFits, Advanced, Notes, Request, Conn
<1>4. mutex' = IF c \in Tasks THEN c ELSE mutex
  BY <1>1 DEF LockHeld, Advanced
<1>. QED
  BY <1>2, <1>3, <1>4 DEF Moved, OwnMove, Notes, Advanced


(* A request begins: it is refused at once, or its first call is next. *)
LEMMA BeginEnds ==
  ASSUME ClientsInv, NEW c \in Clients, Ready(c), c \in Tasks => mutex = NoTask,
         UNCHANGED vars, Forgotten(c),
         UNCHANGED report \/ report' = [report EXCEPT ![c] = NoReport],
         NEW a \in {"Poisoned", "Validation", "failed", "Opened", "Closed", "ClosedError"}, Ends(c, a)
  PROVE  Moved(c) /\ OwnMove(c) /\ Told(c)
<1>0. /\ RequestTypes /\ NoteTypes /\ NoTask \notin Tasks
      /\ stage[c] = "idle" /\ todo[c] # <<>> /\ mutex \in Tasks \cup {NoTask}
  BY ClientsDistinct DEF ClientsInv, RequestTypes, Ready
<1>1. RequestTypes' /\ Apart(c) /\ Ended(c, a)
  BY <1>0, EndsMove
<1>2. UNCHANGED tables
  BY DEF vars, tables, evidenceTables, graphTables, feedbackTables
<1>3. NoteTypes' /\ NotesApart(c) /\ commits'[c] = 0
  BY <1>0, <1>2, ForgottenMove
<1>4. CountedInv' /\ Beside(Conn(c))
  BY NextStoreInv, NextFeedbackInv DEF ClientsInv, CountedInv, Beside, vars
<1>5. mutex' = IF c \in Tasks THEN NoTask ELSE mutex
  BY <1>0, <1>1 DEF Ended
<1>6. Told(c)
  BY <1>1, <1>3 DEF Told, Ended
<1>. QED
  BY <1>0, <1>1, <1>3, <1>4, <1>5, <1>6 DEF Moved, OwnMove, Ended, UnderWay, RaceSeen

LEMMA BeginGoes ==
  ASSUME ClientsInv, NEW c \in Clients, Ready(c), c \in Tasks => mutex = NoTask,
         UNCHANGED vars, Forgotten(c),
         UNCHANGED report \/ report' = [report EXCEPT ![c] = NoReport],
         Goes(c), UNCHANGED <<todo, answer>>, mutex' = (IF c \in Tasks THEN c ELSE mutex),
         Request(c).arg # Invalid, Request(c).op \notin {"open", "close"}
  PROVE  Moved(c) /\ OwnMove(c) /\ Told(c)
<1>. DEFINE op == Request(c).op
            s == Calls(op)[1]
<1>0. /\ RequestTypes /\ NoteTypes /\ LockHeld /\ Served /\ NoTask \notin Tasks
      /\ stage[c] = "idle" /\ todo[c] # <<>> /\ mutex \in Tasks \cup {NoTask}
  BY ClientsDistinct DEF ClientsInv, RequestTypes, Ready
<1>1. /\ op = "health" => s = "nodes"
      /\ op \in {"preview", "apply"} => s = "preview"
      /\ op \notin {"health", "preview", "apply"} => s = "call"
  BY CallsOf
<1>. HIDE DEF s
<1>2. s \in Stages \ {"idle"}
  BY <1>1 DEF Stages
<1>3. stage' = [stage EXCEPT ![c] = s]
  BY DEF Goes, s
<1>4. /\ RequestTypes' /\ Apart(c)
      /\ stage'[c] = s /\ todo'[c] = todo[c] /\ answer'[c] = answer[c]
  BY <1>0, <1>2, <1>3, Zenon DEF RequestTypes, Apart
<1>5. UNCHANGED tables
  BY DEF vars, tables, evidenceTables, graphTables, feedbackTables
<1>6. NoteTypes' /\ NotesApart(c) /\ commits'[c] = 0
  BY <1>0, <1>5, ForgottenMove
<1>7. CountedInv' /\ Beside(Conn(c))
  BY NextStoreInv, NextFeedbackInv DEF ClientsInv, CountedInv, Beside, vars
<1>8. phase[Conn(c)] = "idle" /\ phase' = phase
  BY <1>0, ConnOfClients, AloneAtWork, ClientsDistinct DEF Served, vars
<1>9. UnderWay(c)' /\ RaceSeen(c)'
  BY <1>0, <1>1, <1>4, <1>6, <1>8 DEF UnderWay, RaceSeen, StageFits, Request, Conn
<1>10. Told(c)
  BY <1>4 DEF Told, Answered
<1>. QED
  BY <1>0, <1>2, <1>4, <1>6, <1>7, <1>9, <1>10 DEF Moved, OwnMove

LEMMA BeginsMoves ==
  ASSUME ClientsInv, NEW c \in Clients, Begins(c)
  PROVE  Moved(c) /\ OwnMove(c) /\ Told(c)
<1>. DEFINE a == Request(c)
<1>0. /\ RequestTypes /\ mutex \in Tasks \cup {NoTask}
      /\ Tasks \cap Shells = {} /\ (Tasks \cup Shells) \cap Objects = {}
  BY ClientsDistinct DEF ClientsInv, RequestTypes
<1>1. Ready(c) /\ UNCHANGED vars /\ Forgotten(c)
      /\ (UNCHANGED report \/ report' = [report EXCEPT ![c] = NoReport])
  BY DEF Begins, Lock, Run, OpenObject, CloseObject, Invoke
<1>2. c \in Tasks => Lock(c) /\ mutex = NoTask
  BY <1>0 DEF Begins, Lock, Lockable
<1>3. \/ \E x \in {"Poisoned", "Validation", "failed", "Opened", "Closed", "ClosedError"} : Ends(c, x)
      \/ /\ Goes(c) /\ UNCHANGED <<todo, answer>> /\ a.arg # Invalid
         /\ mutex' = IF c \in Tasks THEN c ELSE mutex
         /\ c \in Objects => a.op \notin {"open", "close"}
  <2>1. CASE c \in Tasks /\ Lock(c)
    BY <1>0, <2>1, Zenon DEF Lock
  <2>2. CASE c \in Shells /\ Run(c)
    BY <1>0, <2>2 DEF Run
  <2>3. CASE c \in Objects /\ (OpenObject(c) \/ CloseObject(c))
    BY <2>3 DEF OpenObject, CloseObject
  <2>4. CASE c \in Objects /\ Invoke(c)
    BY <1>0, <2>4 DEF Invoke
  <2>. QED
    BY <2>1, <2>2, <2>3, <2>4 DEF Begins
<1>4. c \notin Objects => a.op \notin {"open", "close"}
  BY <1>0, <1>1, RequestOffered DEF Ready, Offered, Offers, Clients, Tools, ShellCommands
<1>. QED
  BY <1>1, <1>2, <1>3, <1>4, BeginEnds, BeginGoes


(* A call has returned, or the request was given up. *)
AnswerFits(c, a) ==
  /\ a \in {"Applied", "Stored"} => tables' # tables
  /\ a = "RolledBack" => tables' # tables \/ raced[c]
  /\ a \notin {"Applied", "Stored", "RolledBack"} => UNCHANGED tables

LEMMA WorkGivesUp ==
  ASSUME ClientsInv, NEW c \in Clients, stage[c] # "idle", Notes(c),
         CountedInv', Beside(Conn(c)), phase'[Conn(c)] = "idle",
         NEW a, AnswerFits(c, a), Ends(c, a)
  PROVE  Moved(c) /\ OwnMove(c) /\ Told(c)
<1>0. RequestTypes /\ todo[c] # <<>> /\ commits[c] = 0
  BY DEF ClientsInv, UnderWay
<1>1. RequestTypes' /\ Apart(c) /\ Ended(c, a)
  BY <1>0, EndsMove
<1>2. Moved(c) /\ OwnMove(c)
  BY <1>1, WorkEnds
<1>3. Told(c)
  BY <1>0, <1>1 DEF Told, Ended, Notes, AnswerFits
<1>. QED
  BY <1>2, <1>3

LEMMA WorkReturns ==
  ASSUME ClientsInv, NEW c \in Clients, stage[c] # "idle", Notes(c),
         CountedInv', Beside(Conn(c)), phase'[Conn(c)] = "idle",
         NEW a, AnswerFits(c, a), NEW e \in BOOLEAN, Returned(c, stage[c], a, e),
         stage[c] # "call" => UNCHANGED tables
  PROVE  Moved(c) /\ OwnMove(c) /\ Told(c)
<1>. DEFINE s == After(Request(c).op, stage[c])
<1>0. /\ RequestTypes /\ todo[c] # <<>> /\ commits[c] = 0 /\ StageFits(c)
      /\ stage[c] \in Stages
  BY DEF ClientsInv, UnderWay, RequestTypes
<1>1. s \in Stages /\ (stage[c] = "call" => s = "idle")
  BY <1>0, AfterStage DEF StageFits, Stages
<1>. HIDE DEF s
<1>2. CASE e \/ s = "idle"
  <2>1. Ends(c, a)
    BY <1>2 DEF Returned, s
  <2>. QED
    BY <2>1, WorkGivesUp
<1>3. CASE ~e /\ s # "idle"
  <2>1. stage' = [stage EXCEPT ![c] = s] /\ UNCHANGED <<todo, mutex, answer>>
    BY <1>3 DEF Returned, s
  <2>2. RequestTypes' /\ Apart(c) /\ Advanced(c, s)
    BY <1>0, <1>1, <2>1, AdvanceMove
  <2>3. UNCHANGED tables
    BY <1>1, <1>3
  <2>4. Moved(c) /\ OwnMove(c)
    BY <1>3, <2>2, <2>3, WorkAdvances DEF s
  <2>5. Told(c)
    BY <2>2 DEF Told, Answered, Advanced
  <2>. QED
    BY <2>4, <2>5
<1>. QED
  BY <1>2, <1>3

LEMMA CountsMoves ==
  ASSUME ClientsInv, NEW c \in Clients, CountNodes(c) \/ CountRelations(c)
  PROVE  Moved(c) /\ OwnMove(c) /\ Told(c)
<1>0. stage[c] \in {"nodes", "relations"} /\ Returned(c, stage[c], "Counted", FALSE)
      /\ UNCHANGED vars /\ UNCHANGED <<commits, raced>> /\ NoteTypes
  BY DEF ClientsInv, CountNodes, CountRelations
<1>1. UNCHANGED tables
  BY <1>0 DEF vars, tables, evidenceTables, graphTables, feedbackTables
<1>2. Notes(c)
  BY <1>0, <1>1, UnnotedMove DEF CountNodes, CountRelations
<1>3. CountedInv' /\ Beside(Conn(c)) /\ phase'[Conn(c)] = "idle"
  BY <1>0, NextStoreInv, NextFeedbackInv, NobodyOnConnection
  DEF ClientsInv, CountedInv, Beside, vars
<1>4. AnswerFits(c, "Counted")
  BY <1>1 DEF AnswerFits
<1>. QED
  BY <1>0, <1>1, <1>2, <1>3, <1>4, WorkReturns

(* The call goes on. *)
LEMMA WorkGoesOn ==
  ASSUME ClientsInv, NEW c \in Clients, stage[c] # "idle", Notes(c), UNCHANGED tables,
         CountedInv', Beside(Conn(c)), UNCHANGED <<todo, stage, mutex, answer>>,
         arg'[Conn(c)] = Request(c).arg,
         \/ /\ stage[c] = "preview"
            /\ phase'[Conn(c)] \in {"apply_check", "apply_write", "replay_ledger"}
         \/ /\ stage[c] = "call" /\ Request(c).op = "apply"
            /\ phase'[Conn(c)] \in ApplyPhases
         \/ /\ stage[c] = "call" /\ Request(c).op = "rollback"
            /\ phase'[Conn(c)] \in RollbackPhases
            /\ Request(c).arg \in rolledBack => phase[Conn(c)] \in RollbackPhases
  PROVE  Moved(c) /\ OwnMove(c) /\ Told(c)
<1>0. RequestTypes /\ LockHeld /\ UnderWay(c) /\ RaceSeen(c)
  BY DEF ClientsInv
<1>1. RequestTypes' /\ Apart(c)
  BY <1>0 DEF RequestTypes, Apart
<1>2. commits'[c] = commits[c] /\ raced'[c] = raced[c] /\ rolledBack' = rolledBack
  BY DEF Notes, tables, evidenceTables
<1>3. UnderWay(c)'
  BY <1>0, <1>2 DEF UnderWay, StageFits, Request, Conn
<1>4. RaceSeen(c)'
  BY <1>0, <1>2 DEF RaceSeen, UnderWay, StageFits, Request, Conn
<1>5. mutex' = IF c \in Tasks THEN (IF stage'[c] = "idle" THEN NoTask ELSE c) ELSE mutex
  BY <1>0 DEF LockHeld
<1>6. Moved(c)
  BY <1>1 DEF Moved, Notes
<1>7. OwnMove(c)
  BY <1>3, <1>4, <1>5 DEF OwnMove
<1>8. Told(c)
  BY DEF Told, Answered
<1>. QED
  BY <1>6, <1>7, <1>8


LEMMA PreviewsMove ==
  ASSUME ClientsInv, NEW c \in Clients, Preview(c)
  PROVE  Moved(c) /\ OwnMove(c) /\ Told(c)
<1>. DEFINE k == Conn(c)
            b == Request(c).arg
<1>0. /\ CountedInv /\ RequestTypes /\ NoteTypes /\ UnderWay(c) /\ k \in Connections
      /\ stage[c] = "preview" /\ todo[c] # <<>>
  BY ConnOfClients DEF ClientsInv, Preview, UnderWay
<1>1. b \in Bundles
  BY <1>0, RequestOffered DEF UnderWay, StageFits, Offered, AsksFor
<1>2. ApplyLookup(k, b) \/ (ApplyCheck(k) /\ arg[k] = b)
  BY <1>0 DEF Preview, Performs, UnderWay, StageFits
<1>3. Notes(c)
  BY <1>0, NotedMove DEF Preview, Performs
<1>4. /\ UNCHANGED tables /\ Beside(k) /\ CountedInv'
      /\ \/ /\ reply' = "none" /\ arg'[k] = b
            /\ phase'[k] \in {"apply_check", "apply_write", "replay_ledger"}
         \/ /\ reply' \notin Successes \cup {"none", "Counted"}
            /\ phase'[k] = "idle"
  BY <1>0, <1>1, <1>2, PreviewMoves
<1>5. CASE reply' = "none"
  <2>1. UNCHANGED <<todo, stage, mutex, answer>>
    BY <1>5 DEF Preview, Performs
  <2>. QED
    BY <1>0, <1>3, <1>4, <1>5, <2>1, WorkGoesOn
<1>6. CASE reply' # "none"
  <2>1. Returned(c, stage[c], reply', reply' \notin Successes)
    BY <1>6 DEF Preview, Performs
  <2>2. AnswerFits(c, reply')
    BY <1>4, <1>6 DEF AnswerFits, Successes
  <2>3. (reply' \notin Successes) \in BOOLEAN
    OBVIOUS
  <2>. QED
    BY <1>0, <1>3, <1>4, <1>6, <2>1, <2>2, <2>3, WorkReturns
<1>. QED
  BY <1>5, <1>6

LEMMA PreviewedMoves ==
  ASSUME ClientsInv, NEW c \in Clients, Previewed(c)
  PROVE  Moved(c) /\ OwnMove(c) /\ Told(c)
<1>. DEFINE k == Conn(c)
            s == PreviewStatus(k)
<1>0. /\ CountedInv /\ ControlOK /\ NoteTypes /\ k \in Connections /\ stage[c] = "preview"
      /\ s \in {"new", "idempotent_replay"}
  BY ConnOfClients
  DEF ClientsInv, CountedInv, StoreInv, LedgerInv, WellTyped, Previewed, PreviewStatus
<1>. HIDE DEF s
<1>1. /\ Refuse(k, s) /\ Returned(c, "preview", s, FALSE) /\ Noted(c)
      /\ report' = [report EXCEPT ![c].status = s]
  BY DEF Previewed, s
<1>2. Notes(c)
  BY <1>0, <1>1, NotedMove DEF Statuses
<1>3. CountedInv' /\ Beside(k) /\ phase'[k] = "idle" /\ UNCHANGED tables
  BY <1>0, <1>1, RefuseKeeps, ReturnMove DEF Refuse
<1>4. AnswerFits(c, s)
  BY <1>0, <1>3 DEF AnswerFits
<1>. QED
  BY <1>0, <1>1, <1>2, <1>3, <1>4, WorkReturns

LEMMA CallReplies ==
  ASSUME ClientsInv, NEW c \in Clients, Call(c)
  PROVE  /\ Beside(Conn(c)) /\ CountedInv'
         /\ GoesOn(Conn(c), Request(c)) \/ Replied(Conn(c))
<1>. DEFINE k == Conn(c)
            r == Request(c)
<1>0. /\ CountedInv /\ RequestTypes /\ UnderWay(c) /\ k \in Connections
      /\ stage[c] = "call" /\ todo[c] # <<>> /\ StageFits(c)
      /\ r.arg # Invalid /\ AsksFor(r)
  BY ConnOfClients, RequestOffered DEF ClientsInv, Call, UnderWay, Offered
<1>1. CASE phase[k] = "idle"
  <2>1. Enters(c)
    BY <1>1 DEF Call, Performs
  <2>2. CASE \/ r.op = "add" /\ AddNodes(k, 1)
             \/ r.op = "link" /\ AddRelations(k, {r.arg})
             \/ r.op = "feedback" /\ RecordFeedback(k, r.arg, TRUE)
    BY <1>0, <2>2, GraphCalls
  <2>3. CASE r.op = "get" /\ Refuse(k, IF r.arg \in nodes THEN "Found" ELSE "NotFound")
    <3>1. PICK a \in {"Found", "NotFound"} : Refuse(k, a)
      BY <2>3
    <3>. QED
      BY <1>0, <3>1, ReadOnlyReply
  <2>4. CASE r.op = "apply" /\ ApplyLookup(k, r.arg)
    <3>1. r.arg \in Bundles
      BY <1>0, <2>4 DEF AsksFor
    <3>. QED
      BY <1>0, <2>4, <3>1, ApplyCalls
  <2>5. CASE r.op = "rollback" /\ RollbackLookup(k, r.arg)
    <3>1. r.arg \in Keys
      BY <1>0, <2>5 DEF AsksFor
    <3>. QED
      BY <1>0, <2>5, <3>1, RollbackCalls
  <2>. QED
    BY <2>1, <2>2, <2>3, <2>4, <2>5 DEF Enters
<1>2. CASE phase[k] # "idle"
  <2>1. Proceeds(k) /\ arg[k] = r.arg
    BY <1>0, <1>2 DEF Call, Performs, StageFits
  <2>2. CASE ApplyCheck(k) \/ ApplyWrite(k) \/ ReplayLedger(k) \/ ReplayItems(k)
    <3>1. phase[k] \in ApplyPhases
      BY <2>2 DEF ApplyCheck, ApplyWrite, ReplayLedger, ReplayItems
    <3>2. r.op = "apply" /\ r.arg \in Bundles
      BY <1>0, <3>1 DEF StageFits, AsksFor
    <3>. QED
      BY <1>0, <2>1, <2>2, <3>2, ApplyCalls
  <2>3. CASE RollbackEvidenceCheck(k) \/ RollbackGraphCheck(k) \/ RollbackWrite(k)
    <3>1. phase[k] \in RollbackPhases
      BY <2>3 DEF RollbackEvidenceCheck, RollbackGraphCheck, RollbackWrite
    <3>2. r.op = "rollback" /\ r.arg \in Keys
      BY <1>0, <3>1 DEF StageFits, AsksFor
    <3>. QED
      BY <1>0, <2>1, <2>3, <3>2, RollbackCalls
  <2>. QED
    BY <2>1, <2>2, <2>3 DEF Proceeds
<1>. QED
  BY <1>1, <1>2

LEMMA CallMoves ==
  ASSUME ClientsInv, NEW c \in Clients, Call(c)
  PROVE  Moved(c) /\ OwnMove(c) /\ Told(c)
<1>. DEFINE k == Conn(c)
            r == Request(c)
<1>0. NoteTypes /\ UnderWay(c) /\ RaceSeen(c) /\ stage[c] = "call"
  BY DEF ClientsInv, Call
<1>1. Beside(k) /\ CountedInv' /\ (GoesOn(k, r) \/ Replied(k))
  BY CallReplies
<1>2. Notes(c)
  BY <1>0, NotedMove DEF Call, Performs
<1>3. CASE GoesOn(k, r)
  <2>1. UNCHANGED <<todo, stage, mutex, answer>>
    BY <1>3 DEF GoesOn, Call, Performs
  <2>. QED
    BY <1>0, <1>1, <1>2, <1>3, <2>1, WorkGoesOn DEF GoesOn
<1>4. CASE Replied(k)
  <2>1. Returned(c, stage[c], reply', reply' \notin Successes)
    BY <1>4 DEF Replied, Call, Performs
  <2>2. AnswerFits(c, reply')
    BY <1>0, <1>4 DEF AnswerFits, Replied, ReplyFits, RaceSeen
  <2>3. (reply' \notin Successes) \in BOOLEAN
    OBVIOUS
  <2>. QED
    BY <1>0, <1>1, <1>2, <1>4, <2>1, <2>2, <2>3, WorkReturns DEF Replied
<1>. QED
  BY <1>1, <1>3, <1>4

LEMMA FailsMoves ==
  ASSUME ClientsInv, NEW c \in Clients, Fails(c) \/ (c \in Tasks /\ Panic(c))
  PROVE  Moved(c) /\ OwnMove(c) /\ Told(c)
<1>. DEFINE k == Conn(c)
<1>0. /\ CountedInv /\ ControlOK /\ NoteTypes /\ k \in Connections /\ stage[c] # "idle"
  BY ConnOfClients
  DEF ClientsInv, CountedInv, StoreInv, LedgerInv, WellTyped, Fails, Panic
<1>1. PICK a \in {"failed", "none"} : Ends(c, a)
  BY DEF Fails, Panic
<1>2. Refuse(k, "failed") /\ Noted(c) /\ UNCHANGED report
  BY DEF Fails, Panic, Conn
<1>3. Notes(c)
  BY <1>0, <1>2, NotedMove
<1>4. CountedInv' /\ Beside(k) /\ phase'[k] = "idle" /\ UNCHANGED tables
  BY <1>0, <1>2, RefuseKeeps, ReturnMove DEF Refuse
<1>5. AnswerFits(c, a)
  BY <1>4 DEF AnswerFits
<1>. QED
  BY <1>0, <1>1, <1>3, <1>4, <1>5, WorkGivesUp


-----------------------------------------------------------------------------
(* The invariant and what follows from it.                                 *)

LEMMA SomebodyMoves ==
  ASSUME ClientsInv, ClientsNext
  PROVE  \E c \in Clients : Moved(c) /\ OwnMove(c) /\ Told(c)
<1>1. PICK c \in Clients : Begins(c) \/ Works(c) \/ Fails(c) \/ (c \in Tasks /\ Panic(c))
  BY DEF ClientsNext
<1>2. CASE Begins(c)
  BY <1>2, BeginsMoves
<1>3. CASE CountNodes(c) \/ CountRelations(c)
  BY <1>3, CountsMoves
<1>4. CASE Preview(c)
  BY <1>4, PreviewsMove
<1>5. CASE Previewed(c)
  BY <1>5, PreviewedMoves
<1>6. CASE Call(c)
  BY <1>6, CallMoves
<1>7. CASE Fails(c) \/ (c \in Tasks /\ Panic(c))
  BY <1>7, FailsMoves
<1>. QED
  BY <1>1, <1>2, <1>3, <1>4, <1>5, <1>6, <1>7 DEF Works

LEMMA ClientsInitInv == ClientsInit => ClientsInv
<1>. SUFFICES ASSUME ClientsInit PROVE ClientsInv
  OBVIOUS
<1>1. CountedInv
  <2>1. Init
    BY DEF ClientsInit
  <2>2. FeedbackInv
    BY <2>1, FS_EmptySet DEF Init, FeedbackInv, EventsNumbered, FeedbackCountExact
  <2>. QED
    BY <2>1, <2>2, InitLedgerInv, InitGraphInv DEF CountedInv, StoreInv
<1>2. PICK plan \in Plans : todo = plan
  BY DEF ClientsInit
<1>3. /\ todo \in [Clients -> Seq(Requests)]
      /\ \A c \in Clients : \A i \in DOMAIN todo[c] : Offered(c, todo[c][i])
  BY <1>2, PlansOffered DEF Offered
<1>4. RequestTypes /\ NoteTypes
  BY <1>3 DEF ClientsInit, RequestTypes, NoteTypes, Stages, Statuses, NoReport
<1>5. \A c \in Clients : stage[c] = "idle"
  BY DEF ClientsInit
<1>6. LockHeld
  BY <1>5, ClientsDistinct DEF LockHeld, ClientsInit, Clients
<1>7. Served
  BY DEF ClientsInit, Init, Served
<1>. QED
  BY <1>1, <1>4, <1>5, <1>6, <1>7 DEF ClientsInv, UnderWay, RaceSeen

LEMMA StutterClients == ClientsInv /\ UNCHANGED clientVars => ClientsInv'
<1>. SUFFICES ASSUME ClientsInv, UNCHANGED clientVars PROVE ClientsInv'
  OBVIOUS
<1>0. UNCHANGED vars /\ UNCHANGED <<todo, stage, mutex, answer, report, commits, raced>>
  BY DEF clientVars, surfaces
<1>1. CountedInv'
  BY <1>0, NextStoreInv, NextFeedbackInv DEF ClientsInv, CountedInv
<1>2. RequestTypes' /\ NoteTypes' /\ LockHeld'
  BY <1>0 DEF ClientsInv, RequestTypes, NoteTypes, LockHeld
<1>3. Served'
  BY <1>0 DEF ClientsInv, Served, vars, Conn
<1>4. \A c \in Clients : UnderWay(c)' /\ RaceSeen(c)'
  BY <1>0 DEF ClientsInv, UnderWay, RaceSeen, StageFits, Request, vars, Conn
<1>. QED
  BY <1>1, <1>2, <1>3, <1>4 DEF ClientsInv

LEMMA ClientsNextInv == ClientsInv /\ [ClientsNext]_clientVars => ClientsInv'
<1>1. ASSUME ClientsInv, ClientsNext PROVE ClientsInv'
  BY <1>1, SomebodyMoves, MovesKeepInv
<1>. QED
  BY <1>1, StutterClients

(* The surfaces' inductive invariant holds for any number of clients and    *)
(* any plans: a task is at work only under the lock, a connection executes  *)
(* only the call of the request being answered, with its argument, and a    *)
(* request has committed nothing before its last step.                      *)
THEOREM ClientsInvariant == ClientsSpec => []ClientsInv
BY ClientsInitInv, ClientsNextInv, PTL DEF ClientsSpec

(* Only the task with the lock is at work, and with the shared connection   *)
(* (memory3d-mcp/main.rs:66-86).                                            *)
THEOREM LockAlwaysExclusive == ClientsSpec => []ClientsTypeOK
<1>1. ClientsInv => ClientsTypeOK
  BY DEF ClientsInv, ClientsTypeOK, RequestTypes, LockHeld, UnderWay, Served
<1>. QED
  BY <1>1, ClientsInvariant, PTL

(* Every promise of the ledger survives its surfaces: whatever the server,  *)
(* commands and objects call in whatever order, fail and panic, the tables  *)
(* stay all-or-nothing, complete and exactly counted.                       *)
THEOREM SurfacesKeepLedger ==
  ClientsSpec => []( /\ BundlesAllOrNothing /\ ReferencesResolve
                     /\ ProjectionComplete /\ NothingDangles /\ FeedbackCountExact )
<1>1. ClientsInv => /\ BundlesAllOrNothing /\ ReferencesResolve
                    /\ ProjectionComplete /\ NothingDangles /\ FeedbackCountExact
  BY DEF ClientsInv, CountedInv, StoreInv, LedgerInv, GraphInv, FeedbackInv
<1>. QED
  BY <1>1, ClientsInvariant, PTL

(* A request that reports an error has changed nothing, so that it can be   *)
(* tried again; one that reports a write has committed it, once; a rollback *)
(* that did not was raced by another process (evidence.rs:1330-1398).       *)
THEOREM AnswersAlwaysTell == ClientsSpec => AnswersTellEffects
<1>1. ASSUME ClientsInv, [ClientsNext]_clientVars
      PROVE  [\A c \in Clients : Told(c)]_clientVars
  <2>1. CASE ClientsNext
    <3>1. PICK c \in Clients : Moved(c) /\ Told(c)
      BY <1>1, <2>1, SomebodyMoves
    <3>2. \A d \in Clients \ {c} : ~Answered(d)
      BY <3>1 DEF Moved, Apart, Answered
    <3>. QED
      BY <3>1, <3>2 DEF Told
  <2>. QED
    BY <1>1, <2>1
<1>2. [\A c \in Clients : Told(c)]_clientVars
      <=> [\A c \in Clients : Answered(c) /\ answer'[c] # "none" =>
             /\ answer'[c] \in {"Applied", "Stored"} => commits'[c] = 1
             /\ answer'[c] = "RolledBack" => commits'[c] = 1 \/ (raced[c] /\ commits'[c] = 0)
             /\ answer'[c] \notin {"Applied", "Stored", "RolledBack"} => commits'[c] = 0]_clientVars
  BY DEF Told
<1>. QED
  BY <1>1, <1>2, ClientsInvariant, PTL DEF ClientsSpec, AnswersTellEffects


(* The tables keep the promise of the ledger to every client of every       *)
(* surface: to them each step is one Apply, one Rollback or nothing         *)
(* (EvidencePromise).                                                       *)
THEOREM SurfacesKeepPromise == ClientsSpec => KeepsPromise
<1>1. ClientsInit => Promise!Init
  BY DEF ClientsInit, Init, Promise!Init
<1>2. ASSUME ClientsInv, [ClientsNext]_clientVars
      PROVE  [Promise!Next]_<<ledger, rolledBack>>
  <2>0. \A c \in Clients : Conn(c) \in Connections
    BY ConnOfClients
  <2>1. CASE [Next]_vars
    BY <1>2, <2>1, PromisedStep DEF ClientsInv, CountedInv, StoreInv
  <2>2. CASE UNCHANGED clientVars
    BY <2>2 DEF clientVars, vars
  <2>3. ASSUME NEW c \in Clients, Begins(c)
        PROVE  UNCHANGED vars
    BY <2>3 DEF Begins, Lock, Run, OpenObject, CloseObject, Invoke
  <2>4. ASSUME NEW c \in Clients,
               \/ CountNodes(c) \/ CountRelations(c) \/ Preview(c) \/ Previewed(c)
               \/ Fails(c) \/ Panic(c)
        PROVE  UNCHANGED <<ledger, rolledBack>>
    BY <2>4
    DEF CountNodes, CountRelations, Preview, Previewed, Fails, Panic, Performs, Refuse,
        ApplyLookup, ApplyCheck, vars, tables, evidenceTables
  <2>5. ASSUME NEW c \in Clients, Call(c)
        PROVE  UNCHANGED <<ledger, rolledBack>> \/ [Next]_vars
    <3>1. CASE Enters(c)
      BY <3>1
      DEF Enters, AddNodes, AddRelations, RecordFeedback, Refuse, ApplyLookup, RollbackLookup,
          tables, evidenceTables
    <3>2. CASE Proceeds(Conn(c))
      BY <2>0, <3>2 DEF Proceeds, Next, ApplyStep, RollbackStep
    <3>. QED
      BY <2>5, <3>1, <3>2 DEF Call, Performs
  <2>. QED
    BY <1>2, <2>1, <2>2, <2>3, <2>4, <2>5 DEF ClientsNext, Works
<1>. QED
  BY <1>1, <1>2, ClientsInvariant, PTL DEF ClientsSpec, KeepsPromise, Promise!Spec

-----------------------------------------------------------------------------
(* What one request of the server reports is of one moment.                *)

(* What apply_evidence_bundle looks up before it writes, or replays. *)
Applicable(b) ==
  /\ ledger[b.key] = NoBundle
  /\ \A e \in b.items : ~ActiveEvidence(e)
  /\ \A r \in b.refs : Resolved(b, r)

Replayable(b) == ledger[b.key] = b /\ b.key \notin rolledBack

(* What the call on a connection has found so far is so. *)
FoundSo(k) ==
  LET b == arg[k] IN
  /\ phase[k] = "apply_check" =>
       /\ ledger[b.key] = NoBundle
       /\ \A e \in b.items \ pending[k] : ~ActiveEvidence(e)
       /\ \A r \in b.refs \ pending[k] : Resolved(b, r)
  /\ phase[k] = "apply_write" => Applicable(b)
  /\ phase[k] = "replay_ledger" => Replayable(b)

LEMMA SameTables ==
  ASSUME UNCHANGED tables
  PROVE  /\ \A b : Applicable(b)' <=> Applicable(b)
         /\ \A b : Replayable(b)' <=> Replayable(b)
         /\ \A b, r : Resolved(b, r)' <=> Resolved(b, r)
         /\ \A e : ActiveEvidence(e)' <=> ActiveEvidence(e)
         /\ ledger' = ledger /\ nodes' = nodes /\ relations' = relations
BY DEF tables, evidenceTables, graphTables, Applicable, Replayable, Resolved,
       ReferenceNotFound, GroupMismatch, TargetGroup, ConflictGroup, ActiveEvidence, Stored

LEMMA LookupFinds ==
  ASSUME ControlOK, NEW k \in Connections, NEW b \in Bundles, ApplyLookup(k, b)
  PROVE  FoundSo(k)'
<1>1. UNCHANGED tables
  BY DEF ApplyLookup
<1>2. CASE ledger[b.key] = NoBundle /\ Enter(k, "apply_check", b)
  <2>1. Reads("apply_check", b) = b.items \cup b.refs
    BY Zenon DEF Reads
  <2>2. phase'[k] = "apply_check" /\ arg'[k] = b /\ pending'[k] = b.items \cup b.refs
    BY <1>2, <2>1, EnterMove
  <2>. QED
    BY <1>1, <1>2, <2>2, SameTables DEF FoundSo
<1>3. CASE Replayable(b) /\ Enter(k, "replay_ledger", b)
  <2>1. phase'[k] = "replay_ledger" /\ arg'[k] = b
    BY <1>3, EnterMove
  <2>. QED
    BY <1>1, <1>3, <2>1, SameTables DEF FoundSo
<1>4. ASSUME NEW a, Return(k, a) PROVE FoundSo(k)'
  <2>1. phase'[k] = "idle"
    BY <1>4, ReturnMove
  <2>. QED
    BY <2>1 DEF FoundSo
<1>. QED
  BY <1>2, <1>3, <1>4 DEF ApplyLookup, Replayable

LEMMA PassedFinds ==
  ASSUME ControlOK, NEW k \in Connections, FoundSo(k), phase[k] = "apply_check",
         arg[k] \in Bundles, UNCHANGED tables, NEW x, Passed(k, x, "apply_write"),
         x \in arg[k].items => ~ActiveEvidence(x),
         x \in arg[k].refs => Resolved(arg[k], x)
  PROVE  FoundSo(k)'
<1>. DEFINE b == arg[k]
<1>1. /\ ledger[b.key] = NoBundle
      /\ \A e \in b.items \ (pending[k] \ {x}) : ~ActiveEvidence(e)
      /\ \A r \in b.refs \ (pending[k] \ {x}) : Resolved(b, r)
  BY DEF FoundSo
<1>2. CASE pending[k] \subseteq {x} /\ Enter(k, "apply_write", b)
  <2>1. phase'[k] = "apply_write" /\ arg'[k] = b
    BY <1>2, EnterMove
  <2>2. Applicable(b)
    BY <1>1, <1>2 DEF Applicable
  <2>. QED
    BY <2>1, <2>2, SameTables DEF FoundSo
<1>3. CASE pending' = [pending EXCEPT ![k] = @ \ {x}] /\ UNCHANGED <<phase, arg>>
  <2>1. pending'[k] = pending[k] \ {x} /\ phase'[k] = "apply_check" /\ arg'[k] = b
    BY <1>3 DEF ControlOK
  <2>. QED
    BY <1>1, <2>1, SameTables DEF FoundSo
<1>. QED
  BY <1>2, <1>3 DEF Passed

LEMMA CheckFinds ==
  ASSUME ControlOK, NEW k \in Connections, FoundSo(k), ApplyCheck(k)
  PROVE  FoundSo(k)'
<1>0. phase[k] = "apply_check" /\ arg[k] \in Bundles /\ UNCHANGED tables
  BY DEF ApplyCheck, ControlOK
<1>1. arg[k].items \subseteq EvidenceIds /\ arg[k].refs \subseteq Reference
  BY <1>0, BundleFacts
<1>2. ASSUME NEW a, Return(k, a) PROVE FoundSo(k)'
  <2>1. phase'[k] = "idle"
    BY <1>2, ReturnMove
  <2>. QED
    BY <2>1 DEF FoundSo
<1>3. ASSUME NEW e \in arg[k].items, CheckItem(k, e) PROVE FoundSo(k)'
  <2>1. e \notin arg[k].refs
    BY <1>1, IdsAreNotReferences
  <2>. QED
    BY <1>0, <1>2, <1>3, <2>1, PassedFinds DEF CheckItem
<1>4. ASSUME NEW r \in arg[k].refs, CheckReference(k, r) PROVE FoundSo(k)'
  <2>1. r \notin arg[k].items
    BY <1>1, IdsAreNotReferences
  <2>. QED
    BY <1>0, <1>2, <1>4, <2>1, PassedFinds DEF CheckReference, Resolved
<1>. QED
  BY <1>3, <1>4 DEF ApplyCheck


(* An apply of an applicable bundle comes to its write, and applies it. *)
LEMMA NewIsApplied ==
  ASSUME CountedInv, NEW k \in Connections, NEW b \in Bundles, Applicable(b),
         \/ ApplyLookup(k, b)
         \/ arg[k] = b /\ (ApplyCheck(k) \/ ApplyWrite(k))
  PROVE  \/ /\ reply' = "none" /\ UNCHANGED tables
            /\ arg'[k] = b /\ phase'[k] \in {"apply_check", "apply_write"}
         \/ reply' = "Applied"
<1>0. ControlOK /\ TablesOK /\ BundlesAllOrNothing
  BY DEF CountedInv, StoreInv, LedgerInv, WellTyped
<1>1. b.key \in Keys /\ b.items \subseteq EvidenceIds /\ b.refs \subseteq Reference /\ b # NoBundle
  BY BundleFacts, SentinelsDistinct
<1>2. CASE ApplyLookup(k, b)
  <2>1. Enter(k, "apply_check", b) /\ UNCHANGED tables
    BY <1>1, <1>2 DEF ApplyLookup, Applicable
  <2>. QED
    BY <1>0, <2>1, EnterMove
<1>3. CASE arg[k] = b /\ ApplyCheck(k)
  <2>1. PICK x : Passed(k, x, "apply_write")
    BY <1>3 DEF ApplyCheck, CheckItem, CheckReference, Applicable, Resolved
  <2>2. UNCHANGED tables /\ phase[k] = "apply_check"
    BY <1>3 DEF ApplyCheck
  <2>. QED
    BY <1>0, <1>3, <2>1, <2>2, PassedMove
<1>4. CASE arg[k] = b /\ ApplyWrite(k)
  <2>1. \A e \in EvidenceIds : Stored(e) => ActiveEvidence(e)
    BY <1>0 DEF TablesOK, BundlesAllOrNothing, Active, Stored, ActiveEvidence
  <2>2. \A r \in b.refs : r.target \in EvidenceIds
    BY <1>1 DEF Reference
  <2>3. ~ApplyViolatesConstraint(b)
    BY <1>1, <2>1, <2>2
    DEF Applicable, ApplyViolatesConstraint, Resolved, ReferenceNotFound, ActiveEvidence
  <2>. QED
    BY <1>4, <2>3 DEF ApplyWrite, Return
<1>. QED
  BY <1>2, <1>3, <1>4

(* An apply of a bundle that is stored and active replays it. *)
LEMMA StoredIsReplayed ==
  ASSUME ControlOK, NEW k \in Connections, NEW b \in Bundles, Replayable(b),
         \/ ApplyLookup(k, b)
         \/ arg[k] = b /\ (ReplayLedger(k) \/ ReplayItems(k))
  PROVE  \/ /\ reply' = "none" /\ UNCHANGED tables
            /\ arg'[k] = b /\ phase'[k] \in {"replay_ledger", "replay_items"}
         \/ reply' = "Replayed"
<1>0. b # NoBundle
  BY SentinelsDistinct
<1>1. CASE ApplyLookup(k, b)
  <2>1. Enter(k, "replay_ledger", b) /\ UNCHANGED tables
    BY <1>0, <1>1 DEF ApplyLookup, Replayable
  <2>. QED
    BY <2>1, EnterMove
<1>2. CASE arg[k] = b /\ ReplayLedger(k)
  <2>1. Enter(k, "replay_items", b) /\ UNCHANGED tables
    BY <1>2 DEF ReplayLedger, Replayable
  <2>. QED
    BY <2>1, EnterMove
<1>3. CASE arg[k] = b /\ ReplayItems(k)
  BY <1>3 DEF ReplayItems, Refuse, Return
<1>. QED
  BY <1>1, <1>2, <1>3

(* What a request under way has found out holds, unless it was raced. *)
Moment(t) ==
  LET k == Conn(t)  b == Request(t).arg IN
  stage[t] # "idle" /\ ~raced[t] =>
    /\ stage[t] = "relations" => report[t].nodes = Cardinality(nodes)
    /\ stage[t] = "preview" => report[t].status = "none" /\ FoundSo(k)
    /\ stage[t] = "call" /\ Request(t).op = "apply" =>
         \/ /\ report[t].status = "new" /\ Applicable(b)
            /\ phase[k] \in {"idle", "apply_check", "apply_write"}
         \/ /\ report[t].status = "idempotent_replay" /\ Replayable(b)
            /\ phase[k] \in {"idle", "replay_ledger", "replay_items"}

OneMoment(t) ==
  Answered(t) /\ ~raced[t] =>
    /\ answer'[t] = "Counted" =>
         report'[t].nodes = Cardinality(nodes) /\ report'[t].relations = Cardinality(relations)
    /\ answer'[t] = "Applied" => report'[t].status = "new"
    /\ answer'[t] = "Replayed" => report'[t].status = "idempotent_replay"
    /\ Request(t).op = "apply" /\ report'[t].status # "none" =>
         answer'[t] \in {"Applied", "Replayed", "failed", "none"}

MomentInv == ClientsInv /\ \A t \in Tasks : Moment(t)

(* Others cannot spoil it unnoticed. *)
LEMMA MomentStays ==
  ASSUME ClientsInv, NEW c \in Clients, Moved(c), OwnMove(c),
         NEW t \in Clients \ {c}, Moment(t)
  PROVE  Moment(t)'
<1>. SUFFICES ASSUME stage'[t] # "idle", ~raced'[t] PROVE Moment(t)'
  BY DEF Moment
<1>1. /\ stage'[t] = stage[t] /\ todo'[t] = todo[t] /\ report'[t] = report[t]
      /\ raced'[t] = (raced[t] \/ (tables' # tables /\ stage[t] # "idle" /\ Conn(t) # Conn(c)))
      /\ Conn(t) \in Connections /\ raced[t] \in BOOLEAN
  BY ConnOfClients DEF Moved, Apart, NotesApart, ClientsInv, NoteTypes
<1>2. UNCHANGED tables /\ phase'[Conn(t)] = phase[Conn(t)] /\ arg'[Conn(t)] = arg[Conn(t)]
      /\ pending'[Conn(t)] = pending[Conn(t)]
  <2>1. CASE Conn(t) = Conn(c)
    <3>1. stage[c] = "idle"
      BY <1>1, <2>1, AloneAtWork, ClientsDistinct DEF ClientsInv
    <3>. QED
      BY <3>1 DEF OwnMove, vars, tables, evidenceTables, graphTables, feedbackTables
  <2>2. CASE Conn(t) # Conn(c)
    BY <1>1, <2>2 DEF Moved, Beside
  <2>. QED
    BY <2>1, <2>2
<1>3. FoundSo(Conn(t)) => FoundSo(Conn(t))'
  BY <1>2, SameTables DEF FoundSo, Conn
<1>4. ~raced[t] /\ Moment(t)
  BY <1>1
<1>. QED
  BY <1>1, <1>2, <1>3, <1>4, SameTables DEF Moment, Request, Conn


LEMMA MomentEnded ==
  ASSUME NEW t, NEW a, Ended(t, a), OneMoment(t) PROVE Moment(t)' /\ OneMoment(t)
BY DEF Ended, Moment

LEMMA MomentBegins ==
  ASSUME ClientsInv, NEW t \in Tasks, Begins(t)
  PROVE  Moment(t)' /\ OneMoment(t)
<1>0. /\ t \in Clients /\ RequestTypes /\ NoteTypes /\ Served /\ NoTask \notin Tasks
      /\ Lock(t) /\ todo[t] # <<>> /\ mutex = NoTask /\ stage[t] = "idle"
  BY ClientsDistinct DEF ClientsInv, Begins, Lock, Lockable, Ready, Clients
<1>1. report'[t].status = "none"
  BY <1>0 DEF Lock, NoteTypes, NoReport
<1>2. ASSUME NEW a \in {"Poisoned", "Validation"}, Ends(t, a)
      PROVE  Moment(t)' /\ OneMoment(t)
  <2>1. Ended(t, a)
    BY <1>0, <1>2, EndsMove
  <2>. QED
    BY <1>1, <2>1, MomentEnded DEF OneMoment, Ended
<1>3. CASE Goes(t) /\ UNCHANGED <<todo, answer>>
  <2>. DEFINE op == Request(t).op
              s == Calls(op)[1]
  <2>1. /\ op = "health" => s = "nodes"
        /\ op \in {"preview", "apply"} => s = "preview"
        /\ op \notin {"health", "preview", "apply"} => s = "call"
    BY CallsOf
  <2>2. stage'[t] = s
    BY <1>0, <1>3 DEF Goes, RequestTypes
  <2>. HIDE DEF s
  <2>3. phase'[Conn(t)] = "idle"
    BY <1>0, ConnOfClients, AloneAtWork, ClientsDistinct DEF ClientsInv, Served, Lock, vars
  <2>4. FoundSo(Conn(t))'
    BY <2>3 DEF FoundSo, Conn
  <2>5. Moment(t)'
    BY <1>1, <1>3, <2>1, <2>2, <2>4 DEF Moment, Request, Conn
  <2>. QED
    BY <1>3, <2>5 DEF OneMoment, Answered
<1>. QED
  BY <1>0, <1>2, <1>3 DEF Lock

LEMMA MomentCounts ==
  ASSUME MomentInv, NEW t \in Tasks, CountNodes(t) \/ CountRelations(t)
  PROVE  Moment(t)' /\ OneMoment(t)
<1>0. /\ t \in Clients /\ ClientsInv /\ RequestTypes /\ NoteTypes /\ UnderWay(t) /\ Moment(t)
      /\ todo[t] # <<>> /\ UNCHANGED vars /\ UNCHANGED raced
  BY DEF MomentInv, ClientsInv, UnderWay, CountNodes, CountRelations, Clients
<1>1. Request(t).op = "health"
  BY <1>0 DEF UnderWay, StageFits, CountNodes, CountRelations
<1>2. nodes' = nodes /\ relations' = relations
  BY <1>0 DEF vars
<1>3. CASE CountNodes(t)
  <2>1. report'[t].nodes = Cardinality(nodes)
    BY <1>0, <1>3 DEF CountNodes, NoteTypes
  <2>2. stage' = [stage EXCEPT ![t] = "relations"] /\ UNCHANGED <<todo, mutex, answer>>
    BY <1>1, <1>3, AfterStage DEF CountNodes, Returned
  <2>3. stage'[t] = "relations"
    BY <1>0, <2>2 DEF RequestTypes
  <2>. QED
    BY <1>2, <2>1, <2>2, <2>3 DEF Moment, OneMoment, Answered
<1>4. CASE CountRelations(t)
  <2>1. /\ report'[t].relations = Cardinality(relations)
        /\ report'[t].nodes = report[t].nodes
    BY <1>0, <1>4 DEF CountRelations, NoteTypes
  <2>2. Ends(t, "Counted")
    BY <1>1, <1>4, AfterStage DEF CountRelations, Returned
  <2>3. Ended(t, "Counted")
    BY <1>0, <2>2, EndsMove
  <2>4. OneMoment(t)
    BY <1>0, <1>1, <1>4, <2>1, <2>3 DEF OneMoment, Ended, Moment, CountRelations
  <2>. QED
    BY <2>3, <2>4, MomentEnded
<1>. QED
  BY <1>3, <1>4

LEMMA MomentPreviews ==
  ASSUME MomentInv, NEW t \in Tasks, Preview(t)
  PROVE  Moment(t)' /\ OneMoment(t)
<1>. DEFINE k == Conn(t)
            b == Request(t).arg
<1>0. /\ t \in Clients /\ ClientsInv /\ CountedInv /\ ControlOK /\ RequestTypes /\ NoteTypes
      /\ UnderWay(t) /\ Moment(t) /\ k \in Connections /\ stage[t] = "preview" /\ todo[t] # <<>>
  BY ConnOfClients
  DEF MomentInv, ClientsInv, CountedInv, StoreInv, LedgerInv, WellTyped, UnderWay, Preview, Clients
<1>1. b \in Bundles
  BY <1>0, RequestOffered DEF UnderWay, StageFits, Offered, AsksFor
<1>2. ApplyLookup(k, b) \/ (ApplyCheck(k) /\ arg[k] = b)
  BY <1>0 DEF Preview, Performs, UnderWay, StageFits
<1>3. report' = report /\ UNCHANGED tables
  BY <1>2 DEF Preview, Performs, ApplyLookup, ApplyCheck
<1>4. raced'[t] = raced[t]
  BY <1>0, NotedMove DEF Preview, Performs, Notes
<1>5. CASE reply' = "none"
  <2>1. UNCHANGED <<todo, stage, mutex, answer>>
    BY <1>5 DEF Preview, Performs
  <2>2. FoundSo(k) => FoundSo(k)'
    BY <1>0, <1>1, <1>2, LookupFinds, CheckFinds
  <2>3. Moment(t)'
    BY <1>0, <1>3, <1>4, <2>1, <2>2 DEF Moment, Conn
  <2>. QED
    BY <2>1, <2>3 DEF OneMoment, Answered
<1>6. CASE reply' # "none"
  <2>1. reply' \notin Successes \cup {"Counted"}
    BY <1>0, <1>1, <1>2, <1>6, PreviewMoves
  <2>2. Ends(t, reply')
    BY <1>6, <2>1 DEF Preview, Performs, Returned
  <2>3. Ended(t, reply')
    BY <1>0, <2>2, EndsMove
  <2>4. OneMoment(t)
    BY <1>0, <1>3, <2>1, <2>3 DEF OneMoment, Ended, Moment, Successes
  <2>. QED
    BY <2>3, <2>4, MomentEnded
<1>. QED
  BY <1>5, <1>6

LEMMA MomentPreviewed ==
  ASSUME MomentInv, NEW t \in Tasks, Previewed(t)
  PROVE  Moment(t)' /\ OneMoment(t)
<1>. DEFINE k == Conn(t)
            b == Request(t).arg
            s == PreviewStatus(k)
<1>0. /\ t \in Clients /\ ClientsInv /\ ControlOK /\ RequestTypes /\ NoteTypes
      /\ UnderWay(t) /\ Moment(t) /\ k \in Connections /\ stage[t] = "preview" /\ todo[t] # <<>>
  BY ConnOfClients
  DEF MomentInv, ClientsInv, CountedInv, StoreInv, LedgerInv, WellTyped, UnderWay, Previewed, Clients
<1>1. /\ \/ phase[k] = "apply_write" /\ s = "new"
         \/ phase[k] = "replay_ledger" /\ s = "idempotent_replay"
      /\ arg[k] = b /\ Request(t).op \in {"preview", "apply"}
  <2>1. phase[k] \in {"apply_write", "replay_ledger"}
    BY DEF Previewed
  <2>. QED
    BY <1>0, <2>1 DEF PreviewStatus, UnderWay, StageFits
<1>. HIDE DEF s
<1>2. /\ Refuse(k, s) /\ Returned(t, "preview", s, FALSE) /\ Noted(t)
      /\ report' = [report EXCEPT ![t].status = s]
  BY DEF Previewed, s
<1>3. UNCHANGED tables /\ phase'[k] = "idle" /\ report'[t].status = s
  BY <1>0, <1>2, ReturnMove DEF Refuse, NoteTypes
<1>4. raced'[t] = raced[t]
  BY <1>0, <1>1, <1>2, NotedMove DEF Notes, Statuses
<1>5. CASE Request(t).op = "preview"
  <2>1. Ends(t, s)
    BY <1>2, <1>5, AfterStage DEF Returned
  <2>2. Ended(t, s)
    BY <1>0, <2>1, EndsMove
  <2>3. OneMoment(t)
    BY <1>1, <1>5, <2>2 DEF OneMoment, Ended
  <2>. QED
    BY <2>2, <2>3, MomentEnded
<1>6. CASE Request(t).op = "apply"
  <2>1. stage' = [stage EXCEPT ![t] = "call"] /\ UNCHANGED <<todo, mutex, answer>>
    BY <1>2, <1>6, AfterStage DEF Returned
  <2>2. stage'[t] = "call"
    BY <1>0, <2>1 DEF RequestTypes
  <2>3. ~raced[t] => (s = "new" /\ Applicable(b)) \/ (s = "idempotent_replay" /\ Replayable(b))
    BY <1>0, <1>1 DEF Moment, FoundSo
  <2>4. Moment(t)'
    BY <1>3, <1>4, <2>1, <2>2, <2>3, SameTables DEF Moment, Request, Conn
  <2>. QED
    BY <2>1, <2>4 DEF OneMoment, Answered
<1>. QED
  BY <1>1, <1>5, <1>6


(* Only an apply is answered as one. *)
LEMMA OnlyAppliesApply ==
  ASSUME ClientsInv, NEW c \in Clients, Call(c), Request(c).op # "apply"
  PROVE  reply' \notin {"Applied", "Replayed"}
<1>. DEFINE k == Conn(c)
<1>0. StageFits(c) /\ stage[c] = "call"
  BY DEF ClientsInv, UnderWay, Call
<1>1. CASE Enters(c)
  BY <1>1
  DEF Enters, AddNodes, AddRelations, RecordFeedback, RollbackLookup, Refuse, Return, Enter
<1>2. CASE phase[k] # "idle" /\ Proceeds(k)
  <2>1. phase[k] \in RollbackPhases
    BY <1>0, <1>2 DEF StageFits
  <2>2. RollbackEvidenceCheck(k) \/ RollbackGraphCheck(k) \/ RollbackWrite(k)
    BY <1>2, <2>1 DEF Proceeds, ApplyCheck, ApplyWrite, ReplayLedger, ReplayItems
  <2>. QED
    BY <2>2
    DEF RollbackEvidenceCheck, RollbackGraphCheck, RollbackWrite, Refuse, Return, Passed, Enter
<1>. QED
  BY <1>1, <1>2 DEF Call, Performs

(* The call goes on as the request has found out, and nothing has changed. *)
FoundStill(t) ==
  LET k == Conn(t)  b == Request(t).arg IN
  /\ UNCHANGED tables
  /\ \/ /\ report[t].status = "new" /\ Applicable(b)
        /\ phase'[k] \in {"apply_check", "apply_write"}
     \/ /\ report[t].status = "idempotent_replay" /\ Replayable(b)
        /\ phase'[k] \in {"replay_ledger", "replay_items"}

(* The call of an apply does what was found out before it. *)
LEMMA ApplyAsFound ==
  ASSUME MomentInv, NEW t \in Tasks, Call(t), Request(t).op = "apply", ~raced[t]
  PROVE  /\ report[t].status \in {"new", "idempotent_replay"}
         /\ \/ reply' = "none" /\ FoundStill(t)
            \/ reply' = "Applied" /\ report[t].status = "new"
            \/ reply' = "Replayed" /\ report[t].status = "idempotent_replay"
<1>. DEFINE k == Conn(t)
            b == Request(t).arg
<1>0. /\ t \in Clients /\ CountedInv /\ ControlOK /\ UnderWay(t) /\ Moment(t)
      /\ k \in Connections /\ stage[t] = "call" /\ StageFits(t)
  BY ConnOfClients
  DEF MomentInv, ClientsInv, CountedInv, StoreInv, LedgerInv, WellTyped, UnderWay, Call, Clients
<1>1. b \in Bundles
  BY <1>0, RequestOffered DEF MomentInv, ClientsInv, UnderWay, Offered, AsksFor
<1>2. \/ phase[k] = "idle" /\ ApplyLookup(k, b)
      \/ phase[k] # "idle" /\ arg[k] = b /\ Proceeds(k)
  BY <1>0 DEF Call, Performs, Enters, StageFits
<1>3. CASE /\ report[t].status = "new" /\ Applicable(b)
           /\ phase[k] \in {"idle", "apply_check", "apply_write"}
  <2>1. ApplyLookup(k, b) \/ (arg[k] = b /\ (ApplyCheck(k) \/ ApplyWrite(k)))
    BY <1>2, <1>3
    DEF Proceeds, ReplayLedger, ReplayItems, RollbackEvidenceCheck, RollbackGraphCheck,
        RollbackWrite
  <2>2. \/ /\ reply' = "none" /\ UNCHANGED tables
           /\ arg'[k] = b /\ phase'[k] \in {"apply_check", "apply_write"}
        \/ reply' = "Applied"
    BY <1>0, <1>1, <1>3, <2>1, NewIsApplied
  <2>. QED
    BY <1>3, <2>2 DEF FoundStill
<1>4. CASE /\ report[t].status = "idempotent_replay" /\ Replayable(b)
           /\ phase[k] \in {"idle", "replay_ledger", "replay_items"}
  <2>1. ApplyLookup(k, b) \/ (arg[k] = b /\ (ReplayLedger(k) \/ ReplayItems(k)))
    BY <1>2, <1>4
    DEF Proceeds, ApplyCheck, ApplyWrite, RollbackEvidenceCheck, RollbackGraphCheck,
        RollbackWrite
  <2>2. \/ /\ reply' = "none" /\ UNCHANGED tables
           /\ arg'[k] = b /\ phase'[k] \in {"replay_ledger", "replay_items"}
        \/ reply' = "Replayed"
    BY <1>0, <1>1, <1>4, <2>1, StoredIsReplayed
  <2>. QED
    BY <1>4, <2>2 DEF FoundStill
<1>. QED
  BY <1>0, <1>3, <1>4 DEF Moment

LEMMA MomentCalls ==
  ASSUME MomentInv, NEW t \in Tasks, Call(t)
  PROVE  Moment(t)' /\ OneMoment(t)
<1>. DEFINE k == Conn(t)
            r == Request(t)
<1>0. /\ t \in Clients /\ ClientsInv /\ RequestTypes /\ NoteTypes /\ UnderWay(t) /\ Moment(t)
      /\ stage[t] = "call" /\ todo[t] # <<>> /\ StageFits(t) /\ UNCHANGED report
  BY DEF MomentInv, ClientsInv, UnderWay, Call, Performs, Clients
<1>1. raced'[t] = raced[t]
  BY <1>0, NotedMove DEF Call, Performs, Notes
<1>2. CASE reply' = "none"
  <2>1. UNCHANGED <<todo, stage, mutex, answer>>
    BY <1>2 DEF Call, Performs
  <2>2. r.op = "apply" /\ ~raced[t] => FoundStill(t)
    BY <1>0, <1>2, ApplyAsFound
  <2>3. Moment(t)'
    BY <1>0, <1>1, <2>1, <2>2, SameTables DEF Moment, FoundStill, Request, Conn
  <2>. QED
    BY <2>1, <2>3 DEF OneMoment, Answered
<1>3. CASE reply' # "none"
  <2>1. After(r.op, "call") = "idle"
    BY <1>0, AfterStage DEF StageFits
  <2>2. Ends(t, reply')
    BY <1>0, <1>3, <2>1 DEF Call, Performs, Returned
  <2>3. Ended(t, reply')
    BY <1>0, <2>2, EndsMove
  <2>4. reply' # "Counted"
    BY <1>0, <1>3, CallReplies DEF GoesOn, Replied, ReplyFits
  <2>5. OneMoment(t)
    BY <1>0, <1>3, <2>3, <2>4, OnlyAppliesApply, ApplyAsFound DEF OneMoment, Ended
  <2>. QED
    BY <2>3, <2>5, MomentEnded
<1>. QED
  BY <1>2, <1>3

LEMMA MomentFails ==
  ASSUME MomentInv, NEW t \in Tasks, Fails(t) \/ Panic(t)
  PROVE  Moment(t)' /\ OneMoment(t)
<1>0. t \in Clients /\ RequestTypes /\ todo[t] # <<>>
  BY DEF MomentInv, ClientsInv, UnderWay, Fails, Panic, Clients
<1>1. PICK a \in {"failed", "none"} : Ends(t, a)
  BY DEF Fails, Panic
<1>2. Ended(t, a)
  BY <1>0, <1>1, EndsMove
<1>3. OneMoment(t)
  BY <1>2 DEF OneMoment, Ended
<1>. QED
  BY <1>2, <1>3, MomentEnded

LEMMA TaskMoments ==
  ASSUME MomentInv, ClientsNext
  PROVE  \A t \in Tasks : Moment(t)' /\ OneMoment(t)
<1>0. ClientsInv /\ Tasks \subseteq Clients
  BY DEF MomentInv, Clients
<1>1. PICK c \in Clients : Begins(c) \/ Works(c) \/ Fails(c) \/ (c \in Tasks /\ Panic(c))
  BY DEF ClientsNext
<1>2. Moved(c) /\ OwnMove(c)
  <2>1. CASE Begins(c)
    BY <1>0, <2>1, BeginsMoves
  <2>2. CASE CountNodes(c) \/ CountRelations(c)
    BY <1>0, <2>2, CountsMoves
  <2>3. CASE Preview(c) \/ Previewed(c)
    BY <1>0, <2>3, PreviewsMove, PreviewedMoves
  <2>4. CASE Call(c)
    BY <1>0, <2>4, CallMoves
  <2>5. CASE Fails(c) \/ (c \in Tasks /\ Panic(c))
    BY <1>0, <2>5, FailsMoves
  <2>. QED
    BY <1>1, <2>1, <2>2, <2>3, <2>4, <2>5 DEF Works
<1>3. ASSUME NEW t \in Tasks, t = c PROVE Moment(t)' /\ OneMoment(t)
  BY <1>0, <1>1, <1>3, MomentBegins, MomentCounts, MomentPreviews, MomentPreviewed, MomentCalls,
     MomentFails
  DEF Works
<1>4. ASSUME NEW t \in Tasks, t # c PROVE Moment(t)' /\ OneMoment(t)
  <2>1. Moment(t)'
    BY <1>0, <1>2, <1>4, MomentStays DEF MomentInv
  <2>2. ~Answered(t)
    BY <1>0, <1>2, <1>4 DEF Moved, Apart, Answered
  <2>. QED
    BY <2>1, <2>2 DEF OneMoment
<1>. QED
  BY <1>3, <1>4

LEMMA MomentNext == MomentInv /\ [ClientsNext]_clientVars => MomentInv'
<1>1. ASSUME MomentInv, ClientsNext PROVE MomentInv'
  BY <1>1, ClientsNextInv, TaskMoments DEF MomentInv
<1>2. ASSUME MomentInv, UNCHANGED clientVars PROVE MomentInv'
  <2>1. UNCHANGED vars /\ UNCHANGED <<todo, stage, report, raced>>
    BY <1>2 DEF clientVars, surfaces
  <2>2. UNCHANGED tables /\ UNCHANGED <<phase, arg, pending>>
    BY <2>1 DEF vars, tables, evidenceTables, graphTables, feedbackTables
  <2>3. \A t \in Tasks : FoundSo(Conn(t)) => FoundSo(Conn(t))'
    BY <2>2, SameTables DEF FoundSo, Conn
  <2>4. \A t \in Tasks : Moment(t)'
    BY <1>2, <2>1, <2>2, <2>3, SameTables DEF MomentInv, Moment, Request, Conn
  <2>. QED
    BY <1>2, <2>4, ClientsNextInv DEF MomentInv
<1>. QED
  BY <1>1, <1>2

(* What one request of the server reports is true of one moment, although   *)
(* it takes two calls, for any number of tasks and processes: the counts    *)
(* belong together, and evidence_apply does what its preview status says.   *)
(* Only a commit of another process can spoil it, never another request     *)
(* (memory3d-mcp/main.rs:66-86, 93-107, 212-228).                           *)
THEOREM ServerAlwaysReportsOneMoment == ClientsSpec => ServerReportsOneMoment
<1>1. ClientsInit => MomentInv
  <2>1. ClientsInit => \A t \in Tasks : stage[t] = "idle"
    BY DEF ClientsInit, Clients
  <2>. QED
    BY <2>1, ClientsInitInv DEF MomentInv, Moment
<1>2. ASSUME MomentInv, [ClientsNext]_clientVars
      PROVE  [\A t \in Tasks : OneMoment(t)]_clientVars
  BY <1>2, TaskMoments
<1>3. [\A t \in Tasks : OneMoment(t)]_clientVars
      <=> [\A t \in Tasks : Answered(t) /\ ~raced[t] =>
             /\ answer'[t] = "Counted" =>
                  report'[t].nodes = Cardinality(nodes) /\ report'[t].relations = Cardinality(relations)
             /\ answer'[t] = "Applied" => report'[t].status = "new"
             /\ answer'[t] = "Replayed" => report'[t].status = "idempotent_replay"
             /\ Request(t).op = "apply" /\ report'[t].status # "none" =>
                  answer'[t] \in {"Applied", "Replayed", "failed", "none"}]_clientVars
  BY DEF OneMoment
<1>. QED
  BY <1>1, <1>2, <1>3, MomentNext, PTL DEF ClientsSpec, ServerReportsOneMoment
=============================================================================
