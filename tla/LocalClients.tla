----------------------------- MODULE LocalClients -----------------------------
(***************************************************************************)
(* The surfaces of memory3d on one database: the tasks of the MCP server,  *)
(* which share one Repository behind a mutex; command-line processes, each *)
(* with a Repository of its own for one command; and Python Memory objects,*)
(* which hold one until they are closed.                                   *)
(*                                                                         *)
(* A request becomes one or two calls of the repository, and those are the *)
(* calls of EvidenceLedger, step for step.  This module adds what the      *)
(* surfaces do around them: locking, the order of their checks, what they  *)
(* answer, panics and a closed object.                                     *)
(***************************************************************************)
EXTENDS EvidenceLedger, Sequences

CONSTANTS
  Tasks,    \* tasks of the MCP server, each answering its requests in turn
  Server,   \* the connection they share
  Shells,   \* command-line processes
  Objects,  \* Memory objects, each used by one thread
  NoTask,
  Invalid,  \* an argument its type does not accept
  Plans     \* the requests of every client

Clients == Tasks \cup Shells \cup Objects

(* Names of tools, commands and methods; "health" stands for "info" too. *)
Tools == {"health", "add", "link", "get", "preview", "apply", "rollback"}
ShellCommands == Tools \cup {"feedback"}
Methods == {"open", "close", "add", "link", "get"}

Offers(c) == IF c \in Tasks THEN Tools ELSE IF c \in Shells THEN ShellCommands ELSE Methods

ASSUME ConnectionsOfClients == Connections = {Server} \cup Shells \cup Objects
ASSUME ClientsDistinct ==
  /\ NoTask \notin Tasks
  /\ (Tasks \cup {Server}) \cap (Shells \cup Objects) = {}
  /\ Shells \cap Objects = {}

(* What an operation is asked with: a value of its type, or an invalid one. *)
AsksFor(r) ==
  \/ r.arg = Invalid
  \/ r.op \in {"preview", "apply"} /\ r.arg \in Bundles
  \/ r.op = "rollback" /\ r.arg \in Keys
  \/ r.op = "link" /\ r.arg \in Relation /\ r.arg.name \in OrdinaryNames
  \/ r.op = "feedback" /\ r.arg \in Relation
  \/ r.op = "get" /\ r.arg \in Nat
  \/ r.op \in {"health", "add", "open", "close"} /\ r.arg = NoArg

Requests == UNION {{plan[c][i] : i \in DOMAIN plan[c]} : plan \in Plans, c \in Clients}

ASSUME PlansOffered ==
  \A plan \in Plans :
    /\ plan \in [Clients -> Seq(Requests)]
    /\ \A c \in Clients : \A i \in DOMAIN plan[c] :
         plan[c][i].op \in Offers(c) /\ AsksFor(plan[c][i])

VARIABLES
  todo,     \* the requests of a client, its current one first
  stage,    \* where the current one stands
  mutex,    \* the task that has locked the repository
  poisoned, \* whether a task has panicked with the lock
  closed,   \* the Memory objects that are closed
  report,   \* what the current request has found out so far
  answer,   \* what the last one was answered
  commits,  \* for the properties: transactions the current request committed
  raced     \* for the properties: whether another process committed meanwhile

surfaces == <<todo, stage, mutex, poisoned, closed, report, answer, commits, raced>>
clientVars == <<vars, surfaces>>

Conn(c) == IF c \in Tasks THEN Server ELSE c
Request(c) == Head(todo[c])

NoReport == [status |-> "none", nodes |-> 0, relations |-> 0]

ClientsInit ==
  /\ Init
  /\ todo \in Plans
  /\ stage = [c \in Clients |-> "idle"]
  /\ mutex = NoTask
  /\ poisoned = FALSE
  /\ closed = Objects
  /\ report = [c \in Clients |-> NoReport]
  /\ answer = [c \in Clients |-> "none"]
  /\ commits = [c \in Clients |-> 0]
  /\ raced = [c \in Clients |-> FALSE]

-----------------------------------------------------------------------------
(* What the current request and those it runs beside notice of a step.      *)
Noted(c) ==
  LET wrote == tables' # tables IN
  /\ commits' = [commits EXCEPT ![c] = IF wrote THEN @ + 1 ELSE @]
  /\ raced' = [d \in Clients |->
                 raced[d] \/ (wrote /\ stage[d] # "idle" /\ Conn(d) # Conn(c))]

Forgotten(c) ==
  /\ commits' = [commits EXCEPT ![c] = 0]
  /\ raced' = [raced EXCEPT ![c] = FALSE]

(* Mutant: a request that ends in an error keeps the lock. *)
KeptOnError(c, a) == IF mutex = c /\ a # "failed" THEN NoTask ELSE mutex

(* The guard goes out of scope. *)
Unlocked(c, a) == IF mutex = c THEN NoTask ELSE mutex

Ends(c, a) ==
  /\ answer' = [answer EXCEPT ![c] = a]
  /\ todo' = [todo EXCEPT ![c] = Tail(@)]
  /\ stage' = [stage EXCEPT ![c] = "idle"]
  /\ mutex' = Unlocked(c, a)

(* The calls of a request, one after the other.                             *)

(* Mutant: evidence_apply looks for the status after it has applied. *)
PreviewLast(op) ==
  CASE op = "health" -> <<"nodes", "relations">>
    [] op = "preview" -> <<"preview">>
    [] op = "apply" -> <<"call", "preview">>
    [] OTHER -> <<"call">>

Calls(op) ==
  CASE op = "health" -> <<"nodes", "relations">>
    [] op = "preview" -> <<"preview">>
    [] op = "apply" -> <<"preview", "call">>
    [] OTHER -> <<"call">>

After(op, s) == LET i == CHOOSE i \in DOMAIN Calls(op) : Calls(op)[i] = s IN
                IF i < Len(Calls(op)) THEN Calls(op)[i + 1] ELSE "idle"

(* The call of stage s has returned a: the next one begins, or the request  *)
(* is answered.  An error ends it.                                          *)
Returned(c, s, a, isError) ==
  LET next == After(Request(c).op, s) IN
  IF isError \/ next = "idle"
  THEN Ends(c, a)
  ELSE /\ stage' = [stage EXCEPT ![c] = next]
       /\ UNCHANGED <<todo, mutex, answer>>

-----------------------------------------------------------------------------
(* A request begins.                                                        *)
Goes(c) == stage' = [stage EXCEPT ![c] = Calls(Request(c).op)[1]]

Ready(c) == stage[c] = "idle" /\ todo[c] # <<>>

(* Mutant: every call of the repository locks for itself. *)
LockedByCall == TRUE

Lockable == mutex = NoTask

(* with_repository, with_repository_mut: arguments are only looked at under *)
(* the lock.                                                                *)
Lock(t) ==
  /\ Ready(t) /\ Lockable
  /\ IF poisoned THEN Ends(t, "Poisoned")
     ELSE IF Request(t).arg = Invalid THEN Ends(t, "Validation")
     ELSE mutex' = t /\ Goes(t) /\ UNCHANGED <<todo, answer>>
  /\ Forgotten(t)
  /\ report' = [report EXCEPT ![t] = NoReport]
  /\ UNCHANGED <<vars, poisoned, closed>>

(* What a command has checked when it opens the database: the bundle it has *)
(* read, the ID it looks for.  Numbers and missing options are too, but not *)
(* kinds, texts, names, weights, strengths and keys.                        *)
ReadFirst == {"preview", "apply", "get"}

(* A command opens the database, which may fail (and may have created or    *)
(* migrated the file, see DatabaseFile, when an argument is refused).       *)
Run(s) ==
  /\ Ready(s)
  /\ LET invalid == Request(s).arg = Invalid IN
     \/ invalid /\ Ends(s, "Validation")
     \/ ~(invalid /\ Request(s).op \in ReadFirst) /\ Ends(s, "failed")
     \/ ~invalid /\ Goes(s) /\ UNCHANGED <<todo, mutex, answer>>
  /\ Forgotten(s)
  /\ report' = [report EXCEPT ![s] = NoReport]
  /\ UNCHANGED <<vars, poisoned, closed>>

OpenObject(o) ==
  /\ Ready(o) /\ Request(o).op = "open"
  /\ closed' = closed \ {o}
  /\ Ends(o, "Opened") /\ Forgotten(o)
  /\ UNCHANGED <<vars, poisoned, report>>

CloseObject(o) ==
  /\ Ready(o) /\ Request(o).op = "close"
  /\ closed' = closed \cup {o}
  /\ Ends(o, "Closed") /\ Forgotten(o)
  /\ UNCHANGED <<vars, poisoned, report>>

IsClosed(o) == o \in closed

(* add_text and link build their argument first, get asks for the           *)
(* repository first.                                                        *)
Invoke(o) ==
  /\ Ready(o) /\ Request(o).op \notin {"open", "close"}
  /\ LET invalid == Request(o).arg = Invalid
         early == Request(o).op = "get"
     IN IF IsClosed(o) /\ (early \/ ~invalid) THEN Ends(o, "ClosedError")
        ELSE IF invalid THEN Ends(o, "Validation")
        ELSE Goes(o) /\ UNCHANGED <<todo, mutex, answer>>
  /\ Forgotten(o)
  /\ UNCHANGED <<vars, poisoned, closed, report>>

-----------------------------------------------------------------------------
(* The calls of the repository.                                             *)

(* list_nodes and list_relations are two statements. *)
CountNodes(c) ==
  /\ stage[c] = "nodes"
  /\ report' = [report EXCEPT ![c].nodes = Cardinality(nodes)]
  /\ Returned(c, "nodes", "Counted", FALSE)
  /\ UNCHANGED <<vars, poisoned, closed, commits, raced>>

CountRelations(c) ==
  /\ stage[c] = "relations"
  /\ report' = [report EXCEPT ![c].relations = Cardinality(relations)]
  /\ Returned(c, "relations", "Counted", FALSE)
  /\ UNCHANGED <<vars, poisoned, closed, commits, raced>>

(* A step of EvidenceLedger: the call goes on while it replies "none".      *)
Successes == {"Applied", "Replayed", "RolledBack", "Stored", "Found"}

Performs(c, step) ==
  /\ step
  /\ IF reply' = "none"
     THEN UNCHANGED <<todo, stage, mutex, answer>>
     ELSE Returned(c, stage[c], reply', reply' \notin Successes)
  /\ Noted(c)
  /\ UNCHANGED <<poisoned, closed, report>>

(* preview_evidence_bundle is the first half of apply_evidence_bundle. *)
Preview(c) ==
  /\ stage[c] = "preview"
  /\ Performs(c, IF phase[Conn(c)] = "idle" THEN ApplyLookup(Conn(c), Request(c).arg)
                                            ELSE ApplyCheck(Conn(c)))

PreviewStatus(k) == IF phase[k] = "apply_write" THEN "new" ELSE "idempotent_replay"

Previewed(c) ==
  LET k == Conn(c) IN
  /\ stage[c] = "preview"
  /\ phase[k] \in {"apply_write", "replay_ledger"}
  /\ Refuse(k, PreviewStatus(k))
  /\ report' = [report EXCEPT ![c].status = PreviewStatus(k)]
  /\ Returned(c, "preview", PreviewStatus(k), FALSE)
  /\ Noted(c)
  /\ UNCHANGED <<poisoned, closed>>

Enters(c) ==
  LET k == Conn(c)  r == Request(c) IN
  \/ r.op = "add" /\ AddNodes(k, 1)
  \/ r.op = "link" /\ AddRelations(k, {r.arg})
  \/ r.op = "feedback" /\ RecordFeedback(k, r.arg, TRUE)
  \/ r.op = "get" /\ Refuse(k, IF r.arg \in nodes THEN "Found" ELSE "NotFound")
  \/ r.op = "apply" /\ ApplyLookup(k, r.arg)
  \/ r.op = "rollback" /\ RollbackLookup(k, r.arg)

Proceeds(k) ==
  \/ ApplyCheck(k) \/ ApplyWrite(k) \/ ReplayLedger(k) \/ ReplayItems(k)
  \/ RollbackEvidenceCheck(k) \/ RollbackGraphCheck(k) \/ RollbackWrite(k)

Call(c) ==
  /\ stage[c] = "call"
  /\ Performs(c, IF phase[Conn(c)] = "idle" THEN Enters(c) ELSE Proceeds(Conn(c)))

-----------------------------------------------------------------------------
(* Busy, or any other error of the database: the transaction is rolled back *)
(* and the request answered with the error.                                 *)
Fails(c) ==
  /\ stage[c] # "idle"
  /\ Refuse(Conn(c), "failed")
  /\ Ends(c, "failed")
  /\ Noted(c)
  /\ UNCHANGED <<poisoned, closed, report>>

(* The task unwinds: its transaction is dropped, the mutex poisoned, and no *)
(* answer is sent.                                                          *)
Panic(t) ==
  /\ mutex = t /\ stage[t] # "idle"
  /\ poisoned' = TRUE
  /\ Refuse(Server, "failed")
  /\ Ends(t, "none")
  /\ Noted(t)
  /\ UNCHANGED <<closed, report>>

Works(c) == CountNodes(c) \/ CountRelations(c) \/ Preview(c) \/ Previewed(c) \/ Call(c)

Begins(c) ==
  \/ c \in Tasks /\ Lock(c)
  \/ c \in Shells /\ Run(c)
  \/ c \in Objects /\ (OpenObject(c) \/ CloseObject(c) \/ Invoke(c))

ClientsNext ==
  \E c \in Clients : Begins(c) \/ Works(c) \/ Fails(c) \/ (c \in Tasks /\ Panic(c))

(* Tasks and processes are scheduled; nobody has to fail or panic. *)
ClientsSpec ==
  /\ ClientsInit /\ [][ClientsNext]_clientVars
  /\ \A c \in Clients : WF_clientVars(Begins(c) \/ Works(c))
-----------------------------------------------------------------------------
(* Only the task with the lock is at work, and with the shared connection.  *)
ClientsTypeOK ==
  /\ mutex \in Tasks \cup {NoTask}
  /\ \A t \in Tasks : stage[t] # "idle" <=> mutex = t
  /\ \A c \in Clients : stage[c] # "idle" => todo[c] # <<>>
  /\ \A k \in Connections :
       phase[k] # "idle" => \E c \in Clients : Conn(c) = k /\ stage[c] \in {"preview", "call"}

Answered(c) == todo'[c] # todo[c]

(* What one request of the server reports is true of one moment, although   *)
(* it takes two calls: the counts belong together, and evidence_apply does  *)
(* what its preview status says.  Only another process can spoil it, never  *)
(* another request (memory3d-mcp/main.rs:66-86, 93-107, 212-228).           *)
ServerReportsOneMoment ==
  [][\A t \in Tasks : Answered(t) /\ ~raced[t] =>
       /\ answer'[t] = "Counted" =>
            report'[t].nodes = Cardinality(nodes) /\ report'[t].relations = Cardinality(relations)
       /\ answer'[t] = "Applied" => report'[t].status = "new"
       /\ answer'[t] = "Replayed" => report'[t].status = "idempotent_replay"
       /\ Request(t).op = "apply" /\ report'[t].status # "none" =>
            answer'[t] \in {"Applied", "Replayed", "failed", "none"}]_clientVars

(* A request that reports an error has changed nothing, so that it can be   *)
(* tried again; one that reports a write has committed it, once.  A         *)
(* rollback may find that another process has just done it (evidence.rs:    *)
(* 1330-1398; memory3d-mcp/main.rs:212-228).                                *)
AnswersTellEffects ==
  [][\A c \in Clients : Answered(c) /\ answer'[c] # "none" =>
       /\ answer'[c] \in {"Applied", "Stored"} => commits'[c] = 1
       /\ answer'[c] = "RolledBack" => commits'[c] = 1 \/ (raced[c] /\ commits'[c] = 0)
       /\ answer'[c] \notin {"Applied", "Stored", "RolledBack"} => commits'[c] = 0]_clientVars

(* Every request ends, whichever fail or panic: nobody waits for a lock     *)
(* that is never released (memory3d-mcp/main.rs:66-86).                     *)
RequestsEnd == \A c \in Clients : <>(todo[c] = <<>>)
=============================================================================
