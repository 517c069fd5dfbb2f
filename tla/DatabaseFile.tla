----------------------------- MODULE DatabaseFile -----------------------------
(***************************************************************************)
(* The database file of memory3d: how commands open it, create or migrate  *)
(* its schema, write, check it, and how the demos put a finished file in   *)
(* its place.                                                              *)
(*                                                                         *)
(* Processes work on one path.  A statement outside a transaction is a     *)
(* step; a migration holds the write lock of its file from its first       *)
(* statement to its commit, another writer gives up as Busy.  A process    *)
(* may die between any two steps: its transaction is rolled back, its      *)
(* lock released, its files stay where they are.                           *)
(*                                                                         *)
(* A file is what SQLite shows of it.  The journal beside it is SQLite's   *)
(* and not modelled.                                                       *)
(***************************************************************************)
EXTENDS Integers, Sequences, FiniteSets

CONSTANTS
  Processes,
  Plans,       \* for each process, the commands it runs one after the other
  Databases,   \* the files the path may hold at first, or NoFile
  NoFile, NoProcess,
  FixtureNodes, FixtureEdges, \* what a demo ingests
  MaxCrashes   \* bound on how often a process dies

SchemaVersion == 7

Commands == {"add", "rollback", "build", "check", "demo", "demo --replace"}

ASSUME PlansRunnable == \A plan \in Plans : plan \in [Processes -> Seq(Commands)]

ASSUME NamesDistinct == NoFile \notin Nat /\ NoProcess \notin Processes

(* The fixture is numbered as an empty file will number it. *)
ASSUME FixtureNumbered ==
  /\ IsFiniteSet(FixtureNodes)
  /\ FixtureNodes = 1 .. Cardinality(FixtureNodes)
  /\ FixtureEdges \subseteq FixtureNodes \X FixtureNodes

VARIABLES
  files,   \* the files, by inode
  named,   \* what a path names: the database, and the temporary file of each process
  writer,  \* the process that holds the write lock of a file
  todo,    \* the commands a process still runs, its current one first
  pc,      \* where it stands
  goal,    \* what it opens a file for: the command, a look at the target, or ingest
  handle,  \* the file it has opened
  version, \* the schema version it has read
  view,    \* what a build has read of the graph
  txn,     \* what its transaction has made of the file
  reply,   \* what its last command answered
  crashes,
  issued   \* for the properties: node IDs given out since the last rebuild

process == <<todo, pc, goal, handle, version, view, txn, reply, crashes>>
vars == <<files, named, writer, process, issued>>

Database == <<"database", NoProcess>>
Temp(p) == <<"temporary", p>>
Paths == {Database} \cup {Temp(p) : p \in Processes}

(* The label and the nodes of the community overlay and, for the properties,*)
(* the revision of the file when its build read the nodes.                  *)
Overlay(revision, nodes, since) == [revision |-> revision, nodes |-> nodes, since |-> since]
NoOverlay == Overlay(-1, {}, -1)

(* format: whether memory3d_schema exists, has a row, and whose; tables:    *)
(* whether there is any other table; batches: the CREATE_SCHEMA batches run;*)
(* seq: what AUTOINCREMENT remembers of nodes; terms: the nodes indexed;    *)
(* bad: nodes with invalid coordinates; triggers: whether a change of the   *)
(* nodes counts in graph_revision.                                          *)
Empty ==
  [format |-> "none", version |-> 0, tables |-> FALSE, batches |-> {},
   nodes |-> {}, seq |-> 0, terms |-> {}, edges |-> {}, bad |-> {},
   revision |-> 0, triggers |-> FALSE, overlay |-> NoOverlay]

Init ==
  /\ \E db \in Databases :
       IF db = NoFile
       THEN files = <<>> /\ named = [x \in Paths |-> NoFile]
       ELSE files = <<db>> /\ named = [x \in Paths |-> IF x = Database THEN 1 ELSE NoFile]
  /\ writer = [i \in DOMAIN files |-> NoProcess]
  /\ todo \in Plans
  /\ pc = [p \in Processes |-> "start"]
  /\ goal = [p \in Processes |-> "command"]
  /\ handle = [p \in Processes |-> NoFile]
  /\ version = [p \in Processes |-> 0]
  /\ view = [p \in Processes |-> NoOverlay]
  /\ txn = [p \in Processes |-> Empty]
  /\ reply = [p \in Processes |-> "none"]
  /\ crashes = 0
  /\ issued = [i \in DOMAIN files |-> files[i].nodes]

-----------------------------------------------------------------------------
(* The control of a process.                                                *)
Command(p) == Head(todo[p])

Goto(p, next) == pc' = [pc EXCEPT ![p] = next]

Release(p) == writer' = [i \in DOMAIN writer |-> IF writer[i] = p THEN NoProcess ELSE writer[i]]

(* The command ends: a demo that fails to fill its temporary file removes   *)
(* it first.                                                                *)
Finish(p, answer) ==
  /\ reply' = [reply EXCEPT ![p] = answer]
  /\ todo' = [todo EXCEPT ![p] = Tail(@)]
  /\ Goto(p, "start")
  /\ Release(p)
  /\ goal' = [goal EXCEPT ![p] = "command"]

Fail(p, answer) ==
  /\ Finish(p, answer)
  /\ named' = IF goal[p] = "temp" THEN [named EXCEPT ![Temp(p)] = NoFile] ELSE named

Busy(p) == writer[handle[p]] \notin {p, NoProcess}

File(p) == files[handle[p]]

-----------------------------------------------------------------------------
(* Repository::open.                                                        *)

(* Connection::open: an absent file is created, empty. *)
OpenPath(p, path, for) ==
  /\ goal' = [goal EXCEPT ![p] = for]
  /\ Goto(p, "metadata")
  /\ IF named[path] = NoFile
     THEN /\ files' = Append(files, Empty)
          /\ writer' = Append(writer, NoProcess)
          /\ issued' = Append(issued, {})
          /\ named' = [named EXCEPT ![path] = Len(files) + 1]
          /\ handle' = [handle EXCEPT ![p] = Len(files) + 1]
     ELSE /\ handle' = [handle EXCEPT ![p] = named[path]]
          /\ UNCHANGED <<files, writer, issued, named>>

OpenDatabase(p) ==
  /\ pc[p] = "start" /\ todo[p] # <<>>
  /\ Command(p) \in {"add", "rollback", "build"}
  /\ OpenPath(p, Database, "command")
  /\ UNCHANGED <<todo, version, view, txn, reply, crashes>>

ReadMetadata(p) ==
  /\ pc[p] = "metadata"
  /\ Goto(p, IF File(p).format = "none" THEN "tables" ELSE "version")
  /\ UNCHANGED <<files, named, writer, todo, goal, handle, version, view, txn, reply, crashes, issued>>

(* Mutant: a file without metadata is taken for a new one. *)
Unclaimed(db) == TRUE

NoUserTables(db) == ~db.tables /\ db.batches = {} /\ db.format = "none"

(* user_table_count: other tables, or by now those of another opener. *)
CountTables(p) ==
  /\ pc[p] = "tables"
  /\ IF NoUserTables(File(p))
     THEN Goto(p, "create") /\ UNCHANGED <<named, writer, todo, goal, reply>>
     ELSE Fail(p, "MetadataMissing")
  /\ UNCHANGED <<files, handle, version, view, txn, crashes, issued>>

Recognized(db) == db.format = "memory3d"

ReadVersion(p) ==
  /\ pc[p] = "version"
  /\ LET db == File(p) IN
     IF ~Recognized(db) THEN Fail(p, "InvalidDatabase") /\ UNCHANGED version
     ELSE IF db.version > SchemaVersion THEN Fail(p, "UnsupportedSchema") /\ UNCHANGED version
     ELSE /\ version' = [version EXCEPT ![p] = db.version]
          /\ Goto(p, IF db.version >= 1 THEN "coordinates" ELSE "migrate")
          /\ UNCHANGED <<named, writer, todo, goal, reply>>
  /\ UNCHANGED <<files, handle, view, txn, crashes, issued>>

ValidateCoordinates(p) ==
  /\ pc[p] = "coordinates"
  /\ IF File(p).bad # {}
     THEN Fail(p, "InvalidDatabase")
     ELSE /\ Goto(p, IF version[p] = SchemaVersion THEN "opened" ELSE "migrate")
          /\ UNCHANGED <<named, writer, todo, goal, reply>>
  /\ UNCHANGED <<files, handle, version, view, txn, crashes, issued>>

(* Mutant: the statements of a migration are committed one by one. *)
Immediately(old, new) == new

(* What others see of a file whose transaction has come to new. *)
Visible(old, new) == old

Write(p, db) ==
  /\ txn' = [txn EXCEPT ![p] = db]
  /\ files' = [files EXCEPT ![handle[p]] = Visible(@, db)]

(* Mutant: the statements run outside a transaction. *)
Unlocked(p) == UNCHANGED writer

(* The first statement of a transaction takes the lock, on what is there by *)
(* then.                                                                    *)
Locked(p) == writer' = [writer EXCEPT ![handle[p]] = p]

CreateMetadata(p) ==
  /\ pc[p] = "create"
  /\ IF Busy(p) \/ File(p).format # "none"
     THEN /\ Fail(p, IF Busy(p) THEN "Busy" ELSE "AlreadyExists")
          /\ UNCHANGED <<files, txn>>
     ELSE /\ Locked(p)
          /\ Write(p, [File(p) EXCEPT !.format = "no_row"])
          /\ Goto(p, "insert")
          /\ UNCHANGED <<named, todo, goal, reply>>
  /\ UNCHANGED <<handle, version, view, crashes, issued>>

InsertMetadata(p) ==
  /\ pc[p] = "insert"
  /\ Write(p, [txn[p] EXCEPT !.format = "memory3d", !.version = 0])
  /\ version' = [version EXCEPT ![p] = 0]
  /\ Goto(p, "migrate")
  /\ UNCHANGED <<named, writer, todo, goal, handle, view, reply, crashes, issued>>

Highest(S) == IF S = {} THEN 0 ELSE CHOOSE n \in S : \A m \in S : m <= n

(* Mutant: foreign keys are enforced while the old table is dropped. *)
RebuiltCascading(db) ==
  [db EXCEPT !.seq = Highest(db.nodes), !.triggers = TRUE, !.terms = {},
             !.overlay = IF db.overlay = NoOverlay THEN NoOverlay ELSE [@ EXCEPT !.nodes = {}]]

(* Mutant: the triggers that were dropped with the old table stay away. *)
RebuiltWithoutTriggers(db) == [db EXCEPT !.seq = Highest(db.nodes), !.triggers = FALSE]

(* migrate_v6_to_v7 copies the nodes into a new table. *)
Rebuilt(db) == [db EXCEPT !.seq = Highest(db.nodes), !.triggers = TRUE]

BatchRun(db, k) == IF k < 6 THEN [db EXCEPT !.batches = @ \cup {k + 1}] ELSE Rebuilt(db)

(* The terms of the nodes, and the state the triggers count in. *)
Filled(db, k) ==
  IF k = 1 THEN [db EXCEPT !.terms = db.nodes]
  ELSE IF k = 4 THEN [db EXCEPT !.revision = 0, !.triggers = TRUE]
  ELSE db

(* The migration from version k: its batch, its data, its version. *)
Migrated(db, k) ==
  LET filled == Filled(BatchRun(db, k), k)
  IN IF db.version = k THEN [filled EXCEPT !.version = k + 1] ELSE filled

(* migrate_to_current, one migration a step, from the version that was read.*)
Migrate(p) ==
  /\ pc[p] = "migrate"
  /\ version[p] < SchemaVersion
  /\ LET db == IF writer[handle[p]] = p THEN txn[p] ELSE File(p) IN
     IF Busy(p) \/ version[p] + 1 \in db.batches
     THEN /\ Fail(p, IF Busy(p) THEN "Busy" ELSE "AlreadyExists")
          /\ UNCHANGED <<files, txn, version>>
     ELSE /\ Locked(p)
          /\ Write(p, Migrated(db, version[p]))
          /\ version' = [version EXCEPT ![p] = @ + 1]
          /\ UNCHANGED <<named, todo, goal, reply, pc>>
  /\ UNCHANGED <<handle, view, crashes, issued>>

(* A rebuilt table has forgotten which IDs it gave out. *)
Commit(p) ==
  /\ pc[p] = "migrate"
  /\ version[p] = SchemaVersion
  /\ files' = [files EXCEPT ![handle[p]] = txn[p]]
  /\ issued' = [issued EXCEPT ![handle[p]] = txn[p].nodes]
  /\ Release(p)
  /\ Goto(p, "opened")
  /\ UNCHANGED <<named, todo, goal, handle, version, view, txn, reply, crashes>>

-----------------------------------------------------------------------------
(* What commands do with an open repository.                                *)
Revised(db, changes) == IF db.triggers THEN [db EXCEPT !.revision = @ + changes] ELSE db

(* Mutant: the ID after the highest one stored, without AUTOINCREMENT. *)
AfterHighest(db) == Highest(db.nodes) + 1

NextId(db) == db.seq + 1

WithNodes(db, count) ==
  LET last == NextId(db) + count - 1
      new == NextId(db) .. last
  IN Revised([db EXCEPT !.nodes = @ \cup new, !.terms = @ \cup new,
                        !.seq = IF last > @ THEN last ELSE @], count)

(* The terms of the node and its memberships cascade. *)
WithoutNode(db, n) ==
  Revised([db EXCEPT !.nodes = @ \ {n}, !.terms = @ \ {n}, !.overlay.nodes = @ \ {n}], 1)

Linked(db) == UNION {{e[1], e[2]} : e \in db.edges}

Working(p, for) == pc[p] = "opened" /\ goal[p] = for

(* A write transaction of a command. *)
Writes(p, db, answer) ==
  /\ IF Busy(p)
     THEN Finish(p, "Busy") /\ UNCHANGED <<files, issued>>
     ELSE /\ files' = [files EXCEPT ![handle[p]] = db]
          /\ issued' = [issued EXCEPT ![handle[p]] = @ \cup db.nodes]
          /\ Finish(p, answer)
  /\ UNCHANGED <<named, handle, version, view, txn, crashes>>

Add(p) ==
  /\ Working(p, "command") /\ Command(p) = "add"
  /\ Writes(p, WithNodes(File(p), 1), "Added")

(* What it was to add is refused only now. *)
Reject(p) ==
  /\ Working(p, "command") /\ Command(p) = "add"
  /\ Finish(p, "Validation")
  /\ UNCHANGED <<files, named, handle, version, view, txn, crashes, issued>>

(* An evidence bundle of one unlinked node is rolled back, if there is one. *)
Rollback(p) ==
  /\ Working(p, "command") /\ Command(p) = "rollback"
  /\ LET db == File(p)
         free == db.nodes \ Linked(db)
     IN IF free = {} THEN Writes(p, db, "NotFound")
        ELSE Writes(p, WithoutNode(db, Highest(free)), "RolledBack")

(* build_communities reads the nodes, the relations (they decide what is    *)
(* together, see CommunityOverlay) and the revision, each for itself; then  *)
(* its transaction replaces the overlay.                                    *)
BuildNodes(p) ==
  /\ Working(p, "command") /\ Command(p) = "build"
  /\ view' = [view EXCEPT ![p] = Overlay(-1, File(p).nodes, File(p).revision)]
  /\ Goto(p, "build_revision")
  /\ UNCHANGED <<files, named, writer, todo, goal, handle, version, txn, reply, crashes, issued>>

BuildRevision(p) ==
  /\ pc[p] = "build_revision"
  /\ view' = [view EXCEPT ![p].revision = File(p).revision]
  /\ Goto(p, "build_write")
  /\ UNCHANGED <<files, named, writer, todo, goal, handle, version, txn, reply, crashes, issued>>

(* The foreign key of a membership refuses a node that is gone by now. *)
BuildWrite(p) ==
  /\ pc[p] = "build_write"
  /\ IF view[p].nodes \subseteq File(p).nodes
     THEN Writes(p, [File(p) EXCEPT !.overlay = view[p]], "Built")
     ELSE Writes(p, File(p), "Database")

-----------------------------------------------------------------------------
(* demo ingest and demo lifecycle ingest.                                   *)
IsDemo(p) == todo[p] # <<>> /\ Command(p) \in {"demo", "demo --replace"}

(* Without --replace, what the path names is opened and looked at. *)
LookAtTarget(p) ==
  /\ pc[p] = "start" /\ IsDemo(p)
  /\ named[Database] # NoFile /\ Command(p) = "demo"
  /\ OpenPath(p, Database, "target")
  /\ UNCHANGED <<todo, version, view, txn, reply, crashes>>

SkipTarget(p) ==
  /\ pc[p] = "start" /\ IsDemo(p)
  /\ named[Database] = NoFile \/ Command(p) = "demo --replace"
  /\ Goto(p, "temp")
  /\ UNCHANGED <<files, named, writer, todo, goal, handle, version, view, txn, reply, crashes, issued>>

(* list_nodes, then list_relations. *)
TargetEmpty(p, rows, next) ==
  /\ IF rows # {}
     THEN Fail(p, "Populated")
     ELSE Goto(p, next) /\ UNCHANGED <<named, writer, todo, goal, reply>>
  /\ UNCHANGED <<files, handle, version, view, txn, crashes, issued>>

TargetNodes(p) == Working(p, "target") /\ TargetEmpty(p, File(p).nodes, "target_relations")

TargetRelations(p) == pc[p] = "target_relations" /\ TargetEmpty(p, File(p).edges, "temp")

(* Mutant: what a dead process has left is taken over. *)
LeftBehind(p) == named

Cleared(p) == [named EXCEPT ![Temp(p)] = NoFile]

(* demo_temp_path: a file a dead process of the same number has left goes. *)
ClearTemp(p) ==
  /\ pc[p] = "temp"
  /\ named' = Cleared(p)
  /\ Goto(p, "open_temp")
  /\ UNCHANGED <<files, writer, todo, goal, handle, version, view, txn, reply, crashes, issued>>

OpenTemp(p) ==
  /\ pc[p] = "open_temp"
  /\ OpenPath(p, Temp(p), "temp")
  /\ UNCHANGED <<todo, version, view, txn, reply, crashes>>

(* add_nodes, then add_relations between the nodes it returned. *)
IngestNodes(p) ==
  /\ Working(p, "temp")
  /\ LET db == WithNodes(File(p), Cardinality(FixtureNodes)) IN
     /\ files' = [files EXCEPT ![handle[p]] = db]
     /\ issued' = [issued EXCEPT ![handle[p]] = @ \cup db.nodes]
  /\ Goto(p, "relations")
  /\ UNCHANGED <<named, writer, todo, goal, handle, version, view, txn, reply, crashes>>

IngestRelations(p) ==
  /\ pc[p] = "relations"
  /\ LET offset == Highest(File(p).nodes) - Cardinality(FixtureNodes) IN
     files' = [files EXCEPT ![handle[p]].edges =
                 @ \cup {<<e[1] + offset, e[2] + offset>> : e \in FixtureEdges}]
  /\ Goto(p, "rename")
  /\ UNCHANGED <<named, writer, todo, goal, handle, version, view, txn, reply, crashes, issued>>

(* The connection is closed and the file takes the place of the target. *)
Rename(p) ==
  /\ pc[p] = "rename"
  /\ named' = [named EXCEPT ![Database] = named[Temp(p)], ![Temp(p)] = NoFile]
  /\ Finish(p, "Ingested")
  /\ UNCHANGED <<files, handle, version, view, txn, crashes, issued>>

-----------------------------------------------------------------------------
(* Repository::check, which opens the file read-only.                       *)
OpenForCheck(p) ==
  /\ pc[p] = "start" /\ todo[p] # <<>> /\ Command(p) = "check"
  /\ IF named[Database] = NoFile
     THEN Finish(p, "CannotOpen") /\ UNCHANGED handle
     ELSE /\ handle' = [handle EXCEPT ![p] = named[Database]]
          /\ Goto(p, "check_rows")
          /\ UNCHANGED <<reply, todo, writer, goal>>
  /\ UNCHANGED <<files, named, version, view, txn, crashes, issued>>

Dangling(db) == (Linked(db) \cup db.terms \cup db.overlay.nodes) \ db.nodes

(* Mutant: the coordinates are not looked at. *)
ForeignKeysOnly(db) == Dangling(db) # {}

Problems(db) == Dangling(db) # {} \/ db.bad # {}

(* integrity_check, foreign_key_check and the coordinates; *)
CheckRows(p) ==
  /\ pc[p] = "check_rows"
  /\ Goto(p, IF Problems(File(p)) THEN "check_bad" ELSE "check_good")
  /\ UNCHANGED <<files, named, writer, todo, goal, handle, version, view, txn, reply, crashes, issued>>

(* then the metadata, whose errors come before the messages. *)
CheckMetadata(p) ==
  /\ pc[p] \in {"check_bad", "check_good"}
  /\ LET db == File(p) IN
     Finish(p, IF db.format = "none" THEN "Unreadable"
               ELSE IF ~Recognized(db) THEN "InvalidDatabase"
               ELSE IF db.version > SchemaVersion THEN "UnsupportedSchema"
               ELSE IF pc[p] = "check_bad" THEN "Problems" ELSE "Ok")
  /\ UNCHANGED <<files, named, handle, version, view, txn, crashes, issued>>

-----------------------------------------------------------------------------
Crash(p) ==
  /\ crashes < MaxCrashes
  /\ pc[p] # "start"
  /\ crashes' = crashes + 1
  /\ Finish(p, "Crashed")
  /\ UNCHANGED <<files, named, handle, version, view, txn, issued>>

Step(p) ==
  \/ OpenDatabase(p) \/ ReadMetadata(p) \/ CountTables(p) \/ ReadVersion(p)
  \/ ValidateCoordinates(p) \/ CreateMetadata(p) \/ InsertMetadata(p) \/ Migrate(p) \/ Commit(p)
  \/ Add(p) \/ Reject(p) \/ Rollback(p) \/ BuildNodes(p) \/ BuildRevision(p) \/ BuildWrite(p)
  \/ LookAtTarget(p) \/ SkipTarget(p) \/ TargetNodes(p) \/ TargetRelations(p) \/ ClearTemp(p)
  \/ OpenTemp(p)
  \/ IngestNodes(p) \/ IngestRelations(p) \/ Rename(p)
  \/ OpenForCheck(p) \/ CheckRows(p) \/ CheckMetadata(p)

Next == \E p \in Processes : Step(p) \/ Crash(p)

Spec == Init /\ [][Next]_vars
-----------------------------------------------------------------------------
Formats == {"none", "no_row", "memory3d", "other"}

TypeOK ==
  /\ \A i \in DOMAIN files :
       /\ files[i].format \in Formats
       /\ files[i].batches \subseteq 1 .. 6
       /\ writer[i] \in Processes \cup {NoProcess}
  /\ \A x \in Paths : named[x] \in DOMAIN files \cup {NoFile}
  /\ \A p \in Processes :
       /\ pc[p] \in {"start", "metadata", "tables", "version", "coordinates", "create", "insert",
                     "migrate", "opened", "build_revision", "build_write", "target_relations",
                     "temp", "open_temp", "relations", "rename", "check_rows", "check_good", "check_bad"}
       /\ pc[p] # "start" => todo[p] # <<>>
       /\ pc[p] = "insert" => writer[handle[p]] = p

(* A file open accepts: a memory3d file no newer than the code, or nothing  *)
(* at all.                                                                  *)
Acceptable(db) ==
  \/ db = Empty
  \/ Recognized(db) /\ db.version <= SchemaVersion /\ db.bad = {}

Complete(db) ==
  /\ db.batches = 1 .. (IF db.version < 6 THEN db.version ELSE 6)
  /\ db.version >= 2 => db.terms = db.nodes
  /\ db.version >= 5 => db.triggers
  /\ Linked(db) \subseteq db.nodes

(* Committed files are whole: one of our own is at a version with exactly   *)
(* the tables, terms and triggers of that version, whoever else opens it    *)
(* and wherever a process dies (repository.rs:949-965, 994-998).            *)
FilesComplete ==
  \A i \in DOMAIN files :
    /\ files[i].format # "no_row"
    /\ Recognized(files[i]) /\ files[i].version <= SchemaVersion => Complete(files[i])

Overlays == [revision : Int, nodes : SUBSET Nat, since : Int]

DatabaseRecord ==
  [format : Formats, version : Nat, tables : BOOLEAN, batches : SUBSET (1 .. 6),
   nodes : SUBSET Nat, seq : Nat, terms : SUBSET Nat, edges : SUBSET (Nat \X Nat),
   bad : SUBSET Nat, revision : Nat, triggers : BOOLEAN,
   overlay : Overlays]

(* The members of an overlay are stored nodes, and all of them if nothing   *)
(* was committed since its build read them: an overlay that has the         *)
(* revision of the file and leaves a node out was labelled after a commit   *)
(* between the reads.                                                       *)
OverlayTraceable(db) ==
  db.overlay # NoOverlay =>
    /\ db.overlay.nodes \subseteq db.nodes
    /\ db.overlay.since <= db.overlay.revision /\ db.overlay.revision <= db.revision
    /\ db.overlay.since = db.revision => db.overlay.nodes = db.nodes

(* What SQLite and the code of the file's own version see to: a database    *)
(* without tables is empty, and one of ours is complete, has the nodes its  *)
(* sequence gave out, none before the first batch, and an overlay only      *)
(* since the fifth.                                                         *)
Sound(db) ==
  /\ db \in DatabaseRecord
  /\ db.format # "no_row"
  /\ ~db.tables /\ db.batches = {} /\ db.format = "none" => db = Empty
  /\ OverlayTraceable(db)
  /\ Recognized(db) /\ db.version <= SchemaVersion =>
       /\ Complete(db)
       /\ db.nodes \subseteq 1 .. db.seq /\ db.bad \subseteq db.nodes
       /\ db.version = 0 => db.nodes = {}
       /\ db.version < 5 => db.overlay = NoOverlay

ASSUME DatabasesSound == \A db \in Databases \ {NoFile} : Sound(db)

(* Opening a file changes no memory in it, nor the overlay of its           *)
(* communities, in whatever order openers take turns (repository.rs:493,    *)
(* 1106-1153).                                                              *)
Opening == {"metadata", "tables", "version", "coordinates", "create", "insert", "migrate"}

MigrationKeepsMemories ==
  [][(\E p \in Processes : pc[p] \in Opening /\ pc'[p] # pc[p]) =>
       \A i \in DOMAIN files :
         /\ files'[i].nodes = files[i].nodes
         /\ files'[i].edges = files[i].edges
         /\ files'[i].overlay = files[i].overlay
         /\ files[i].version >= 2 => files'[i].terms = files[i].terms]_vars

(* A file that is not ours, is newer or holds invalid coordinates is left   *)
(* as it is ("Opening a newer schema is refused without altering the file", *)
(* architecture.md:20; repository.rs:944-991).                              *)
RefusedUntouched ==
  [][\A i \in DOMAIN files : ~Acceptable(files[i]) => files'[i] = files[i]]_vars

(* Overlays hold stored nodes only, and are mislabelled only by a commit    *)
(* between the reads of their build (community.rs:218-220), across the      *)
(* rebuild of the table of nodes too (repository.rs:1133-1146).             *)
OverlayMislabelledByRaceOnly == \A i \in DOMAIN files : OverlayTraceable(files[i])

(* An ID is given to a second node only if the table of nodes was rebuilt   *)
(* after the first one was removed (repository.rs:23, 1110-1132).           *)
FreshIds ==
  [][\A i \in DOMAIN files : (files'[i].nodes \ files[i].nodes) \cap issued[i] = {}]_vars

(* What check calls sound can be opened: check and open have separate code  *)
(* for the same conditions (repository.rs:521-607, 974-993).                *)
CheckedIsOpenable ==
  \A p \in Processes : pc[p] = "start" /\ reply[p] = "Ok" => Acceptable(files[handle[p]])

(* Openers in a race may see each other's half of the work and be refused a *)
(* good file; by then that file is at the current version, and a second     *)
(* attempt takes the short way (repository.rs:938-957, 994-998).            *)
RefusalsRetriable ==
  \A p \in Processes :
    pc[p] = "start" /\ reply[p] \in {"MetadataMissing", "AlreadyExists", "InvalidDatabase"}
      /\ Acceptable(files[handle[p]]) => files[handle[p]].version = SchemaVersion

(* What a demo puts in the place of the database is the whole fixture and   *)
(* nothing else, even if a demo died before (main.rs:638-663, 689-721).     *)
IngestAtomic ==
  [][named'[Database] # named[Database] /\ named[Database] # NoFile =>
       LET db == files'[named'[Database]] IN
       /\ db.version = SchemaVersion
       /\ db.nodes = FixtureNodes /\ db.edges = FixtureEdges]_vars
=============================================================================
