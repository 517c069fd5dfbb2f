-------------------------- MODULE DatabaseFileProofs --------------------------
(***************************************************************************)
(* Proofs about DatabaseFile for every number of processes, every plan,    *)
(* every file the path may hold at first, every fixture and any number of  *)
(* deaths.                                                                 *)
(***************************************************************************)
EXTENDS DatabaseFile, FiniteSetTheorems, WellFoundedInduction, SequenceTheorems, TLAPS

-----------------------------------------------------------------------------
(* Sets of natural numbers have a least and, if bounded, a greatest one.   *)
LEMMA LeastNatural ==
  ASSUME NEW T \in SUBSET Nat, T # {}
  PROVE  \E least \in T : \A n \in T : least <= n
<1>1. IsWellFoundedOn(OpToRel(<, Nat), Nat)
  BY NatLessThanWellFounded
<1>2. PICK least \in T : \A n \in T : ~(<<n, least>> \in OpToRel(<, Nat))
  BY <1>1, WFMin, Zenon
<1>3. \A n \in T : ~(n < least)
  BY <1>2 DEF OpToRel
<1>. QED
  BY <1>3

LEMMA GreatestNatural ==
  ASSUME NEW T \in SUBSET Nat, T # {}, NEW bound \in Nat, \A n \in T : n <= bound
  PROVE  \E greatest \in T : \A n \in T : n <= greatest
<1>. DEFINE Bounds == {m \in Nat : \A n \in T : n <= m}
<1>1. Bounds \in SUBSET Nat /\ Bounds # {}
  OBVIOUS
<1>2. PICK least \in Bounds : \A m \in Bounds : least <= m
  BY <1>1, LeastNatural
<1>3. CASE least \in T
  BY <1>3
<1>4. CASE least \notin T
  <2>1. PICK n \in T : TRUE
    OBVIOUS
  <2>2. least # 0 /\ least - 1 \in Nat
    BY <1>4, <2>1
  <2>3. \A m \in T : m <= least - 1
    BY <1>4, <2>2
  <2>4. least - 1 \in Bounds
    BY <2>2, <2>3
  <2>. QED
    BY <1>2, <2>2, <2>4
<1>. QED
  BY <1>3, <1>4

-----------------------------------------------------------------------------
(* A file of the current version that can be opened: what every change of a *)
(* file by this code makes of it.                                           *)
Current(db) == Recognized(db) /\ db.version = SchemaVersion /\ db.bad = {}

Holds(p) == writer[handle[p]] = p

Pcs == Opening \cup {"start", "opened", "build_revision", "build_write", "target_relations",
                     "temp", "open_temp", "relations", "rename",
                     "check_rows", "check_good", "check_bad"}

Replies == {"none", "Busy", "MetadataMissing", "AlreadyExists", "InvalidDatabase",
            "UnsupportedSchema", "Added", "NotFound", "RolledBack", "Built", "Populated",
            "Ingested", "Database", "Validation", "CannotOpen", "Unreadable", "Problems", "Ok", "Crashed"}

Refusals == {"MetadataMissing", "AlreadyExists", "InvalidDatabase"}

(* The files, their locks and the IDs they gave out. *)
FilesInv ==
  /\ files \in Seq(DatabaseRecord)
  /\ writer \in Seq(Processes \cup {NoProcess}) /\ Len(writer) = Len(files)
  /\ issued \in Seq(SUBSET Nat) /\ Len(issued) = Len(files)
  /\ \A i \in DOMAIN files :
       /\ Sound(files[i])
       /\ Recognized(files[i]) /\ files[i].version <= SchemaVersion =>
            issued[i] \subseteq 1 .. files[i].seq

ControlInv ==
  /\ todo \in [Processes -> Seq(Commands)]
  /\ pc \in [Processes -> Pcs]
  /\ goal \in [Processes -> {"command", "target", "temp"}]
  /\ handle \in [Processes -> DOMAIN files \cup {NoFile}]
  /\ version \in [Processes -> 0 .. SchemaVersion]
  /\ txn \in [Processes -> DatabaseRecord]
  /\ reply \in [Processes -> Replies]
  /\ \A p \in Processes : pc[p] # "start" => todo[p] # <<>>

(* A lock is held from the first statement of a migration to its commit. *)
LockInv ==
  \A i \in DOMAIN files, p \in Processes :
    writer[i] = p => pc[p] \in {"insert", "migrate"} /\ handle[p] = i

(* The temporary file of a demo is its own. *)
NamesInv ==
  /\ named \in [Paths -> DOMAIN files \cup {NoFile}]
  /\ \A p \in Processes : named[Temp(p)] # NoFile =>
       /\ named[Database] # named[Temp(p)]
       /\ \A q \in Processes \ {p} :
            named[Temp(q)] # named[Temp(p)] /\ handle[q] # named[Temp(p)]

(* A transaction that has come to version k: complete at k, and with the    *)
(* memories of the file it will replace.                                    *)
Underway(db, new, k) ==
  /\ Acceptable(db)
  /\ Sound(new) /\ Recognized(new) /\ new.version = k /\ new.bad = {}
  /\ new.nodes = db.nodes /\ new.edges = db.edges /\ new.overlay = db.overlay
  /\ db.version >= 2 => new.terms = db.terms
  /\ k = SchemaVersion => new.seq = Highest(new.nodes)
  /\ Current(db) => k = SchemaVersion /\ new.revision = db.revision

(* Of what the builds have read, the nodes are those of the file as long as *)
(* it has the revision it had then.                                         *)
ReadsNodes(read, db) ==
  /\ read.since <= db.revision
  /\ read.since = db.revision => read.nodes = db.nodes

ViewInv == view \in [Processes -> Overlays]

(* What a process may still rely on, of what it has read, when the others   *)
(* have had their turns.                                                    *)
ProcessInv(p) ==
  /\ pc[p] \notin {"start", "temp", "open_temp"} => handle[p] \in DOMAIN files
  /\ pc[p] = "tables" => File(p).format = "none" \/ Current(File(p))
  /\ pc[p] = "create" => File(p) = Empty \/ Current(File(p))
  /\ pc[p] = "version" => File(p).format # "none"
  /\ pc[p] = "coordinates" =>
       Recognized(File(p)) /\ (version[p] = File(p).version \/ Current(File(p)))
  /\ pc[p] = "insert" =>
       Holds(p) /\ File(p) = Empty /\ txn[p] = [Empty EXCEPT !.format = "no_row"]
  /\ pc[p] = "migrate" /\ Holds(p) => Underway(File(p), txn[p], version[p])
  /\ pc[p] = "migrate" /\ ~Holds(p) =>
       /\ version[p] < SchemaVersion
       /\ Recognized(File(p)) /\ File(p).bad = {}
       /\ version[p] = File(p).version \/ Current(File(p))
  /\ pc[p] \in {"opened", "build_revision", "build_write", "target_relations", "relations", "rename"} =>
       Current(File(p))
  /\ pc[p] \in {"build_revision", "build_write"} => ReadsNodes(view[p], File(p))
  /\ pc[p] = "build_write" =>
       view[p].since <= view[p].revision /\ view[p].revision <= File(p).revision
  /\ pc[p] = "check_good" => File(p).bad = {}
  /\ pc[p] = "start" /\ reply[p] = "Ok" => handle[p] \in DOMAIN files /\ Acceptable(File(p))
  /\ pc[p] = "start" /\ reply[p] \in Refusals =>
       handle[p] \in DOMAIN files /\ (Acceptable(File(p)) => Current(File(p)))

(* How far a demo has filled its temporary file. *)
DemoInv(p) ==
  /\ pc[p] = "open_temp" => named[Temp(p)] = NoFile
  /\ goal[p] = "temp" =>
       /\ pc[p] \in Opening \cup {"opened", "relations", "rename"}
       /\ handle[p] \in DOMAIN files /\ handle[p] = named[Temp(p)]
       /\ pc[p] \in Opening \cup {"opened"} =>
            File(p).nodes = {} /\ File(p).edges = {} /\ File(p).seq = 0
  /\ pc[p] = "relations" => goal[p] = "temp" /\ File(p).nodes = FixtureNodes /\ File(p).edges = {}
  /\ pc[p] = "rename" =>
       goal[p] = "temp" /\ File(p).nodes = FixtureNodes /\ File(p).edges = FixtureEdges

FileInv ==
  /\ FilesInv /\ ControlInv /\ LockInv /\ NamesInv /\ ViewInv
  /\ \A p \in Processes : ProcessInv(p) /\ DemoInv(p)

-----------------------------------------------------------------------------
(* What the steps of a migration and the writes of a command make of a     *)
(* file.                                                                   *)

LEMMA HighestOfBounded ==
  ASSUME NEW S \in SUBSET Nat, NEW bound \in Nat, S \subseteq 0 .. bound
  PROVE  /\ Highest(S) \in Nat
         /\ \A n \in S : n <= Highest(S)
         /\ S # {} => Highest(S) \in S
<1>1. CASE S = {}
  BY <1>1 DEF Highest
<1>2. CASE S # {}
  <2>0. \A n \in S : n <= bound
    OBVIOUS
  <2>1. \E n \in S : \A m \in S : m <= n
    BY <1>2, <2>0, GreatestNatural
  <2>2. Highest(S) = CHOOSE n \in S : \A m \in S : m <= n
    BY <1>2 DEF Highest
  <2>3. Highest(S) \in S /\ \A m \in S : m <= Highest(S)
    BY <2>1, <2>2, Zenon
  <2>. QED
    BY <2>3
<1>. QED
  BY <1>1, <1>2

LEMMA EmptyFile == Empty \in DatabaseRecord /\ Sound(Empty) /\ Acceptable(Empty)
<1>1. NoOverlay \in Overlays
  BY DEF NoOverlay, Overlay, Overlays
<1>2. Empty \in DatabaseRecord /\ Empty.overlay = NoOverlay /\ Empty.format = "none"
  BY <1>1 DEF Empty, DatabaseRecord, Formats
<1>. QED
  BY <1>2 DEF Sound, Acceptable, Recognized, OverlayTraceable

LEMMA CurrentAcceptable ==
  ASSUME NEW db, Current(db) PROVE Acceptable(db)
BY DEF Current, Acceptable, SchemaVersion

LEMMA HighestInFile ==
  ASSUME NEW db, Sound(db), Recognized(db), db.version <= SchemaVersion
  PROVE  /\ Highest(db.nodes) \in Nat
         /\ db.nodes \subseteq 1 .. Highest(db.nodes)
         /\ \A S \in SUBSET db.nodes : S # {} => Highest(S) \in S
<1>1. db.nodes \in SUBSET Nat /\ db.seq \in Nat /\ db.nodes \subseteq 1 .. db.seq
  BY DEF Sound, DatabaseRecord
<1>2. ASSUME NEW S \in SUBSET db.nodes
      PROVE  /\ Highest(S) \in Nat
             /\ \A n \in S : n <= Highest(S)
             /\ S # {} => Highest(S) \in S
  <2>1. S \in SUBSET Nat /\ S \subseteq 0 .. db.seq /\ db.seq \in Nat
    BY <1>1
  <2>. QED
    BY <2>1, HighestOfBounded
<1>. QED
  BY <1>1, <1>2

LEMMA BatchRunFields ==
  ASSUME NEW db \in DatabaseRecord, NEW k \in 0 .. 6, Highest(db.nodes) \in Nat
  PROVE  LET new == BatchRun(db, k) IN
         /\ new \in DatabaseRecord
         /\ new.format = db.format /\ new.tables = db.tables /\ new.bad = db.bad
         /\ new.nodes = db.nodes /\ new.edges = db.edges /\ new.overlay = db.overlay
         /\ new.version = db.version /\ new.terms = db.terms /\ new.revision = db.revision
         /\ k < 6 => /\ new.batches = db.batches \cup {k + 1}
                     /\ new.seq = db.seq /\ new.triggers = db.triggers
         /\ k = 6 => /\ new.batches = db.batches
                     /\ new.seq = Highest(db.nodes) /\ new.triggers = TRUE
<1>. DEFINE new == BatchRun(db, k)
<1>1. CASE k < 6
  <2>1. new = [db EXCEPT !.batches = @ \cup {k + 1}]
    BY <1>1 DEF BatchRun
  <2>2. new \in DatabaseRecord
    BY <1>1, <2>1 DEF DatabaseRecord
  <2>. HIDE DEF new
  <2>3. /\ new.format = db.format /\ new.tables = db.tables /\ new.bad = db.bad
        /\ new.nodes = db.nodes /\ new.edges = db.edges /\ new.overlay = db.overlay
        /\ new.version = db.version /\ new.terms = db.terms /\ new.revision = db.revision
        /\ new.batches = db.batches \cup {k + 1}
        /\ new.seq = db.seq /\ new.triggers = db.triggers
    BY <2>1, <2>2 DEF DatabaseRecord
  <2>. QED
    BY <1>1, <2>2, <2>3 DEF new
<1>2. CASE k = 6
  <2>1. new = [db EXCEPT !.seq = Highest(db.nodes), !.triggers = TRUE]
    BY <1>2 DEF BatchRun, Rebuilt
  <2>2. new \in DatabaseRecord
    BY <2>1 DEF DatabaseRecord
  <2>. HIDE DEF new
  <2>3. /\ new.format = db.format /\ new.tables = db.tables /\ new.bad = db.bad
        /\ new.nodes = db.nodes /\ new.edges = db.edges /\ new.overlay = db.overlay
        /\ new.version = db.version /\ new.terms = db.terms /\ new.revision = db.revision
        /\ new.batches = db.batches
        /\ new.seq = Highest(db.nodes) /\ new.triggers = TRUE
    BY <2>1, <2>2 DEF DatabaseRecord
  <2>. QED
    BY <1>2, <2>2, <2>3 DEF new
<1>3. k < 6 \/ k = 6
  OBVIOUS
<1>. QED
  BY <1>1, <1>2, <1>3, Zenon

LEMMA FilledFields ==
  ASSUME NEW db \in DatabaseRecord, NEW k \in 0 .. 6
  PROVE  LET new == Filled(db, k) IN
         /\ new \in DatabaseRecord
         /\ new.format = db.format /\ new.tables = db.tables /\ new.bad = db.bad
         /\ new.nodes = db.nodes /\ new.edges = db.edges /\ new.overlay = db.overlay
         /\ new.version = db.version /\ new.batches = db.batches /\ new.seq = db.seq
         /\ k = 1 => new.terms = db.nodes
         /\ k # 1 => new.terms = db.terms
         /\ k = 4 => new.revision = 0 /\ new.triggers = TRUE
         /\ k # 4 => new.revision = db.revision /\ new.triggers = db.triggers
<1>. DEFINE new == Filled(db, k)
<1>1. CASE k = 1
  <2>1. new = [db EXCEPT !.terms = db.nodes]
    BY <1>1 DEF Filled
  <2>2. new \in DatabaseRecord
    BY <2>1 DEF DatabaseRecord
  <2>. HIDE DEF new
  <2>3. /\ new.format = db.format /\ new.tables = db.tables /\ new.bad = db.bad
        /\ new.nodes = db.nodes /\ new.edges = db.edges /\ new.overlay = db.overlay
        /\ new.version = db.version /\ new.batches = db.batches /\ new.seq = db.seq
        /\ new.terms = db.nodes /\ new.revision = db.revision /\ new.triggers = db.triggers
    BY <2>1, <2>2 DEF DatabaseRecord
  <2>. QED
    BY <1>1, <2>2, <2>3 DEF new
<1>2. CASE k = 4
  <2>1. new = [db EXCEPT !.revision = 0, !.triggers = TRUE]
    BY <1>2 DEF Filled
  <2>2. [db EXCEPT !.revision = 0] \in DatabaseRecord
    BY DEF DatabaseRecord
  <2>3. [[db EXCEPT !.revision = 0] EXCEPT !.triggers = TRUE] \in DatabaseRecord
    BY <2>2 DEF DatabaseRecord
  <2>4. new \in DatabaseRecord
    BY <2>1, <2>3
  <2>. HIDE DEF new
  <2>5. /\ new.format = db.format /\ new.tables = db.tables /\ new.bad = db.bad
        /\ new.nodes = db.nodes /\ new.edges = db.edges /\ new.overlay = db.overlay
        /\ new.version = db.version /\ new.batches = db.batches /\ new.seq = db.seq
        /\ new.terms = db.terms /\ new.revision = 0 /\ new.triggers = TRUE
    BY <2>1, <2>4 DEF DatabaseRecord
  <2>. QED
    BY <1>2, <2>4, <2>5 DEF new
<1>3. CASE k \notin {1, 4}
  <2>1. new = db
    BY <1>3 DEF Filled
  <2>. QED
    BY <1>3, <2>1
<1>. QED
  BY <1>1, <1>2, <1>3

LEMMA MigratedFields ==
  ASSUME NEW db \in DatabaseRecord, NEW k \in 0 .. 6, Highest(db.nodes) \in Nat
  PROVE  LET new == Migrated(db, k) IN
         /\ new \in DatabaseRecord
         /\ new.format = db.format /\ new.tables = db.tables /\ new.bad = db.bad
         /\ new.nodes = db.nodes /\ new.edges = db.edges /\ new.overlay = db.overlay
         /\ new.version = IF db.version = k THEN k + 1 ELSE db.version
         /\ new.batches = IF k < 6 THEN db.batches \cup {k + 1} ELSE db.batches
         /\ new.seq = IF k = 6 THEN Highest(db.nodes) ELSE db.seq
         /\ new.terms = IF k = 1 THEN db.nodes ELSE db.terms
         /\ new.revision = IF k = 4 THEN 0 ELSE db.revision
         /\ k \in {4, 6} => new.triggers = TRUE
         /\ k \notin {4, 6} => new.triggers = db.triggers
<1>. DEFINE run == BatchRun(db, k)
            filled == Filled(run, k)
            new == Migrated(db, k)
<1>1. /\ run \in DatabaseRecord
      /\ run.format = db.format /\ run.tables = db.tables /\ run.bad = db.bad
      /\ run.nodes = db.nodes /\ run.edges = db.edges /\ run.overlay = db.overlay
      /\ run.version = db.version /\ run.terms = db.terms /\ run.revision = db.revision
      /\ k < 6 => /\ run.batches = db.batches \cup {k + 1}
                  /\ run.seq = db.seq /\ run.triggers = db.triggers
      /\ k = 6 => /\ run.batches = db.batches
                  /\ run.seq = Highest(db.nodes) /\ run.triggers = TRUE
  BY BatchRunFields
<1>. HIDE DEF run
<1>2. /\ filled \in DatabaseRecord
      /\ filled.format = run.format /\ filled.tables = run.tables /\ filled.bad = run.bad
      /\ filled.nodes = run.nodes /\ filled.edges = run.edges /\ filled.overlay = run.overlay
      /\ filled.version = run.version /\ filled.batches = run.batches /\ filled.seq = run.seq
      /\ k = 1 => filled.terms = run.nodes
      /\ k # 1 => filled.terms = run.terms
      /\ k = 4 => filled.revision = 0 /\ filled.triggers = TRUE
      /\ k # 4 => filled.revision = run.revision /\ filled.triggers = run.triggers
  BY <1>1, FilledFields
<1>3. new = IF db.version = k THEN [filled EXCEPT !.version = k + 1] ELSE filled
  BY DEF Migrated, run
<1>. HIDE DEF filled, new
<1>4. /\ new \in DatabaseRecord
      /\ new.format = filled.format /\ new.tables = filled.tables /\ new.bad = filled.bad
      /\ new.nodes = filled.nodes /\ new.edges = filled.edges /\ new.overlay = filled.overlay
      /\ new.version = IF db.version = k THEN k + 1 ELSE filled.version
      /\ new.batches = filled.batches /\ new.seq = filled.seq /\ new.terms = filled.terms
      /\ new.revision = filled.revision /\ new.triggers = filled.triggers
  BY <1>2, <1>3 DEF DatabaseRecord
<1>5. k \in {4, 6} => new.triggers = TRUE
  BY <1>1, <1>2, <1>4
<1>6. k \notin {4, 6} => new.triggers = db.triggers
  BY <1>1, <1>2, <1>4
<1>7. new.batches = IF k < 6 THEN db.batches \cup {k + 1} ELSE db.batches
  <2>1. new.batches = run.batches
    BY <1>2, <1>4
  <2>2. k < 6 => run.batches = db.batches \cup {k + 1}
    BY <1>1
  <2>3. ~(k < 6) => run.batches = db.batches
    BY <1>1
  <2>. QED
    BY <2>1, <2>2, <2>3, Zenon
<1>8. new.seq = IF k = 6 THEN Highest(db.nodes) ELSE db.seq
  BY <1>1, <1>2, <1>4
<1>9. new.terms = IF k = 1 THEN db.nodes ELSE db.terms
  BY <1>1, <1>2, <1>4
<1>10. new.revision = IF k = 4 THEN 0 ELSE db.revision
  BY <1>1, <1>2, <1>4
<1>11. /\ new \in DatabaseRecord
       /\ new.format = db.format /\ new.tables = db.tables /\ new.bad = db.bad
       /\ new.nodes = db.nodes /\ new.edges = db.edges /\ new.overlay = db.overlay
       /\ new.version = IF db.version = k THEN k + 1 ELSE db.version
  BY <1>1, <1>2, <1>4
<1>. QED
  BY <1>5, <1>6, <1>7, <1>8, <1>9, <1>10, <1>11, Zenon DEF new

(* A migration step from the file's version, and the rebuild of a file that *)
(* is at the current version by then.                                       *)
LEMMA MigratedSound ==
  ASSUME NEW db, NEW k \in 0 .. 6, Sound(db), Recognized(db), db.bad = {},
         db.version = k \/ (k = 6 /\ db.version = 7)
  PROVE  LET new == Migrated(db, k) IN
         /\ Sound(new) /\ Recognized(new) /\ new.version = k + 1 /\ new.bad = {}
         /\ new.nodes = db.nodes /\ new.edges = db.edges /\ new.overlay = db.overlay
         /\ db.version >= 2 => new.terms = db.terms
         /\ k = 6 => new.seq = Highest(new.nodes) /\ new.revision = db.revision
<1>. DEFINE new == Migrated(db, k)
<1>1. db \in DatabaseRecord /\ db.version <= SchemaVersion /\ SchemaVersion = 7
  BY DEF SchemaVersion, Sound
<1>2. /\ Highest(db.nodes) \in Nat
      /\ db.nodes \subseteq 1 .. Highest(db.nodes)
  BY <1>1, HighestInFile
<1>3. /\ new \in DatabaseRecord
      /\ new.format = db.format /\ new.tables = db.tables /\ new.bad = db.bad
      /\ new.nodes = db.nodes /\ new.edges = db.edges /\ new.overlay = db.overlay
      /\ new.version = IF db.version = k THEN k + 1 ELSE db.version
      /\ new.batches = IF k < 6 THEN db.batches \cup {k + 1} ELSE db.batches
      /\ new.seq = IF k = 6 THEN Highest(db.nodes) ELSE db.seq
      /\ new.terms = IF k = 1 THEN db.nodes ELSE db.terms
      /\ new.revision = IF k = 4 THEN 0 ELSE db.revision
      /\ k \in {4, 6} => new.triggers = TRUE
      /\ k \notin {4, 6} => new.triggers = db.triggers
  BY <1>1, <1>2, MigratedFields
<1>. HIDE DEF new
<1>4. Recognized(new) /\ new.version = k + 1 /\ new.bad = {}
  BY <1>3 DEF Recognized
<1>5. Complete(db) /\ db.nodes \subseteq 1 .. db.seq /\ (db.version < 5 => db.overlay = NoOverlay)
      /\ (db.version = 0 => db.nodes = {})
      /\ OverlayTraceable(db)
  BY <1>1 DEF Sound
<1>6. Complete(new)
  <2>1. new.batches = 1 .. (IF new.version < 6 THEN new.version ELSE 6)
    <3>1. db.version \in Nat /\ db.batches = 1 .. (IF db.version < 6 THEN db.version ELSE 6)
      BY <1>1, <1>5 DEF Complete, DatabaseRecord
    <3>2. CASE k < 6
      BY <1>3, <1>4, <3>1, <3>2
    <3>3. CASE k = 6
      BY <1>3, <1>4, <3>1, <3>3
    <3>. QED
      BY <3>2, <3>3
  <2>2. new.version >= 2 => new.terms = new.nodes
    BY <1>1, <1>3, <1>4, <1>5 DEF Complete
  <2>3. new.version >= 5 => new.triggers
    <3>1. k >= 4 /\ k \notin {4, 6} => db.triggers
      BY <1>5 DEF Complete
    <3>. QED
      BY <1>3, <1>4, <3>1
  <2>4. Linked(new) = Linked(db)
    BY <1>3 DEF Linked
  <2>. QED
    BY <1>3, <1>5, <2>1, <2>2, <2>3, <2>4 DEF Complete
<1>7. new.format # "none"
  BY <1>4 DEF Recognized
<1>8. OverlayTraceable(new)
  BY <1>1, <1>3, <1>5 DEF OverlayTraceable
<1>9. /\ new.nodes \subseteq 1 .. new.seq /\ new.bad \subseteq new.nodes
      /\ new.version = 0 => new.nodes = {}
      /\ new.version < 5 => new.overlay = NoOverlay
  BY <1>1, <1>2, <1>3, <1>4, <1>5
<1>10. db.version >= 2 => new.terms = db.terms
  BY <1>3, <1>5 DEF Complete
<1>11. new.format # "no_row"
  BY <1>4 DEF Recognized
<1>. QED
  BY <1>3, <1>4, <1>6, <1>7, <1>8, <1>9, <1>10, <1>11 DEF Sound, new

(* The fields of a sound file at the current version. *)
LEMMA CurrentFields ==
  ASSUME NEW db, Sound(db), Current(db)
  PROVE  /\ db \in DatabaseRecord /\ db.format = "memory3d" /\ db.version = 7 /\ db.bad = {}
         /\ db.nodes \in SUBSET Nat /\ db.seq \in Nat /\ db.revision \in Nat
         /\ db.edges \in SUBSET (Nat \X Nat)
         /\ db.batches = 1 .. 6 /\ db.terms = db.nodes /\ db.triggers = TRUE
         /\ Linked(db) \subseteq db.nodes /\ db.nodes \subseteq 1 .. db.seq
         /\ OverlayTraceable(db)
<1>1. db \in DatabaseRecord /\ db.format = "memory3d" /\ db.version = 7 /\ db.bad = {}
  BY DEF Current, Recognized, Sound, SchemaVersion
<1>2. /\ Complete(db) /\ db.nodes \subseteq 1 .. db.seq
      /\ OverlayTraceable(db)
  BY <1>1 DEF Sound, Recognized, SchemaVersion
<1>3. /\ db.nodes \in SUBSET Nat /\ db.seq \in Nat /\ db.revision \in Nat
      /\ db.edges \in SUBSET (Nat \X Nat) /\ db.triggers \in BOOLEAN
  BY <1>1 DEF DatabaseRecord
<1>4. /\ db.batches = 1 .. 6 /\ db.terms = db.nodes /\ Linked(db) \subseteq db.nodes
  BY <1>1, <1>2 DEF Complete
<1>5. db.triggers = TRUE
  BY <1>1, <1>2, <1>3 DEF Complete
<1>. QED
  BY <1>1, <1>2, <1>3, <1>4, <1>5

(* The other way round: a record with these fields is sound and current. *)
LEMMA CurrentSound ==
  ASSUME NEW db \in DatabaseRecord, db.format = "memory3d", db.version = 7, db.bad = {},
         db.batches = 1 .. 6, db.terms = db.nodes, db.triggers = TRUE,
         Linked(db) \subseteq db.nodes, db.nodes \subseteq 1 .. db.seq,
         OverlayTraceable(db)
  PROVE  Sound(db) /\ Current(db)
<1>1. Complete(db)
  BY DEF Complete
<1>2. Sound(db)
  BY <1>1 DEF Sound, Recognized
<1>. QED
  BY <1>2 DEF Current, Recognized, SchemaVersion

LEMMA RevisedFields ==
  ASSUME NEW db \in DatabaseRecord, NEW changes \in Nat, db.triggers = TRUE
  PROVE  LET new == Revised(db, changes) IN
         /\ new \in DatabaseRecord
         /\ new.format = db.format /\ new.version = db.version /\ new.bad = db.bad
         /\ new.nodes = db.nodes /\ new.terms = db.terms /\ new.edges = db.edges
         /\ new.seq = db.seq /\ new.overlay = db.overlay /\ new.batches = db.batches
         /\ new.triggers = TRUE /\ new.revision = db.revision + changes
<1>. DEFINE new == Revised(db, changes)
<1>1. new = [db EXCEPT !.revision = @ + changes]
  BY DEF Revised
<1>2. new \in DatabaseRecord
  BY <1>1 DEF DatabaseRecord
<1>. HIDE DEF new
<1>3. /\ new.format = db.format /\ new.version = db.version /\ new.bad = db.bad
      /\ new.nodes = db.nodes /\ new.terms = db.terms /\ new.edges = db.edges
      /\ new.seq = db.seq /\ new.overlay = db.overlay /\ new.batches = db.batches
      /\ new.triggers = db.triggers /\ new.revision = db.revision + changes
  BY <1>1, <1>2 DEF DatabaseRecord
<1>. QED
  BY <1>2, <1>3 DEF new

(* A file whose nodes have changed has another revision. *)
Grows(old, new) ==
  /\ old.revision <= new.revision
  /\ old.revision = new.revision => old.nodes = new.nodes

(* New nodes get the IDs after the last one given out. *)
LEMMA WithNodesCurrent ==
  ASSUME NEW db, NEW count \in Nat, Sound(db), Current(db)
  PROVE  LET new == WithNodes(db, count) IN
         /\ Sound(new) /\ Current(new)
         /\ new.nodes = db.nodes \cup (db.seq + 1 .. db.seq + count)
         /\ new.seq = db.seq + count /\ new.edges = db.edges
         /\ Grows(db, new)
<1>. DEFINE ids == NextId(db) .. NextId(db) + count - 1
            last == NextId(db) + count - 1
            grown == [db EXCEPT !.nodes = @ \cup ids, !.terms = @ \cup ids,
                                !.seq = IF last > @ THEN last ELSE @]
            new == WithNodes(db, count)
<1>1. /\ db \in DatabaseRecord /\ db.format = "memory3d" /\ db.version = 7 /\ db.bad = {}
      /\ db.nodes \in SUBSET Nat /\ db.seq \in Nat /\ db.revision \in Nat
      /\ db.edges \in SUBSET (Nat \X Nat)
      /\ db.batches = 1 .. 6 /\ db.terms = db.nodes /\ db.triggers = TRUE
      /\ Linked(db) \subseteq db.nodes /\ db.nodes \subseteq 1 .. db.seq
      /\ OverlayTraceable(db)
  BY CurrentFields
<1>2. /\ ids = db.seq + 1 .. db.seq + count /\ ids \in SUBSET Nat
      /\ last = db.seq + count /\ last \in Nat
      /\ (IF last > db.seq THEN last ELSE db.seq) = last
  BY <1>1 DEF NextId
<1>3. new = Revised(grown, count)
  BY DEF WithNodes
<1>. HIDE DEF ids, last, new
<1>4. grown = [db EXCEPT !.nodes = db.nodes \cup ids, !.terms = db.terms \cup ids, !.seq = last]
  BY <1>2
<1>5. grown \in DatabaseRecord
  BY <1>1, <1>2, <1>4 DEF DatabaseRecord
<1>. HIDE DEF grown
<1>6. /\ grown.format = db.format /\ grown.version = db.version /\ grown.bad = db.bad
      /\ grown.nodes = db.nodes \cup ids /\ grown.terms = db.terms \cup ids
      /\ grown.edges = db.edges /\ grown.seq = last /\ grown.overlay = db.overlay
      /\ grown.batches = db.batches /\ grown.triggers = db.triggers
      /\ grown.revision = db.revision
  BY <1>1, <1>4, <1>5 DEF DatabaseRecord
<1>7. /\ new \in DatabaseRecord
      /\ new.format = grown.format /\ new.version = grown.version /\ new.bad = grown.bad
      /\ new.nodes = grown.nodes /\ new.terms = grown.terms /\ new.edges = grown.edges
      /\ new.seq = grown.seq /\ new.overlay = grown.overlay /\ new.batches = grown.batches
      /\ new.triggers = TRUE /\ new.revision = grown.revision + count
  <2>1. grown.triggers = TRUE
    BY <1>1, <1>6
  <2>. QED
    BY <1>3, <1>5, <2>1, RevisedFields
<1>8. /\ new.nodes = db.nodes \cup (db.seq + 1 .. db.seq + count)
      /\ new.seq = db.seq + count /\ new.edges = db.edges
  BY <1>2, <1>6, <1>7
<1>9. Linked(new) \subseteq new.nodes
  BY <1>1, <1>8 DEF Linked
<1>10. new.nodes \subseteq 1 .. new.seq
  BY <1>1, <1>8
<1>11. OverlayTraceable(new) /\ Grows(db, new)
  <2>1. new.overlay = db.overlay /\ new.revision = db.revision + count
    BY <1>6, <1>7
  <2>2. CASE count = 0
    <3>1. new.nodes = db.nodes /\ new.revision = db.revision
      BY <1>1, <1>8, <2>1, <2>2
    <3>. QED
      BY <1>1, <2>1, <3>1 DEF OverlayTraceable, Grows
  <2>3. CASE count > 0
    <3>1. db.overlay.since \in Int /\ db.overlay.revision \in Int
      BY <1>1 DEF DatabaseRecord, Overlays
    <3>2. db.nodes \subseteq new.nodes
      BY <1>8
    <3>3. db.revision < new.revision
      BY <1>1, <2>1, <2>3
    <3>4. new.revision \in Nat
      BY <1>1, <2>1
    <3>. QED
      BY <1>1, <2>1, <3>1, <3>2, <3>3, <3>4 DEF OverlayTraceable, Grows
  <2>. QED
    BY <2>2, <2>3
<1>12. Sound(new) /\ Current(new)
  BY <1>1, <1>6, <1>7, <1>9, <1>10, <1>11, CurrentSound
<1>. QED
  BY <1>8, <1>11, <1>12 DEF new

LEMMA WithoutNodeCurrent ==
  ASSUME NEW db, Sound(db), Current(db), NEW n \in db.nodes \ Linked(db)
  PROVE  LET new == WithoutNode(db, n) IN
         /\ Sound(new) /\ Current(new) /\ new.nodes = db.nodes \ {n} /\ new.seq = db.seq
         /\ Grows(db, new)
<1>. DEFINE left == [db.overlay EXCEPT !.nodes = @ \ {n}]
            cut == [db EXCEPT !.nodes = @ \ {n}, !.terms = @ \ {n}, !.overlay = left]
            new == WithoutNode(db, n)
<1>1. /\ db \in DatabaseRecord /\ db.format = "memory3d" /\ db.version = 7 /\ db.bad = {}
      /\ db.nodes \in SUBSET Nat /\ db.seq \in Nat /\ db.revision \in Nat
      /\ db.edges \in SUBSET (Nat \X Nat)
      /\ db.batches = 1 .. 6 /\ db.terms = db.nodes /\ db.triggers = TRUE
      /\ Linked(db) \subseteq db.nodes /\ db.nodes \subseteq 1 .. db.seq
      /\ OverlayTraceable(db)
  BY CurrentFields
<1>2. new = Revised(cut, 1)
  BY DEF WithoutNode
<1>3. /\ db.overlay \in Overlays /\ left \in Overlays
      /\ left.revision = db.overlay.revision /\ left.since = db.overlay.since
      /\ left.nodes = db.overlay.nodes \ {n}
      /\ db.overlay = NoOverlay => left = NoOverlay
  <2>1. db.overlay \in Overlays
    BY <1>1 DEF DatabaseRecord
  <2>. QED
    BY <2>1 DEF Overlays, NoOverlay, Overlay
<1>. HIDE DEF left
<1>4. cut \in DatabaseRecord
  BY <1>1, <1>3 DEF DatabaseRecord
<1>5. /\ cut.format = db.format /\ cut.version = db.version /\ cut.bad = db.bad
      /\ cut.nodes = db.nodes \ {n} /\ cut.terms = db.terms \ {n}
      /\ cut.edges = db.edges /\ cut.seq = db.seq /\ cut.overlay = left
      /\ cut.batches = db.batches /\ cut.triggers = db.triggers
      /\ cut.revision = db.revision
  BY <1>1, <1>4 DEF DatabaseRecord
<1>. HIDE DEF cut, new
<1>6. /\ new \in DatabaseRecord
      /\ new.format = cut.format /\ new.version = cut.version /\ new.bad = cut.bad
      /\ new.nodes = cut.nodes /\ new.terms = cut.terms /\ new.edges = cut.edges
      /\ new.seq = cut.seq /\ new.overlay = cut.overlay /\ new.batches = cut.batches
      /\ new.triggers = TRUE /\ new.revision = cut.revision + 1
  <2>1. cut.triggers = TRUE
    BY <1>1, <1>5
  <2>. QED
    BY <1>2, <1>4, <2>1, RevisedFields
<1>7. new.nodes = db.nodes \ {n} /\ new.seq = db.seq /\ new.edges = db.edges
  BY <1>5, <1>6
<1>8. Linked(new) \subseteq new.nodes
  BY <1>1, <1>7 DEF Linked
<1>9. new.nodes \subseteq 1 .. new.seq
  BY <1>1, <1>7
<1>10. OverlayTraceable(new) /\ Grows(db, new)
  <2>1. new.overlay = left /\ new.revision = db.revision + 1
    BY <1>5, <1>6
  <2>2. \A a, b, r \in Int : a <= b /\ b <= r => a <= b /\ b <= r + 1 /\ a # r + 1
    OBVIOUS
  <2>3. db.overlay.since \in Int /\ db.overlay.revision \in Int /\ db.revision \in Int
    BY <1>1, <1>3 DEF Overlays
  <2>4. ASSUME new.overlay # NoOverlay
        PROVE  /\ left.nodes \subseteq new.nodes /\ left.since <= left.revision
               /\ left.revision <= new.revision /\ left.since # new.revision
    <3>1. /\ db.overlay.nodes \subseteq db.nodes /\ db.overlay.since <= db.overlay.revision
          /\ db.overlay.revision <= db.revision
      BY <1>1, <1>3, <2>1, <2>4 DEF OverlayTraceable
    <3>. QED
      BY <1>3, <1>7, <2>1, <2>2, <2>3, <3>1
  <2>5. Grows(db, new)
    BY <1>1, <2>1 DEF Grows
  <2>. QED
    BY <2>1, <2>4, <2>5 DEF OverlayTraceable
<1>11. Sound(new) /\ Current(new)
  BY <1>1, <1>5, <1>6, <1>8, <1>9, <1>10, CurrentSound
<1>. QED
  BY <1>7, <1>10, <1>11 DEF new

(* What a build has read, written into a file that still has the nodes. *)
LEMMA OverlayCurrent ==
  ASSUME NEW db, Sound(db), Current(db), NEW read \in Overlays, ReadsNodes(read, db),
         read.nodes \subseteq db.nodes, read.since <= read.revision, read.revision <= db.revision
  PROVE  LET new == [db EXCEPT !.overlay = read] IN
         Sound(new) /\ Current(new) /\ new.nodes = db.nodes /\ new.seq = db.seq /\ Grows(db, new)
<1>. DEFINE new == [db EXCEPT !.overlay = read]
<1>1. /\ db \in DatabaseRecord /\ db.format = "memory3d" /\ db.version = 7 /\ db.bad = {}
      /\ db.nodes \in SUBSET Nat /\ db.seq \in Nat /\ db.revision \in Nat
      /\ db.batches = 1 .. 6 /\ db.terms = db.nodes /\ db.triggers = TRUE
      /\ Linked(db) \subseteq db.nodes /\ db.nodes \subseteq 1 .. db.seq
  BY CurrentFields
<1>2. new \in DatabaseRecord
  BY <1>1 DEF DatabaseRecord
<1>3. /\ new.format = db.format /\ new.version = db.version /\ new.bad = db.bad
      /\ new.nodes = db.nodes /\ new.terms = db.terms /\ new.edges = db.edges
      /\ new.seq = db.seq /\ new.batches = db.batches /\ new.revision = db.revision
      /\ new.triggers = db.triggers /\ new.overlay = read
  BY <1>1 DEF DatabaseRecord
<1>. HIDE DEF new
<1>4. Linked(new) \subseteq new.nodes
  BY <1>1, <1>3 DEF Linked
<1>5. OverlayTraceable(new)
  BY <1>3 DEF OverlayTraceable, ReadsNodes
<1>6. Grows(db, new)
  BY <1>1, <1>3 DEF Grows
<1>7. Sound(new) /\ Current(new)
  <2>1. new.triggers = TRUE
    BY <1>1, <1>3
  <2>2. new.format = "memory3d" /\ new.version = 7 /\ new.bad = {}
        /\ new.batches = 1 .. 6 /\ new.terms = new.nodes /\ new.nodes \subseteq 1 .. new.seq
    BY <1>1, <1>3
  <2>. QED
    BY <1>2, <1>4, <1>5, <2>1, <2>2, CurrentSound
<1>. QED
  BY <1>3, <1>6, <1>7 DEF new

(* More relations between the nodes there are. *)
LEMMA RelatedCurrent ==
  ASSUME NEW db, Sound(db), Current(db), NEW more \in SUBSET (db.nodes \X db.nodes)
  PROVE  LET new == [db EXCEPT !.edges = @ \cup more] IN
         /\ Sound(new) /\ Current(new) /\ new.nodes = db.nodes /\ new.seq = db.seq
         /\ new.edges = db.edges \cup more /\ Grows(db, new)
<1>. DEFINE new == [db EXCEPT !.edges = @ \cup more]
<1>1. /\ db \in DatabaseRecord /\ db.format = "memory3d" /\ db.version = 7 /\ db.bad = {}
      /\ db.nodes \in SUBSET Nat /\ db.seq \in Nat /\ db.revision \in Nat
      /\ db.edges \in SUBSET (Nat \X Nat)
      /\ db.batches = 1 .. 6 /\ db.terms = db.nodes /\ db.triggers = TRUE
      /\ Linked(db) \subseteq db.nodes /\ db.nodes \subseteq 1 .. db.seq
      /\ OverlayTraceable(db)
  BY CurrentFields
<1>2. db.edges \cup more \in SUBSET (Nat \X Nat)
  BY <1>1
<1>3. new \in DatabaseRecord
  BY <1>1, <1>2 DEF DatabaseRecord
<1>4. /\ new.format = db.format /\ new.version = db.version /\ new.bad = db.bad
      /\ new.nodes = db.nodes /\ new.terms = db.terms /\ new.overlay = db.overlay
      /\ new.seq = db.seq /\ new.batches = db.batches /\ new.revision = db.revision
      /\ new.triggers = db.triggers /\ new.edges = db.edges \cup more
  BY <1>1 DEF DatabaseRecord
<1>. HIDE DEF new
<1>5. Linked(new) \subseteq new.nodes
  <2>1. \A e \in db.edges : e[1] \in db.nodes /\ e[2] \in db.nodes
    BY <1>1 DEF Linked
  <2>2. \A e \in more : e[1] \in db.nodes /\ e[2] \in db.nodes
    OBVIOUS
  <2>. QED
    BY <1>4, <2>1, <2>2 DEF Linked
<1>6. OverlayTraceable(new) /\ Grows(db, new)
  BY <1>1, <1>4 DEF OverlayTraceable, Grows
<1>7. Sound(new) /\ Current(new)
  <2>1. new.triggers = TRUE
    BY <1>1, <1>4
  <2>2. new.format = "memory3d" /\ new.version = 7 /\ new.bad = {}
        /\ new.batches = 1 .. 6 /\ new.terms = new.nodes /\ new.nodes \subseteq 1 .. new.seq
    BY <1>1, <1>4
  <2>. QED
    BY <1>3, <1>5, <1>6, <2>1, <2>2, CurrentSound
<1>. QED
  BY <1>4, <1>6, <1>7 DEF new

-----------------------------------------------------------------------------
(* What a step does to the sequences of files, locks and issued IDs.       *)

LEMMA SequenceReplaced ==
  ASSUME NEW S, NEW s \in Seq(S), NEW i \in DOMAIN s, NEW e \in S
  PROVE  LET t == [s EXCEPT ![i] = e] IN
         /\ t \in Seq(S) /\ Len(t) = Len(s) /\ DOMAIN t = DOMAIN s
         /\ t[i] = e /\ \A j \in DOMAIN s : j # i => t[j] = s[j]
         /\ e = s[i] => t = s
<1>1. DOMAIN s = 1 .. Len(s) /\ s \in [1 .. Len(s) -> S]
  BY LenProperties
<1>2. /\ [s EXCEPT ![i] = e] \in Seq(S)
      /\ Len([s EXCEPT ![i] = e]) = Len(s)
      /\ \A j \in 1 .. Len(s) : [s EXCEPT ![i] = e][j] = IF j = i THEN e ELSE s[j]
  BY <1>1, ExceptSeq
<1>3. e = s[i] => [s EXCEPT ![i] = e] = s
  BY <1>1
<1>. QED
  BY <1>1, <1>2, <1>3

LEMMA SequenceAppended ==
  ASSUME NEW S, NEW s \in Seq(S), NEW e \in S
  PROVE  /\ Append(s, e) \in Seq(S) /\ Len(Append(s, e)) = Len(s) + 1
         /\ DOMAIN Append(s, e) = DOMAIN s \cup {Len(s) + 1}
         /\ Len(s) \in Nat /\ Len(s) + 1 \notin DOMAIN s
         /\ Append(s, e)[Len(s) + 1] = e
         /\ \A i \in DOMAIN s : Append(s, e)[i] = s[i]
<1>1. DOMAIN s = 1 .. Len(s) /\ Len(s) \in Nat
  BY LenProperties
<1>2. Append(s, e) \in Seq(S) /\ Len(Append(s, e)) = Len(s) + 1
  OBVIOUS
<1>3. DOMAIN Append(s, e) = 1 .. Len(s) + 1
  BY <1>2, LenProperties
<1>. QED
  BY <1>1, <1>2, <1>3

(* The end of a command frees the locks of the process, and no others. *)
LEMMA Released ==
  ASSUME FilesInv, NEW p \in Processes, Release(p)
  PROVE  /\ writer' \in Seq(Processes \cup {NoProcess}) /\ Len(writer') = Len(writer)
         /\ \A i \in DOMAIN files : writer'[i] = IF writer[i] = p THEN NoProcess ELSE writer[i]
<1>. DEFINE Owners == Processes \cup {NoProcess}
<1>1. /\ DOMAIN files = 1 .. Len(files) /\ writer \in Seq(Owners) /\ Len(writer) = Len(files)
      /\ Len(writer) \in Nat /\ writer \in [1 .. Len(writer) -> Owners]
      /\ DOMAIN writer = 1 .. Len(writer)
  BY LenProperties DEF FilesInv
<1>2. writer' = [i \in 1 .. Len(writer) |-> IF writer[i] = p THEN NoProcess ELSE writer[i]]
  BY <1>1 DEF Release
<1>3. writer' \in [1 .. Len(writer) -> Owners]
  BY <1>1, <1>2
<1>4. writer' \in Seq(Owners)
  BY <1>1, <1>3, SeqDef
<1>5. Len(writer') = Len(writer)
  <2>1. DOMAIN writer' = 1 .. Len(writer') /\ Len(writer') \in Nat
    BY <1>4, LenProperties
  <2>2. DOMAIN writer' = 1 .. Len(writer)
    BY <1>2
  <2>3. ASSUME NEW m \in Nat, NEW n \in Nat, 1 .. m = 1 .. n PROVE m <= n
    <3>1. m = 0 \/ m \in 1 .. n
      BY <2>3
    <3>. QED
      BY <3>1
  <2>4. Len(writer') <= Len(writer) /\ Len(writer) <= Len(writer')
    BY <1>1, <2>1, <2>2, <2>3
  <2>5. Len(writer) \in Nat /\ Len(writer') \in Nat
    BY <1>1, <2>1
  <2>. QED
    BY <2>4, <2>5
<1>. QED
  BY <1>1, <1>2, <1>4, <1>5

LEMMA Taken ==
  ASSUME FilesInv, NEW p \in Processes, handle[p] \in DOMAIN files, Locked(p)
  PROVE  /\ writer' \in Seq(Processes \cup {NoProcess}) /\ Len(writer') = Len(writer)
         /\ writer'[handle[p]] = p
         /\ \A i \in DOMAIN files : i # handle[p] => writer'[i] = writer[i]
<1>1. DOMAIN files = DOMAIN writer /\ writer \in Seq(Processes \cup {NoProcess})
  BY LenProperties DEF FilesInv
<1>2. handle[p] \in DOMAIN writer /\ writer' = [writer EXCEPT ![handle[p]] = p]
  BY <1>1 DEF Locked
<1>. QED
  BY <1>1, <1>2, SequenceReplaced

(* One file is replaced by a sound one that has no ID beyond its sequence. *)
LEMMA FileReplaced ==
  ASSUME FilesInv, NEW h \in DOMAIN files, NEW db, Sound(db), Current(db),
         NEW ids \in SUBSET Nat, ids \subseteq 1 .. db.seq,
         files' = [files EXCEPT ![h] = db], issued' = [issued EXCEPT ![h] = ids],
         writer' \in Seq(Processes \cup {NoProcess}), Len(writer') = Len(writer)
  PROVE  /\ FilesInv' /\ DOMAIN files' = DOMAIN files
         /\ files'[h] = db /\ \A i \in DOMAIN files : i # h => files'[i] = files[i]
<1>1. /\ files \in Seq(DatabaseRecord) /\ issued \in Seq(SUBSET Nat)
      /\ Len(issued) = Len(files) /\ Len(writer) = Len(files)
      /\ DOMAIN files = 1 .. Len(files) /\ DOMAIN issued = 1 .. Len(issued)
  BY LenProperties DEF FilesInv
<1>2. /\ files' \in Seq(DatabaseRecord) /\ Len(files') = Len(files) /\ DOMAIN files' = DOMAIN files
      /\ files'[h] = db /\ \A i \in DOMAIN files : i # h => files'[i] = files[i]
  <2>1. db \in DatabaseRecord
    BY DEF Sound
  <2>. QED
    BY <1>1, <2>1, SequenceReplaced
<1>3. /\ issued' \in Seq(SUBSET Nat) /\ Len(issued') = Len(issued)
      /\ issued'[h] = ids /\ \A i \in DOMAIN files : i # h => issued'[i] = issued[i]
  <2>1. h \in DOMAIN issued /\ DOMAIN issued = DOMAIN files
    BY <1>1
  <2>. QED
    BY <1>1, <2>1, SequenceReplaced
<1>4. ASSUME NEW i \in DOMAIN files'
      PROVE  /\ Sound(files'[i])
             /\ Recognized(files'[i]) /\ files'[i].version <= SchemaVersion =>
                  issued'[i] \subseteq 1 .. files'[i].seq
  <2>1. CASE i = h
    BY <1>2, <1>3, <2>1
  <2>2. CASE i # h
    BY <1>2, <1>3, <2>2 DEF FilesInv
  <2>. QED
    BY <2>1, <2>2
<1>. QED
  BY <1>1, <1>2, <1>3, <1>4 DEF FilesInv

(* What a process finds at a path: the file there, or one it creates. *)
LEMMA Opened ==
  ASSUME FilesInv, NEW p \in Processes, NEW path \in Paths, NEW for,
         named \in [Paths -> DOMAIN files \cup {NoFile}],
         handle \in [Processes -> DOMAIN files \cup {NoFile}],
         OpenPath(p, path, for)
  PROVE  /\ FilesInv' /\ DOMAIN files \subseteq DOMAIN files'
         /\ \A i \in DOMAIN files :
              files'[i] = files[i] /\ writer'[i] = writer[i] /\ issued'[i] = issued[i]
         /\ \A i \in DOMAIN files' \ DOMAIN files :
              files'[i] = Empty /\ writer'[i] = NoProcess
         /\ handle'[p] \in DOMAIN files' /\ named' = [named EXCEPT ![path] = handle'[p]]
         /\ handle' = [handle EXCEPT ![p] = handle'[p]]
         /\ named[path] = NoFile => handle'[p] \in DOMAIN files' \ DOMAIN files
         /\ named[path] # NoFile => handle'[p] = named[path] /\ named' = named
<1>. DEFINE Owners == Processes \cup {NoProcess}
            new == Len(files) + 1
<1>1. /\ files \in Seq(DatabaseRecord) /\ writer \in Seq(Owners) /\ issued \in Seq(SUBSET Nat)
      /\ Len(writer) = Len(files) /\ Len(issued) = Len(files) /\ Len(files) \in Nat
      /\ DOMAIN files = 1 .. Len(files)
      /\ DOMAIN writer = DOMAIN files /\ DOMAIN issued = DOMAIN files
  BY LenProperties DEF FilesInv
<1>2. CASE named[path] = NoFile
  <2>1. /\ files' = Append(files, Empty) /\ writer' = Append(writer, NoProcess)
        /\ issued' = Append(issued, {}) /\ named' = [named EXCEPT ![path] = new]
        /\ handle' = [handle EXCEPT ![p] = new]
    BY <1>2 DEF OpenPath
  <2>2. /\ files' \in Seq(DatabaseRecord) /\ Len(files') = new
        /\ DOMAIN files' = DOMAIN files \cup {new} /\ new \notin DOMAIN files
        /\ files'[new] = Empty /\ \A i \in DOMAIN files : files'[i] = files[i]
    BY <1>1, <2>1, EmptyFile, SequenceAppended
  <2>3. /\ writer' \in Seq(Owners) /\ Len(writer') = new
        /\ writer'[new] = NoProcess /\ \A i \in DOMAIN files : writer'[i] = writer[i]
    <3>1. NoProcess \in Owners
      OBVIOUS
    <3>. HIDE DEF Owners
    <3>. QED
      BY <1>1, <2>1, <3>1, SequenceAppended
  <2>4. /\ issued' \in Seq(SUBSET Nat) /\ Len(issued') = new
        /\ issued'[new] = {} /\ \A i \in DOMAIN files : issued'[i] = issued[i]
    <3>1. {} \in SUBSET Nat
      OBVIOUS
    <3>. QED
      BY <1>1, <2>1, <3>1, SequenceAppended
  <2>5. FilesInv'
    BY <2>2, <2>3, <2>4, EmptyFile DEF FilesInv
  <2>6. handle'[p] = new
    BY <2>1
  <2>. QED
    BY <1>2, <2>1, <2>2, <2>3, <2>4, <2>5, <2>6
<1>3. CASE named[path] # NoFile
  <2>1. /\ files' = files /\ writer' = writer /\ issued' = issued /\ named' = named
        /\ handle' = [handle EXCEPT ![p] = named[path]]
    BY <1>3 DEF OpenPath
  <2>2. handle'[p] = named[path] /\ named[path] \in DOMAIN files
    BY <1>3, <2>1
  <2>3. FilesInv'
    BY <2>1 DEF FilesInv
  <2>4. named' = [named EXCEPT ![path] = handle'[p]]
    BY <2>1, <2>2
  <2>. QED
    BY <1>3, <2>1, <2>2, <2>3, <2>4
<1>. QED
  BY <1>2, <1>3

-----------------------------------------------------------------------------
(* What a step of p does to the files and their locks: a file changes only *)
(* if p has it open and no other process holds its lock, and it was one    *)
(* this code accepts and is one of the current version then.               *)
FilesMove(p) ==
  /\ DOMAIN files \subseteq DOMAIN files'
  /\ \A i \in DOMAIN files : files'[i] # files[i] =>
       /\ i = handle[p] /\ Acceptable(files[i]) /\ Current(files'[i])
       /\ writer[i] \in {p, NoProcess} \/ i = named[Temp(p)]
       /\ Current(files[i]) => Grows(files[i], files'[i])
  /\ \A i \in DOMAIN files :
       \/ writer'[i] = writer[i]
       \/ writer[i] = p /\ writer'[i] = NoProcess
       \/ i = handle[p] /\ writer[i] \in {p, NoProcess} /\ writer'[i] = p
  /\ \A i \in DOMAIN files' \ DOMAIN files : writer'[i] = NoProcess

LEMMA FilesStand ==
  ASSUME FilesInv, NEW p \in Processes, files' = files, issued' = issued,
         writer' = writer \/ Release(p) \/ (handle[p] \in DOMAIN files /\ Locked(p) /\ ~Busy(p))
  PROVE  FilesInv' /\ FilesMove(p)
<1>1. CASE writer' = writer
  BY <1>1 DEF FilesInv, FilesMove
<1>2. CASE Release(p)
  <2>1. /\ writer' \in Seq(Processes \cup {NoProcess}) /\ Len(writer') = Len(writer)
        /\ \A i \in DOMAIN files : writer'[i] = IF writer[i] = p THEN NoProcess ELSE writer[i]
    BY <1>2, Released
  <2>2. FilesInv'
    BY <2>1 DEF FilesInv
  <2>. QED
    BY <2>1, <2>2 DEF FilesMove
<1>3. CASE handle[p] \in DOMAIN files /\ Locked(p) /\ ~Busy(p)
  <2>1. /\ writer' \in Seq(Processes \cup {NoProcess}) /\ Len(writer') = Len(writer)
        /\ writer'[handle[p]] = p
        /\ \A i \in DOMAIN files : i # handle[p] => writer'[i] = writer[i]
    BY <1>3, Taken
  <2>2. FilesInv'
    BY <2>1 DEF FilesInv
  <2>. QED
    BY <1>3, <2>1, <2>2 DEF FilesMove, Busy
<1>. QED
  BY <1>1, <1>2, <1>3

(* A file that p has open, and that no other process holds, is replaced. *)
LEMMA FilesWritten ==
  ASSUME FilesInv, NEW p \in Processes, handle[p] \in DOMAIN files, Acceptable(File(p)),
         ~Busy(p) \/ handle[p] = named[Temp(p)],
         NEW db, Sound(db), Current(db), Current(File(p)) => Grows(File(p), db),
         NEW ids \in SUBSET Nat, ids \subseteq 1 .. db.seq,
         files' = [files EXCEPT ![handle[p]] = db], issued' = [issued EXCEPT ![handle[p]] = ids],
         writer' = writer \/ Release(p)
  PROVE  FilesInv' /\ FilesMove(p) /\ DOMAIN files' = DOMAIN files /\ files'[handle[p]] = db
<1>1. /\ writer' \in Seq(Processes \cup {NoProcess}) /\ Len(writer') = Len(writer)
      /\ \A i \in DOMAIN files :
           writer'[i] = writer[i] \/ (writer[i] = p /\ writer'[i] = NoProcess)
  BY Released DEF FilesInv
<1>2. /\ FilesInv' /\ DOMAIN files' = DOMAIN files
      /\ files'[handle[p]] = db
      /\ \A i \in DOMAIN files : i # handle[p] => files'[i] = files[i]
  BY <1>1, FileReplaced
<1>3. ASSUME NEW i \in DOMAIN files, files'[i] # files[i]
      PROVE  /\ i = handle[p] /\ Acceptable(files[i]) /\ Current(files'[i])
             /\ writer[i] \in {p, NoProcess} \/ i = named[Temp(p)]
             /\ Current(files[i]) => Grows(files[i], files'[i])
  BY <1>2, <1>3 DEF File, Busy
<1>. QED
  BY <1>1, <1>2, <1>3 DEF FilesMove

LEMMA FileFacts ==
  ASSUME FilesInv, NEW p \in Processes, handle[p] \in DOMAIN files
  PROVE  /\ Sound(File(p)) /\ File(p) \in DatabaseRecord
         /\ Current(File(p)) => issued[handle[p]] \subseteq 1 .. File(p).seq
<1>1. Sound(File(p))
  BY DEF FilesInv, File
<1>2. Current(File(p)) => issued[handle[p]] \subseteq 1 .. File(p).seq
  <2>1. Recognized(File(p)) /\ File(p).version <= SchemaVersion =>
          issued[handle[p]] \subseteq 1 .. File(p).seq
    BY DEF FilesInv, File
  <2>2. Current(File(p)) => Recognized(File(p)) /\ File(p).version <= SchemaVersion
    BY DEF Current, SchemaVersion
  <2>. QED
    BY <2>1, <2>2, Zenon
<1>. QED
  BY <1>1, <1>2 DEF Sound

LEMMA FilesOfWrites ==
  ASSUME FilesInv, NEW p \in Processes, handle[p] \in DOMAIN files, Current(File(p)),
         NEW db, Sound(db), Current(db), File(p).seq <= db.seq, Grows(File(p), db),
         NEW answer, Writes(p, db, answer)
  PROVE  FilesInv' /\ FilesMove(p)
<1>1. CASE Busy(p)
  BY <1>1, FilesStand DEF Writes, Finish
<1>2. CASE ~Busy(p)
  <2>1. /\ Acceptable(File(p)) /\ issued[handle[p]] \subseteq 1 .. File(p).seq
        /\ File(p).seq \in Nat
    BY FileFacts, CurrentFields, CurrentAcceptable
  <2>2. db.seq \in Nat /\ db.nodes \subseteq 1 .. db.seq
    BY CurrentFields
  <2>3. /\ issued[handle[p]] \cup db.nodes \in SUBSET Nat
        /\ issued[handle[p]] \cup db.nodes \subseteq 1 .. db.seq
    BY <2>1, <2>2
  <2>4. /\ files' = [files EXCEPT ![handle[p]] = db]
        /\ issued' = [issued EXCEPT ![handle[p]] = issued[handle[p]] \cup db.nodes]
        /\ Release(p)
    BY <1>2 DEF Writes, Finish
  <2>. QED
    BY <1>2, <2>1, <2>3, <2>4, FilesWritten
<1>. QED
  BY <1>1, <1>2

LEMMA FilesOfOpening ==
  ASSUME FilesInv, NamesInv, ControlInv, NEW p \in Processes, NEW path \in Paths, NEW for,
         OpenPath(p, path, for)
  PROVE  FilesInv' /\ FilesMove(p)
<1>1. /\ FilesInv' /\ DOMAIN files \subseteq DOMAIN files'
      /\ \A i \in DOMAIN files : files'[i] = files[i] /\ writer'[i] = writer[i]
      /\ \A i \in DOMAIN files' \ DOMAIN files : writer'[i] = NoProcess
  BY Opened DEF NamesInv, ControlInv
<1>. QED
  BY <1>1 DEF FilesMove

(* What others see of a file while a transaction is under way. *)
LEMMA NotVisible ==
  ASSUME FilesInv, NEW p \in Processes, handle[p] \in DOMAIN files, NEW db, Write(p, db)
  PROVE  files' = files
<1>1. files' = [files EXCEPT ![handle[p]] = files[handle[p]]]
  BY DEF Write, Visible
<1>2. files \in Seq(DatabaseRecord) /\ files[handle[p]] \in DatabaseRecord
  BY DEF FilesInv, Sound
<1>. QED
  BY <1>1, <1>2, SequenceReplaced

(* The state of the transaction the next migration starts from. *)
LEMMA MigrationBase ==
  ASSUME FileInv, NEW p \in Processes, pc[p] = "migrate", version[p] < SchemaVersion, ~Busy(p)
  PROVE  LET db == IF writer[handle[p]] = p THEN txn[p] ELSE File(p) IN
         /\ version[p] + 1 \in db.batches => Current(File(p))
         /\ version[p] + 1 \notin db.batches =>
              Underway(File(p), Migrated(db, version[p]), version[p] + 1)
<1>. DEFINE db == IF writer[handle[p]] = p THEN txn[p] ELSE File(p)
            k == version[p]
            new == Migrated(db, k)
<1>1. /\ handle[p] \in DOMAIN files /\ Sound(File(p)) /\ k \in 0 .. 6 /\ SchemaVersion = 7
      /\ Holds(p) => Underway(File(p), txn[p], k)
      /\ ~Holds(p) => /\ Recognized(File(p)) /\ File(p).bad = {}
                      /\ k = File(p).version \/ Current(File(p))
  <2>1. handle[p] \in DOMAIN files /\ FilesInv /\ ProcessInv(p)
    BY DEF FileInv, ProcessInv
  <2>2. k \in 0 .. 7 /\ SchemaVersion = 7
    BY DEF FileInv, ControlInv, SchemaVersion
  <2>. QED
    BY <2>1, <2>2, FileFacts DEF ProcessInv
<1>2. /\ Holds(p) => db = txn[p]
      /\ ~Holds(p) => db = File(p)
  BY DEF Holds
<1>. HIDE DEF db
<1>6. /\ Acceptable(File(p))
      /\ Sound(db) /\ Recognized(db) /\ db.bad = {} /\ db.version <= 7
      /\ db.nodes = File(p).nodes /\ db.edges = File(p).edges /\ db.overlay = File(p).overlay
      /\ db.version = k \/ (Current(File(p)) /\ db = File(p))
      /\ File(p).version >= 2 => db.terms = File(p).terms
  <2>1. CASE Holds(p)
    BY <1>1, <1>2, <2>1 DEF Underway
  <2>2. CASE ~Holds(p)
    <3>1. db = File(p)
      BY <1>2, <2>2
    <3>2. File(p).version <= 7
      BY <1>1, <2>2 DEF Current
    <3>. QED
      BY <1>1, <2>2, <3>1, <3>2 DEF Acceptable
  <2>. QED
    BY <2>1, <2>2
<1>3. db.batches = 1 .. (IF db.version < 6 THEN db.version ELSE 6) /\ db.version \in Nat
  BY <1>1, <1>6 DEF Sound, Complete, DatabaseRecord
<1>4. ASSUME k + 1 \in db.batches PROVE Current(File(p))
  BY <1>1, <1>3, <1>4, <1>6
<1>5. ASSUME k + 1 \notin db.batches PROVE Underway(File(p), new, k + 1)
  <2>1. db.version = k \/ (k = 6 /\ db.version = 7)
    <3>1. CASE db.version = k
      BY <3>1
    <3>2. CASE Current(File(p)) /\ db = File(p)
      <4>1. db.version = 7 /\ db.batches = 1 .. 6
        BY <1>1, <1>3, <3>2 DEF Current
      <4>. QED
        BY <1>1, <1>5, <4>1
    <3>. QED
      BY <1>6, <3>1, <3>2
  <2>2. /\ Sound(new) /\ Recognized(new) /\ new.version = k + 1 /\ new.bad = {}
        /\ new.nodes = db.nodes /\ new.edges = db.edges /\ new.overlay = db.overlay
        /\ k = 6 => new.seq = Highest(new.nodes) /\ new.revision = db.revision
    BY <1>1, <1>6, <2>1, MigratedSound
  <2>3. ASSUME File(p).version >= 2 PROVE new.terms = File(p).terms
    <3>1. db.terms = File(p).terms
      BY <1>6, <2>3
    <3>2. CASE k = 1
      <4>1. Recognized(File(p)) /\ File(p).version <= SchemaVersion
        BY <1>6, <2>3 DEF Acceptable, Empty
      <4>2. File(p).terms = File(p).nodes
        BY <1>1, <2>3, <4>1 DEF Sound, Complete
      <4>3. new.terms = new.nodes
        BY <1>1, <2>2, <3>2 DEF Sound, Complete
      <4>. QED
        BY <1>6, <2>2, <4>2, <4>3
    <3>3. CASE k # 1
      <4>1. /\ db \in DatabaseRecord /\ Highest(db.nodes) \in Nat
        BY <1>1, <1>6, HighestInFile DEF Sound
      <4>2. new.terms = db.terms
        BY <1>1, <3>3, <4>1, MigratedFields
      <4>. QED
        BY <3>1, <4>2
    <3>. QED
      BY <3>2, <3>3
  <2>4. k + 1 = SchemaVersion => k = 6
    BY <1>1
  <2>5. Current(File(p)) => k + 1 = SchemaVersion /\ new.revision = File(p).revision
    <3>1. CASE Holds(p)
      BY <1>1, <3>1 DEF Underway
    <3>2. CASE ~Holds(p)
      BY <1>1, <1>2, <2>1, <2>2, <3>2 DEF Current
    <3>. QED
      BY <3>1, <3>2
  <2>. QED
    BY <1>6, <2>2, <2>3, <2>4, <2>5 DEF Underway
<1>. QED
  BY <1>4, <1>5 DEF db

(* The transaction that has written the metadata of an empty file. *)
LEMMA MetadataWritten ==
  LET new == [[Empty EXCEPT !.format = "no_row"] EXCEPT !.format = "memory3d", !.version = 0] IN
  /\ [Empty EXCEPT !.format = "no_row"] \in DatabaseRecord
  /\ Underway(Empty, new, 0)
<1>. DEFINE new == [[Empty EXCEPT !.format = "no_row"] EXCEPT !.format = "memory3d", !.version = 0]
            begun == [Empty EXCEPT !.format = "no_row"]
            marked == [begun EXCEPT !.format = "memory3d"]
<1>1. Empty \in DatabaseRecord
  BY EmptyFile
<1>2. begun \in DatabaseRecord
  BY <1>1 DEF DatabaseRecord, Formats
<1>3. marked \in DatabaseRecord
  BY <1>2 DEF DatabaseRecord, Formats
<1>4. new = [marked EXCEPT !.version = 0]
  OBVIOUS
<1>5. new \in DatabaseRecord
  BY <1>3, <1>4 DEF DatabaseRecord
<1>. HIDE DEF new
<1>6. /\ begun.tables = Empty.tables /\ begun.batches = Empty.batches /\ begun.nodes = Empty.nodes
      /\ begun.seq = Empty.seq /\ begun.terms = Empty.terms /\ begun.edges = Empty.edges
      /\ begun.bad = Empty.bad /\ begun.overlay = Empty.overlay
  BY <1>1 DEF DatabaseRecord
<1>. HIDE DEF begun
<1>7. /\ marked.tables = begun.tables /\ marked.batches = begun.batches
      /\ marked.nodes = begun.nodes /\ marked.format = "memory3d"
      /\ marked.seq = begun.seq /\ marked.terms = begun.terms /\ marked.edges = begun.edges
      /\ marked.bad = begun.bad /\ marked.overlay = begun.overlay
  BY <1>2 DEF DatabaseRecord
<1>. HIDE DEF marked
<1>8. /\ new.tables = marked.tables /\ new.batches = marked.batches /\ new.nodes = marked.nodes
      /\ new.seq = marked.seq /\ new.terms = marked.terms /\ new.edges = marked.edges
      /\ new.bad = marked.bad /\ new.overlay = marked.overlay
      /\ new.format = marked.format /\ new.version = 0
  BY <1>3, <1>4 DEF DatabaseRecord
<1>9. /\ Empty.batches = {} /\ Empty.nodes = {} /\ Empty.seq = 0 /\ Empty.edges = {}
      /\ Empty.terms = {} /\ Empty.bad = {} /\ Empty.overlay = NoOverlay /\ Empty.version = 0
  BY DEF Empty
<1>10. Complete(new)
  BY <1>6, <1>7, <1>8, <1>9 DEF Complete, Linked
<1>11. Sound(new)
  BY <1>5, <1>6, <1>7, <1>8, <1>9, <1>10 DEF Sound, Recognized, OverlayTraceable
<1>12. Underway(Empty, new, 0)
  BY <1>6, <1>7, <1>8, <1>9, <1>11, EmptyFile DEF Underway, Current, Recognized, SchemaVersion
<1>. QED
  BY <1>2, <1>12 DEF new, marked, begun

LEMMA FixtureFacts ==
  /\ Cardinality(FixtureNodes) \in Nat
  /\ Highest(FixtureNodes) = Cardinality(FixtureNodes)
  /\ FixtureEdges = {<<e[1] + 0, e[2] + 0>> : e \in FixtureEdges}
<1>. DEFINE n == Cardinality(FixtureNodes)
<1>1. n \in Nat
  BY FixtureNumbered, FS_CardinalityType
<1>2. FixtureNodes = 1 .. n
  BY FixtureNumbered
<1>. HIDE DEF n
<1>3. FixtureNodes \in SUBSET Nat /\ FixtureNodes \subseteq 0 .. n
  BY <1>1, <1>2
<1>4. /\ Highest(FixtureNodes) \in Nat
      /\ \A m \in FixtureNodes : m <= Highest(FixtureNodes)
      /\ FixtureNodes # {} => Highest(FixtureNodes) \in FixtureNodes
  BY <1>1, <1>3, HighestOfBounded
<1>5. Highest(FixtureNodes) = n
  <2>1. CASE n = 0
    BY <1>2, <2>1 DEF Highest
  <2>2. CASE n > 0
    <3>1. n \in FixtureNodes
      BY <1>1, <1>2, <2>2
    <3>2. n <= Highest(FixtureNodes) /\ Highest(FixtureNodes) <= n
      BY <1>1, <1>2, <1>4, <3>1
    <3>. QED
      BY <1>1, <1>4, <3>2
  <2>. QED
    BY <1>1, <2>1, <2>2
<1>6. ASSUME NEW e \in FixtureEdges PROVE <<e[1] + 0, e[2] + 0>> = e
  <2>1. e \in FixtureNodes \X FixtureNodes
    BY FixtureNumbered
  <2>2. PICK from \in FixtureNodes, to \in FixtureNodes : e = <<from, to>>
    BY <2>1
  <2>3. from + 0 = from /\ to + 0 = to
    BY <1>3
  <2>. QED
    BY <2>2, <2>3
<1>7. FixtureEdges = {<<e[1] + 0, e[2] + 0>> : e \in FixtureEdges}
  BY <1>6
<1>. QED
  BY <1>1, <1>5, <1>7 DEF n

(* Nodes and relations of the fixture, as an empty file of the current     *)
(* version comes to have them.                                             *)
LEMMA FixtureNodesIngested ==
  ASSUME NEW db, Sound(db), Current(db), db.nodes = {}, db.seq = 0
  PROVE  WithNodes(db, Cardinality(FixtureNodes)).nodes = FixtureNodes
<1>1. Cardinality(FixtureNodes) \in Nat
  BY FixtureFacts
<1>2. WithNodes(db, Cardinality(FixtureNodes)).nodes
        = db.nodes \cup (db.seq + 1 .. db.seq + Cardinality(FixtureNodes))
  BY <1>1, WithNodesCurrent
<1>3. 0 + 1 .. 0 + Cardinality(FixtureNodes) = 1 .. Cardinality(FixtureNodes)
  BY <1>1
<1>. QED
  BY <1>2, <1>3, FixtureNumbered

LEMMA FixtureEdgesIngested ==
  ASSUME NEW db, Sound(db), Current(db), db.nodes = FixtureNodes, db.edges = {}
  PROVE  LET offset == Highest(db.nodes) - Cardinality(FixtureNodes)
             more == {<<e[1] + offset, e[2] + offset>> : e \in FixtureEdges}
         IN more = FixtureEdges /\ more \in SUBSET (db.nodes \X db.nodes)
<1>. DEFINE offset == Highest(db.nodes) - Cardinality(FixtureNodes)
            more == {<<e[1] + offset, e[2] + offset>> : e \in FixtureEdges}
<1>1. offset = 0
  BY FixtureFacts
<1>2. more = {<<e[1] + 0, e[2] + 0>> : e \in FixtureEdges}
  BY <1>1
<1>3. more = FixtureEdges
  BY <1>2, FixtureFacts
<1>. QED
  BY <1>3, FixtureNumbered

LEMMA FilesStep ==
  ASSUME FileInv, NEW p \in Processes, Step(p) \/ Crash(p)
  PROVE  FilesInv' /\ FilesMove(p)
<1>. USE DEF FileInv
<1>1. ASSUME pc[p] \notin {"start", "temp", "open_temp"}
      PROVE  /\ handle[p] \in DOMAIN files /\ Sound(File(p)) /\ File(p) \in DatabaseRecord
             /\ Current(File(p)) =>
                  Acceptable(File(p)) /\ issued[handle[p]] \subseteq 1 .. File(p).seq
  <2>1. handle[p] \in DOMAIN files
    BY <1>1 DEF ProcessInv
  <2>. QED
    BY <2>1, FileFacts, CurrentAcceptable
<1>2. ASSUME ReadMetadata(p) \/ CountTables(p) \/ ReadVersion(p) \/ ValidateCoordinates(p)
             \/ SkipTarget(p) \/ TargetNodes(p) \/ TargetRelations(p)
             \/ BuildNodes(p) \/ BuildRevision(p) \/ ClearTemp(p) \/ Rename(p)
             \/ OpenForCheck(p) \/ CheckRows(p) \/ CheckMetadata(p) \/ Reject(p) \/ Crash(p)
      PROVE  FilesInv' /\ FilesMove(p)
  <2>1. CASE SkipTarget(p)
    BY <2>1, FilesStand, Zenon DEF SkipTarget
  <2>2. CASE ~SkipTarget(p)
    <3>1. files' = files /\ issued' = issued /\ (writer' = writer \/ Release(p))
      BY <1>2, <2>2 DEF ReadMetadata, CountTables, ReadVersion, ValidateCoordinates,
                        TargetNodes, TargetRelations, TargetEmpty, BuildNodes, BuildRevision, ClearTemp, Rename, OpenForCheck, CheckRows,
                        CheckMetadata, Reject, Crash, Fail, Finish
    <3>. QED
      BY <3>1, FilesStand
  <2>. QED
    BY <2>1, <2>2
<1>3. ASSUME OpenDatabase(p) \/ LookAtTarget(p) \/ OpenTemp(p)
      PROVE  FilesInv' /\ FilesMove(p)
  <2>1. Database \in Paths /\ Temp(p) \in Paths
    BY DEF Paths
  <2>2. \E path \in Paths, for \in {"command", "target", "temp"} : OpenPath(p, path, for)
    BY <1>3, <2>1 DEF OpenDatabase, LookAtTarget, OpenTemp
  <2>. QED
    BY <2>2, FilesOfOpening
<1>4. ASSUME CreateMetadata(p) PROVE FilesInv' /\ FilesMove(p)
  <2>1. handle[p] \in DOMAIN files
    BY <1>1, <1>4 DEF CreateMetadata
  <2>2. CASE Busy(p) \/ File(p).format # "none"
    BY <1>4, <2>2, FilesStand DEF CreateMetadata, Fail, Finish
  <2>3. CASE ~(Busy(p) \/ File(p).format # "none")
    <3>1. files' = files
      BY <1>4, <2>1, <2>3, NotVisible DEF CreateMetadata
    <3>. QED
      BY <1>4, <2>1, <2>3, <3>1, FilesStand DEF CreateMetadata
  <2>. QED
    BY <2>2, <2>3
<1>5. ASSUME InsertMetadata(p) PROVE FilesInv' /\ FilesMove(p)
  <2>1. handle[p] \in DOMAIN files
    BY <1>1, <1>5 DEF InsertMetadata
  <2>2. files' = files
    BY <1>5, <2>1, NotVisible DEF InsertMetadata
  <2>. QED
    BY <1>5, <2>2, FilesStand DEF InsertMetadata
<1>6. ASSUME Migrate(p) PROVE FilesInv' /\ FilesMove(p)
  <2>1. handle[p] \in DOMAIN files
    BY <1>1, <1>6 DEF Migrate
  <2>2. CASE files' = files /\ issued' = issued /\ Release(p)
    BY <2>2, FilesStand
  <2>3. CASE ~Busy(p) /\ Locked(p) /\ issued' = issued /\ \E db : Write(p, db)
    <3>1. files' = files
      BY <2>1, <2>3, NotVisible
    <3>. QED
      BY <2>1, <2>3, <3>1, FilesStand
  <2>. QED
    BY <1>6, <2>2, <2>3 DEF Migrate, Fail, Finish
<1>7. ASSUME Commit(p) PROVE FilesInv' /\ FilesMove(p)
  <2>1. handle[p] \in DOMAIN files /\ pc[p] = "migrate" /\ version[p] = SchemaVersion
    BY <1>1, <1>7 DEF Commit
  <2>2. Holds(p) /\ Underway(File(p), txn[p], SchemaVersion)
    <3>1. ~(version[p] < SchemaVersion)
      BY <2>1 DEF SchemaVersion
    <3>. QED
      BY <2>1, <3>1 DEF ProcessInv
  <2>3. /\ Acceptable(File(p)) /\ Sound(txn[p]) /\ Current(txn[p])
        /\ Current(File(p)) => Grows(File(p), txn[p])
    <3>1. Acceptable(File(p)) /\ Sound(txn[p]) /\ Current(txn[p])
      BY <2>2 DEF Underway, Current
    <3>2. txn[p].revision \in Nat
      BY <3>1, CurrentFields
    <3>. QED
      BY <2>2, <3>1, <3>2 DEF Underway, Grows
  <2>4. txn[p].nodes \in SUBSET Nat /\ txn[p].nodes \subseteq 1 .. txn[p].seq
    BY <2>3, CurrentFields
  <2>5. ~Busy(p)
    BY <2>2 DEF Busy, Holds
  <2>6. /\ files' = [files EXCEPT ![handle[p]] = txn[p]]
        /\ issued' = [issued EXCEPT ![handle[p]] = txn[p].nodes] /\ Release(p)
    BY <1>7 DEF Commit
  <2>. QED
    BY <2>1, <2>3, <2>4, <2>5, <2>6, FilesWritten
<1>8. ASSUME Add(p) PROVE FilesInv' /\ FilesMove(p)
  <2>1. handle[p] \in DOMAIN files /\ Sound(File(p)) /\ Current(File(p))
    BY <1>1, <1>8 DEF Add, Working, ProcessInv
  <2>2. /\ Sound(WithNodes(File(p), 1)) /\ Current(WithNodes(File(p), 1))
        /\ WithNodes(File(p), 1).seq = File(p).seq + 1
        /\ Grows(File(p), WithNodes(File(p), 1))
    BY <2>1, WithNodesCurrent
  <2>3. File(p).seq \in Nat
    BY <2>1, CurrentFields
  <2>4. File(p).seq <= WithNodes(File(p), 1).seq
    BY <2>2, <2>3
  <2>. QED
    BY <1>8, <2>1, <2>2, <2>4, FilesOfWrites DEF Add
<1>9. ASSUME Rollback(p) PROVE FilesInv' /\ FilesMove(p)
  <2>1. /\ handle[p] \in DOMAIN files /\ Sound(File(p)) /\ Current(File(p))
        /\ File(p).seq \in Nat /\ Grows(File(p), File(p))
    <3>1. handle[p] \in DOMAIN files /\ Sound(File(p)) /\ Current(File(p))
      BY <1>1, <1>9 DEF Rollback, Working, ProcessInv
    <3>2. File(p).seq \in Nat /\ File(p).revision \in Nat
      BY <3>1, CurrentFields
    <3>. QED
      BY <3>1, <3>2 DEF Grows
  <2>. DEFINE free == File(p).nodes \ Linked(File(p))
  <2>2. CASE free = {}
    <3>1. Writes(p, File(p), "NotFound")
      BY <1>9, <2>2 DEF Rollback
    <3>. QED
      BY <2>1, <3>1, FilesOfWrites
  <2>3. CASE free # {}
    <3>1. Writes(p, WithoutNode(File(p), Highest(free)), "RolledBack")
      BY <1>9, <2>3 DEF Rollback
    <3>2. Highest(free) \in free
      <4>1. Recognized(File(p)) /\ File(p).version <= SchemaVersion
        BY <2>1 DEF Current, SchemaVersion
      <4>2. free \in SUBSET File(p).nodes
        OBVIOUS
      <4>. QED
        BY <2>1, <2>3, <4>1, <4>2, HighestInFile
    <3>3. /\ Sound(WithoutNode(File(p), Highest(free)))
          /\ Current(WithoutNode(File(p), Highest(free)))
          /\ File(p).seq <= WithoutNode(File(p), Highest(free)).seq
          /\ Grows(File(p), WithoutNode(File(p), Highest(free)))
      BY <2>1, <3>2, WithoutNodeCurrent
    <3>. QED
      BY <2>1, <3>1, <3>3, FilesOfWrites
  <2>. QED
    BY <2>2, <2>3
<1>10. ASSUME BuildWrite(p) PROVE FilesInv' /\ FilesMove(p)
  <2>1. /\ handle[p] \in DOMAIN files /\ Sound(File(p)) /\ Current(File(p)) /\ File(p).seq \in Nat
        /\ File(p).revision \in Nat /\ view[p] \in Overlays /\ ReadsNodes(view[p], File(p))
        /\ view[p].since <= view[p].revision /\ view[p].revision <= File(p).revision
    BY <1>1, <1>10, CurrentFields DEF BuildWrite, ProcessInv, ViewInv
  <2>2. CASE view[p].nodes \subseteq File(p).nodes
    <3>. DEFINE new == [File(p) EXCEPT !.overlay = view[p]]
    <3>1. Sound(new) /\ Current(new) /\ new.seq = File(p).seq /\ Grows(File(p), new)
      BY <2>1, <2>2, OverlayCurrent
    <3>2. Writes(p, new, "Built")
      BY <1>10, <2>2 DEF BuildWrite
    <3>. HIDE DEF new
    <3>. QED
      BY <2>1, <3>1, <3>2, FilesOfWrites
  <2>3. CASE ~(view[p].nodes \subseteq File(p).nodes)
    <3>1. Writes(p, File(p), "Database")
      BY <1>10, <2>3 DEF BuildWrite
    <3>2. Grows(File(p), File(p))
      BY <2>1 DEF Grows
    <3>. QED
      BY <2>1, <3>1, <3>2, FilesOfWrites
  <2>. QED
    BY <2>2, <2>3
<1>11. ASSUME IngestNodes(p) PROVE FilesInv' /\ FilesMove(p)
  <2>. DEFINE new == WithNodes(File(p), Cardinality(FixtureNodes))
  <2>1. /\ handle[p] \in DOMAIN files /\ Sound(File(p)) /\ Current(File(p))
        /\ Acceptable(File(p)) /\ issued[handle[p]] \subseteq 1 .. File(p).seq
        /\ handle[p] = named[Temp(p)]
    BY <1>1, <1>11 DEF IngestNodes, Working, ProcessInv, DemoInv
  <2>2. /\ Sound(new) /\ Current(new)
        /\ new.seq = File(p).seq + Cardinality(FixtureNodes) /\ Grows(File(p), new)
    BY <2>1, FixtureFacts, WithNodesCurrent
  <2>3. /\ files' = [files EXCEPT ![handle[p]] = new] /\ writer' = writer
        /\ issued' = [issued EXCEPT ![handle[p]] = issued[handle[p]] \cup new.nodes]
    BY <1>11 DEF IngestNodes
  <2>. HIDE DEF new
  <2>4. /\ issued[handle[p]] \cup new.nodes \in SUBSET Nat
        /\ issued[handle[p]] \cup new.nodes \subseteq 1 .. new.seq
    <3>1. File(p).seq \in Nat /\ new.nodes \subseteq 1 .. new.seq /\ new.nodes \in SUBSET Nat
      BY <2>1, <2>2, CurrentFields
    <3>. QED
      BY <2>1, <2>2, <3>1, FixtureFacts
  <2>. QED
    BY <2>1, <2>2, <2>3, <2>4, FilesWritten
<1>12. ASSUME IngestRelations(p) PROVE FilesInv' /\ FilesMove(p)
  <2>. DEFINE offset == Highest(File(p).nodes) - Cardinality(FixtureNodes)
              more == {<<e[1] + offset, e[2] + offset>> : e \in FixtureEdges}
              new == [File(p) EXCEPT !.edges = @ \cup more]
  <2>1. /\ handle[p] \in DOMAIN files /\ Sound(File(p)) /\ Current(File(p))
        /\ Acceptable(File(p)) /\ issued[handle[p]] \subseteq 1 .. File(p).seq
        /\ handle[p] = named[Temp(p)] /\ File(p).nodes = FixtureNodes /\ File(p).edges = {}
    BY <1>1, <1>12 DEF IngestRelations, ProcessInv, DemoInv
  <2>2. more \in SUBSET (File(p).nodes \X File(p).nodes)
    BY <2>1, FixtureEdgesIngested
  <2>3. Sound(new) /\ Current(new) /\ new.seq = File(p).seq /\ Grows(File(p), new)
    <3>. HIDE DEF more
    <3>. QED
      BY <2>1, <2>2, RelatedCurrent
  <2>4. files' = [files EXCEPT ![handle[p]] = new] /\ writer' = writer
    BY <1>12 DEF IngestRelations, File
  <2>. HIDE DEF new
  <2>5. issued[handle[p]] \in SUBSET Nat /\ issued' = [issued EXCEPT ![handle[p]] = issued[handle[p]]]
    <3>1. issued \in Seq(SUBSET Nat) /\ DOMAIN issued = DOMAIN files
      BY LenProperties DEF FilesInv
    <3>2. issued[handle[p]] \in SUBSET Nat
      BY <2>1, <3>1
    <3>3. [issued EXCEPT ![handle[p]] = issued[handle[p]]] = issued
      BY <2>1, <3>1, <3>2, SequenceReplaced
    <3>. QED
      BY <1>12, <3>2, <3>3 DEF IngestRelations
  <2>6. issued[handle[p]] \subseteq 1 .. new.seq
    BY <2>1, <2>3
  <2>. QED
    BY <2>1, <2>3, <2>4, <2>5, <2>6, FilesWritten
<1>. QED
  BY <1>2, <1>3, <1>4, <1>5, <1>6, <1>7, <1>8, <1>9, <1>10, <1>11, <1>12 DEF Step

-----------------------------------------------------------------------------
(* What a step of p leaves of the others: where they stand, what they have *)
(* read, and their temporary files.                                        *)
OthersStand(p) ==
  \A q \in Processes \ {p} :
    /\ todo'[q] = todo[q] /\ pc'[q] = pc[q] /\ goal'[q] = goal[q] /\ handle'[q] = handle[q]
    /\ version'[q] = version[q] /\ txn'[q] = txn[q] /\ reply'[q] = reply[q]
    /\ named'[Temp(q)] = named[Temp(q)]

LEMMA TempFacts ==
  /\ Database \in Paths
  /\ \A p \in Processes : Temp(p) \in Paths /\ Temp(p) # Database
  /\ \A p, q \in Processes : Temp(p) = Temp(q) => p = q
BY DEF Paths, Temp, Database

(* The end of a command, whatever it answers. *)
LEMMA ControlOfFinish ==
  ASSUME FileInv, NEW p \in Processes, todo[p] # <<>>, NEW answer \in Replies,
         Finish(p, answer), UNCHANGED <<handle, version, txn>>,
         DOMAIN files \subseteq DOMAIN files',
         \A q \in Processes \ {p} : named'[Temp(q)] = named[Temp(q)]
  PROVE  ControlInv' /\ OthersStand(p)
<1>1. todo[p] \in Seq(Commands) /\ Tail(todo[p]) \in Seq(Commands)
  <2>1. todo[p] \in Seq(Commands)
    BY DEF FileInv, ControlInv
  <2>. QED
    BY <2>1, HeadTailProperties
<1>2. /\ todo' = [todo EXCEPT ![p] = Tail(todo[p])] /\ pc' = [pc EXCEPT ![p] = "start"]
      /\ goal' = [goal EXCEPT ![p] = "command"] /\ reply' = [reply EXCEPT ![p] = answer]
  BY DEF Finish, Goto
<1>3. ControlInv'
  BY <1>1, <1>2 DEF FileInv, ControlInv, Pcs
<1>4. OthersStand(p)
  BY <1>2 DEF FileInv, ControlInv, OthersStand
<1>. QED
  BY <1>3, <1>4

(* A command goes on. *)
LEMMA ControlOfGoto ==
  ASSUME FileInv, NEW p \in Processes, todo[p] # <<>>, NEW next \in Pcs, Goto(p, next),
         UNCHANGED <<todo, reply>>, DOMAIN files \subseteq DOMAIN files',
         NEW for \in {"command", "target", "temp"}, goal' = [goal EXCEPT ![p] = for],
         NEW h \in DOMAIN files' \cup {NoFile}, handle' = [handle EXCEPT ![p] = h],
         NEW k \in 0 .. SchemaVersion, version' = [version EXCEPT ![p] = k],
         NEW db \in DatabaseRecord, txn' = [txn EXCEPT ![p] = db],
         \A q \in Processes \ {p} : named'[Temp(q)] = named[Temp(q)]
  PROVE  ControlInv' /\ OthersStand(p)
<1>1. pc' = [pc EXCEPT ![p] = next]
  BY DEF Goto
<1>2. ControlInv'
  BY <1>1 DEF FileInv, ControlInv
<1>3. OthersStand(p)
  BY <1>1 DEF FileInv, ControlInv, OthersStand
<1>. QED
  BY <1>2, <1>3

LEMMA ControlOfMove ==
  ASSUME FileInv, NEW p \in Processes, todo[p] # <<>>, NEW next \in Pcs, Goto(p, next),
         UNCHANGED <<todo, reply, goal, handle, version, txn>>,
         DOMAIN files \subseteq DOMAIN files',
         \A q \in Processes \ {p} : named'[Temp(q)] = named[Temp(q)]
  PROVE  ControlInv' /\ OthersStand(p)
<1>1. /\ goal[p] \in {"command", "target", "temp"} /\ goal' = [goal EXCEPT ![p] = goal[p]]
      /\ handle[p] \in DOMAIN files' \cup {NoFile} /\ handle' = [handle EXCEPT ![p] = handle[p]]
      /\ version[p] \in 0 .. SchemaVersion /\ version' = [version EXCEPT ![p] = version[p]]
      /\ txn[p] \in DatabaseRecord /\ txn' = [txn EXCEPT ![p] = txn[p]]
  BY DEF FileInv, ControlInv
<1>. QED
  BY <1>1, ControlOfGoto

LEMMA ControlStep ==
  ASSUME FileInv, NEW p \in Processes, Step(p) \/ Crash(p)
  PROVE  ControlInv' /\ OthersStand(p)
<1>1. /\ DOMAIN files \subseteq DOMAIN files'
      /\ named \in [Paths -> DOMAIN files \cup {NoFile}] /\ pc[p] \in Pcs
      /\ pc[p] # "start" => todo[p] # <<>>
      /\ handle \in [Processes -> DOMAIN files \cup {NoFile}]
      /\ version[p] \in 0 .. SchemaVersion /\ version = [version EXCEPT ![p] = version[p]]
      /\ txn[p] \in DatabaseRecord /\ txn = [txn EXCEPT ![p] = txn[p]]
      /\ goal[p] \in {"command", "target", "temp"} /\ goal = [goal EXCEPT ![p] = goal[p]]
      /\ handle[p] \in DOMAIN files \cup {NoFile} /\ handle = [handle EXCEPT ![p] = handle[p]]
  BY FilesStep DEF FileInv, FilesMove, NamesInv, ControlInv
<1>2. ASSUME NEW x, NEW path \in {Database, Temp(p)}
      PROVE  \A q \in Processes \ {p} : [named EXCEPT ![path] = x][Temp(q)] = named[Temp(q)]
  BY <1>1, TempFacts
<1>3. ASSUME UNCHANGED <<handle, version, txn>>, pc[p] # "start",
             NEW answer \in Replies, Fail(p, answer)
      PROVE  ControlInv' /\ OthersStand(p)
  <2>1. named' = [named EXCEPT ![Temp(p)] = NoFile] \/ named' = named
    BY <1>3 DEF Fail
  <2>2. \A q \in Processes \ {p} : named'[Temp(q)] = named[Temp(q)]
    BY <1>2, <2>1
  <2>3. Finish(p, answer)
    BY <1>3 DEF Fail
  <2>. QED
    BY <1>1, <1>3, <2>2, <2>3, ControlOfFinish
<1>4. ASSUME UNCHANGED <<todo, reply, goal, handle, version, txn, named>>, todo[p] # <<>>,
             NEW next \in Pcs, Goto(p, next)
      PROVE  ControlInv' /\ OthersStand(p)
  BY <1>1, <1>4, ControlOfMove
<1>5. ASSUME UNCHANGED <<handle, version, txn, named>>, todo[p] # <<>>,
             NEW answer \in Replies, Finish(p, answer)
      PROVE  ControlInv' /\ OthersStand(p)
  BY <1>1, <1>5, ControlOfFinish
<1>6. ASSUME NEW path \in {Database, Temp(p)}, NEW for \in {"command", "target", "temp"},
             OpenPath(p, path, for), todo[p] # <<>>, UNCHANGED <<todo, version, txn, reply>>
      PROVE  ControlInv' /\ OthersStand(p)
  <2>1. path \in Paths
    BY <1>6, TempFacts
  <2>2. /\ handle'[p] \in DOMAIN files' /\ named' = [named EXCEPT ![path] = handle'[p]]
        /\ handle' = [handle EXCEPT ![p] = handle'[p]]
    BY <1>1, <1>6, <2>1, Opened DEF FileInv
  <2>3. \A q \in Processes \ {p} : named'[Temp(q)] = named[Temp(q)]
    BY <1>2, <1>6, <2>2
  <2>4. Goto(p, "metadata") /\ goal' = [goal EXCEPT ![p] = for] /\ "metadata" \in Pcs
    BY <1>6 DEF OpenPath, Pcs, Opening
  <2>. QED
    BY <1>1, <1>6, <2>2, <2>3, <2>4, ControlOfGoto
<1>7. ASSUME pc[p] # "start", UNCHANGED <<todo, reply, goal, handle, named>>,
             NEW next \in Pcs, Goto(p, next),
             NEW k \in 0 .. SchemaVersion, version' = [version EXCEPT ![p] = k],
             NEW db \in DatabaseRecord, txn' = [txn EXCEPT ![p] = db]
      PROVE  ControlInv' /\ OthersStand(p)
  <2>1. goal' = [goal EXCEPT ![p] = goal[p]] /\ handle' = [handle EXCEPT ![p] = handle[p]]
    BY <1>1, <1>7
  <2>2. handle[p] \in DOMAIN files' \cup {NoFile}
    BY <1>1
  <2>3. \A q \in Processes \ {p} : named'[Temp(q)] = named[Temp(q)]
    BY <1>7
  <2>. QED
    BY <1>1, <1>7, <2>1, <2>2, <2>3, ControlOfGoto
<1>. USE DEF Pcs, Opening, Replies
<1>8. CASE OpenDatabase(p)
  BY <1>6, <1>8 DEF OpenDatabase
<1>9. CASE ReadMetadata(p)
  BY <1>1, <1>4, <1>9 DEF ReadMetadata
<1>10. CASE CountTables(p)
  BY <1>1, <1>3, <1>4, <1>10 DEF CountTables
<1>11. CASE ReadVersion(p)
  <2>1. CASE \E answer \in Replies : Fail(p, answer) /\ UNCHANGED <<handle, txn, version>>
    BY <1>3, <1>11, <2>1 DEF ReadVersion
  <2>2. CASE /\ version' = [version EXCEPT ![p] = File(p).version]
             /\ \E next \in Pcs : Goto(p, next)
             /\ UNCHANGED <<named, writer, todo, goal, reply, handle, txn>>
             /\ Recognized(File(p)) /\ ~(File(p).version > SchemaVersion)
    <3>1. pc[p] # "start" /\ handle[p] \in DOMAIN files
      BY <1>11 DEF ReadVersion, FileInv, ProcessInv
    <3>2. File(p).version \in Nat
      BY <3>1, FileFacts DEF FileInv, DatabaseRecord
    <3>3. File(p).version \in 0 .. SchemaVersion
      BY <2>2, <3>2 DEF SchemaVersion
    <3>4. PICK next \in Pcs : Goto(p, next)
      BY <2>2
    <3>5. txn' = [txn EXCEPT ![p] = txn[p]] /\ txn[p] \in DatabaseRecord
      BY <1>1, <2>2
    <3>. QED
      BY <1>7, <2>2, <3>1, <3>3, <3>4, <3>5
  <2>. QED
    BY <1>11, <2>1, <2>2 DEF ReadVersion
<1>12. CASE ValidateCoordinates(p)
  BY <1>1, <1>3, <1>4, <1>12 DEF ValidateCoordinates
<1>13. CASE CreateMetadata(p)
  <2>1. CASE Busy(p) \/ File(p).format # "none"
    BY <1>3, <1>13, <2>1 DEF CreateMetadata
  <2>2. CASE ~(Busy(p) \/ File(p).format # "none")
    <3>1. File(p) = Empty
      BY <1>13, <2>2 DEF CreateMetadata, FileInv, ProcessInv, Current, Recognized
    <3>2. [Empty EXCEPT !.format = "no_row"] \in DatabaseRecord
      BY MetadataWritten
    <3>3. txn' = [txn EXCEPT ![p] = [Empty EXCEPT !.format = "no_row"]]
      BY <1>13, <2>2, <3>1 DEF CreateMetadata, Write
    <3>4. version' = [version EXCEPT ![p] = version[p]]
      BY <1>1, <1>13 DEF CreateMetadata
    <3>. QED
      BY <1>1, <1>7, <1>13, <2>2, <3>2, <3>3, <3>4 DEF CreateMetadata
  <2>. QED
    BY <2>1, <2>2
<1>14. CASE InsertMetadata(p)
  <2>. DEFINE new == [[Empty EXCEPT !.format = "no_row"] EXCEPT !.format = "memory3d",
                                                                !.version = 0]
  <2>1. txn[p] = [Empty EXCEPT !.format = "no_row"]
    BY <1>14 DEF InsertMetadata, FileInv, ProcessInv
  <2>2. txn' = [txn EXCEPT ![p] = new]
    BY <1>14, <2>1 DEF InsertMetadata, Write
  <2>3. new \in DatabaseRecord
    BY MetadataWritten DEF Underway, Sound
  <2>4. 0 \in 0 .. SchemaVersion /\ version' = [version EXCEPT ![p] = 0]
    BY <1>14 DEF InsertMetadata, SchemaVersion
  <2>. HIDE DEF new
  <2>. QED
    BY <1>7, <1>14, <2>2, <2>3, <2>4 DEF InsertMetadata
<1>15. CASE Migrate(p)
  <2>. DEFINE db == IF writer[handle[p]] = p THEN txn[p] ELSE File(p)
              new == Migrated(db, version[p])
  <2>1. pc[p] = "migrate" /\ version[p] < SchemaVersion
    BY <1>15 DEF Migrate
  <2>2. CASE Busy(p) \/ version[p] + 1 \in db.batches
    BY <1>3, <1>15, <2>1, <2>2 DEF Migrate
  <2>3. CASE ~(Busy(p) \/ version[p] + 1 \in db.batches)
    <3>1. Underway(File(p), new, version[p] + 1)
      BY <2>1, <2>3, MigrationBase
    <3>2. /\ txn' = [txn EXCEPT ![p] = new] /\ version' = [version EXCEPT ![p] = version[p] + 1]
          /\ UNCHANGED <<named, todo, goal, reply, pc, handle>>
      BY <1>15, <2>3 DEF Migrate, Write
    <3>. HIDE DEF new, db
    <3>3. new \in DatabaseRecord
      BY <3>1 DEF Underway, Sound
    <3>4. version[p] + 1 \in 0 .. SchemaVersion
      BY <1>1, <2>1 DEF SchemaVersion
    <3>5. Goto(p, "migrate")
      <4>1. pc = [pc EXCEPT ![p] = pc[p]]
        BY DEF FileInv, ControlInv
      <4>. QED
        BY <2>1, <3>2, <4>1 DEF Goto
    <3>. QED
      BY <1>7, <2>1, <3>2, <3>3, <3>4, <3>5
  <2>. QED
    BY <2>2, <2>3
<1>16. CASE Commit(p)
  BY <1>1, <1>4, <1>16 DEF Commit
<1>17. CASE Add(p) \/ Rollback(p) \/ BuildWrite(p)
  <2>1. pc[p] # "start" /\ UNCHANGED <<handle, version, txn, named>>
    BY <1>17 DEF Add, Rollback, BuildWrite, Working, Writes
  <2>2. \E answer \in Replies : Finish(p, answer)
    BY <1>17 DEF Add, Rollback, BuildWrite, Writes
  <2>. QED
    BY <1>1, <1>5, <2>1, <2>2
<1>18. CASE LookAtTarget(p)
  <2>1. OpenPath(p, Database, "target") /\ UNCHANGED <<todo, version, txn, reply>>
    BY <1>18 DEF LookAtTarget
  <2>2. todo[p] # <<>>
    BY <1>18, Zenon DEF LookAtTarget, IsDemo
  <2>. QED
    BY <1>6, <2>1, <2>2
<1>19. CASE SkipTarget(p)
  <2>1. /\ todo[p] # <<>> /\ Goto(p, "temp")
        /\ UNCHANGED <<todo, reply, goal, handle, version, txn, named>>
    BY <1>19, Zenon DEF SkipTarget, IsDemo
  <2>. QED
    BY <1>4, <2>1
<1>20. CASE TargetNodes(p) \/ TargetRelations(p)
  <2>1. pc[p] # "start" /\ UNCHANGED <<handle, version, txn>> /\ {"temp", "target_relations"} \subseteq Pcs
    BY <1>20 DEF TargetNodes, TargetRelations, TargetEmpty, Working, Pcs
  <2>2. \/ Fail(p, "Populated")
        \/ UNCHANGED <<todo, reply, goal, named>> /\ (Goto(p, "temp") \/ Goto(p, "target_relations"))
    BY <1>20 DEF TargetNodes, TargetRelations, TargetEmpty
  <2>3. "Populated" \in Replies
    BY DEF Replies
  <2>. QED
    BY <1>1, <1>3, <1>4, <2>1, <2>2, <2>3
<1>21. CASE ClearTemp(p)
  <2>1. \A q \in Processes \ {p} : named'[Temp(q)] = named[Temp(q)]
    BY <1>2, <1>21 DEF ClearTemp, Cleared
  <2>. QED
    BY <1>1, <1>21, <2>1, ControlOfMove DEF ClearTemp
<1>22. CASE OpenTemp(p)
  BY <1>1, <1>6, <1>22 DEF OpenTemp
<1>23. CASE IngestNodes(p)
  BY <1>1, <1>4, <1>23 DEF IngestNodes, Working
<1>24. CASE IngestRelations(p)
  BY <1>1, <1>4, <1>24 DEF IngestRelations
<1>25. CASE Rename(p)
  <2>1. \A q \in Processes \ {p} : named'[Temp(q)] = named[Temp(q)]
    BY <1>1, <1>25, TempFacts DEF Rename
  <2>. QED
    BY <1>1, <1>25, <2>1, ControlOfFinish DEF Rename
<1>26. CASE OpenForCheck(p)
  <2>1. CASE named[Database] = NoFile
    BY <1>5, <1>26, <2>1 DEF OpenForCheck
  <2>2. CASE named[Database] # NoFile
    <3>1. /\ handle' = [handle EXCEPT ![p] = named[Database]]
          /\ named[Database] \in DOMAIN files' \cup {NoFile}
      BY <1>1, <1>26, <2>2, TempFacts DEF OpenForCheck
    <3>2. /\ Goto(p, "check_rows") /\ UNCHANGED <<todo, reply, goal, version, txn, named>>
          /\ todo[p] # <<>> /\ goal' = [goal EXCEPT ![p] = goal[p]]
          /\ version' = [version EXCEPT ![p] = version[p]] /\ txn' = [txn EXCEPT ![p] = txn[p]]
      BY <1>1, <1>26, <2>2 DEF OpenForCheck
    <3>3. \A q \in Processes \ {p} : named'[Temp(q)] = named[Temp(q)]
      BY <3>2
    <3>. QED
      BY <1>1, <3>1, <3>2, <3>3, ControlOfGoto
  <2>. QED
    BY <2>1, <2>2
<1>27. CASE CheckRows(p)
  BY <1>1, <1>4, <1>27 DEF CheckRows
<1>28. CASE CheckMetadata(p)
  <2>1. pc[p] # "start" /\ UNCHANGED <<handle, version, txn, named>>
    BY <1>28 DEF CheckMetadata
  <2>2. \E answer \in Replies : Finish(p, answer)
    BY <1>28 DEF CheckMetadata
  <2>. QED
    BY <1>1, <1>5, <2>1, <2>2
<1>29. CASE Reject(p) \/ Crash(p)
  BY <1>1, <1>5, <1>29 DEF Reject, Working, Crash
<1>30. CASE BuildNodes(p) \/ BuildRevision(p)
  <2>1. /\ pc[p] # "start" /\ UNCHANGED <<todo, reply, goal, handle, version, txn, named>>
        /\ Goto(p, "build_revision") \/ Goto(p, "build_write")
    BY <1>30 DEF BuildNodes, BuildRevision, Working
  <2>. QED
    BY <1>1, <1>4, <2>1
<1>. QED
  BY <1>8, <1>9, <1>10, <1>11, <1>12, <1>13, <1>14, <1>15, <1>16, <1>17, <1>18, <1>19, <1>20,
     <1>21, <1>22, <1>23, <1>24, <1>25, <1>26, <1>27, <1>28, <1>29, <1>30 DEF Step

(* Only a build reads for itself what it will write. *)
LEMMA ViewStep ==
  ASSUME FileInv, NEW p \in Processes, Step(p) \/ Crash(p)
  PROVE  ViewInv' /\ \A q \in Processes \ {p} : view'[q] = view[q]
<1>1. view \in [Processes -> Overlays]
  BY DEF FileInv, ViewInv
<1>2. ASSUME NEW read \in Overlays, view' = [view EXCEPT ![p] = read]
      PROVE  ViewInv' /\ \A q \in Processes \ {p} : view'[q] = view[q]
  BY <1>1, <1>2 DEF ViewInv
<1>3. ASSUME pc[p] \in {"opened", "build_revision"}
      PROVE  File(p).nodes \in SUBSET Nat /\ File(p).revision \in Nat
  <2>1. File(p) \in DatabaseRecord
    BY <1>3, FileFacts DEF FileInv, ProcessInv
  <2>. QED
    BY <2>1 DEF DatabaseRecord
<1>4. CASE BuildNodes(p)
  <2>1. view' = [view EXCEPT ![p] = Overlay(-1, File(p).nodes, File(p).revision)]
    BY <1>4 DEF BuildNodes
  <2>2. Overlay(-1, File(p).nodes, File(p).revision) \in Overlays
    BY <1>3, <1>4 DEF BuildNodes, Working, Overlay, Overlays
  <2>. QED
    BY <1>2, <2>1, <2>2
<1>5. CASE BuildRevision(p)
  <2>. DEFINE read == [view[p] EXCEPT !.revision = File(p).revision]
  <2>1. view' = [view EXCEPT ![p] = read]
    BY <1>5 DEF BuildRevision
  <2>2. read \in Overlays
    BY <1>1, <1>3, <1>5 DEF BuildRevision, Overlays
  <2>. HIDE DEF read
  <2>. QED
    BY <1>2, <2>1, <2>2
<1>6. CASE SkipTarget(p)
  <2>1. view' = view
    BY <1>6, Zenon DEF SkipTarget
  <2>. QED
    BY <1>1, <2>1 DEF ViewInv
<1>7. CASE ~(BuildNodes(p) \/ BuildRevision(p) \/ SkipTarget(p))
  <2>1. view' = view
    BY <1>7 DEF Step, Reject, Crash, OpenDatabase, ReadMetadata, CountTables, ReadVersion,
                ValidateCoordinates, CreateMetadata, InsertMetadata, Migrate, Commit, Add,
                Rollback, BuildWrite, Writes, LookAtTarget, TargetNodes, TargetRelations,
                TargetEmpty, ClearTemp, OpenTemp, IngestNodes, IngestRelations, Rename,
                OpenForCheck, CheckRows, CheckMetadata
  <2>. QED
    BY <1>1, <2>1 DEF ViewInv
<1>. QED
  BY <1>4, <1>5, <1>6, <1>7

LEMMA LockStep ==
  ASSUME FileInv, NEW p \in Processes, Step(p) \/ Crash(p)
  PROVE  LockInv'
<1>1. FilesInv' /\ FilesMove(p) /\ ControlInv' /\ OthersStand(p) /\ FilesInv /\ LockInv
  BY FilesStep, ControlStep DEF FileInv
<1>2. ASSUME NEW i \in DOMAIN files, writer'[i] = p
      PROVE  pc'[p] \in {"insert", "migrate"} /\ handle'[p] = i
  <2>1. ASSUME Release(p) PROVE FALSE
    BY <1>1, <1>2, <2>1, Released, NamesDistinct
  <2>2. CASE writer' = writer \/ \A j \in DOMAIN files : writer'[j] = writer[j]
    <3>1. writer[i] = p
      BY <1>2, <2>2
    <3>2. pc[p] \in {"insert", "migrate"} /\ handle[p] = i
      BY <1>1, <3>1 DEF LockInv
    <3>3. CASE InsertMetadata(p)
      BY <3>2, <3>3 DEF InsertMetadata, Goto, FileInv, ControlInv
    <3>4. CASE Migrate(p)
      BY <2>1, <3>2, <3>4 DEF Migrate, Fail, Finish
    <3>5. CASE Commit(p)
      BY <2>1, <3>5 DEF Commit
    <3>6. CASE Crash(p)
      BY <2>1, <3>6 DEF Crash, Finish
    <3>7. ~SkipTarget(p)
      BY <3>2, Zenon DEF SkipTarget
    <3>. QED
      BY <3>2, <3>3, <3>4, <3>5, <3>6, <3>7
      DEF Step, Reject, OpenDatabase, ReadMetadata, CountTables, ReadVersion, ValidateCoordinates,
          CreateMetadata, Add, Rollback, BuildWrite, Working, LookAtTarget,
          TargetNodes, TargetRelations, TargetEmpty, BuildNodes, BuildRevision, ClearTemp, OpenTemp, IngestNodes, IngestRelations, Rename,
          OpenForCheck, CheckRows, CheckMetadata
  <2>3. CASE Locked(p) /\ handle' = handle /\ pc'[p] \in {"insert", "migrate"}
             /\ handle[p] \in DOMAIN files
    <3>1. i # handle[p] => writer[i] = p
      BY <1>1, <1>2, <2>3, Taken
    <3>. QED
      BY <1>1, <2>3, <3>1 DEF LockInv
  <2>4. CASE OpenDatabase(p) \/ LookAtTarget(p) \/ OpenTemp(p)
    <3>1. \E path \in Paths, for \in {"command", "target", "temp"} : OpenPath(p, path, for)
      BY <2>4, TempFacts DEF OpenDatabase, LookAtTarget, OpenTemp
    <3>2. \A j \in DOMAIN files : writer'[j] = writer[j]
      BY <3>1, Opened DEF FileInv, NamesInv, ControlInv
    <3>. QED
      BY <2>2, <3>2
  <2>5. CASE CreateMetadata(p) \/ Migrate(p)
    <3>1. handle[p] \in DOMAIN files
      BY <2>5 DEF CreateMetadata, Migrate, FileInv, ProcessInv
    <3>2. CASE Fail(p, "Busy") \/ Fail(p, "AlreadyExists")
      BY <2>1, <3>2 DEF Fail, Finish
    <3>3. CASE Locked(p) /\ handle' = handle /\ (Goto(p, "insert") \/ (pc[p] = "migrate" /\ pc' = pc))
      <4>1. pc'[p] \in {"insert", "migrate"}
        BY <3>3 DEF Goto, FileInv, ControlInv
      <4>. QED
        BY <2>3, <3>1, <3>3, <4>1
    <3>. QED
      BY <2>5, <3>2, <3>3 DEF CreateMetadata, Migrate
  <2>6. CASE Add(p) \/ Rollback(p) \/ BuildWrite(p)
    <3>1. Release(p)
      BY <2>6 DEF Add, Rollback, BuildWrite, Writes, Finish
    <3>. QED
      BY <2>1, <3>1
  <2>7. CASE SkipTarget(p)
    <3>1. writer' = writer
      BY <2>7, Zenon DEF SkipTarget
    <3>. QED
      BY <2>2, <3>1
  <2>8. CASE writer' = writer \/ Release(p)
    BY <2>1, <2>2, <2>8
  <2>9. \/ OpenDatabase(p) \/ LookAtTarget(p) \/ OpenTemp(p) \/ CreateMetadata(p) \/ Migrate(p)
        \/ Add(p) \/ Rollback(p) \/ BuildWrite(p) \/ SkipTarget(p)
        \/ writer' = writer \/ Release(p)
    BY DEF Step, Reject, Crash, ReadMetadata, CountTables, ReadVersion, ValidateCoordinates,
           InsertMetadata, Commit, TargetNodes, TargetRelations, TargetEmpty, BuildNodes, BuildRevision, ClearTemp, IngestNodes, IngestRelations,
           Rename, OpenForCheck, CheckRows, CheckMetadata, Fail, Finish
  <2>. QED
    BY <2>4, <2>5, <2>6, <2>7, <2>8, <2>9
<1>3. ASSUME NEW i \in DOMAIN files', NEW q \in Processes, writer'[i] = q
      PROVE  pc'[q] \in {"insert", "migrate"} /\ handle'[q] = i
  <2>1. i \in DOMAIN files
    BY <1>1, <1>3, NamesDistinct DEF FilesMove
  <2>2. CASE q = p
    BY <1>2, <1>3, <2>1, <2>2
  <2>3. CASE q # p
    <3>1. writer[i] = q
      BY <1>1, <1>3, <2>1, <2>3, NamesDistinct DEF FilesMove
    <3>. QED
      BY <1>1, <2>1, <2>3, <3>1 DEF LockInv, OthersStand
  <2>. QED
    BY <2>2, <2>3
<1>. QED
  BY <1>3 DEF LockInv

LEMMA NamesStep ==
  ASSUME FileInv, NEW p \in Processes, Step(p) \/ Crash(p)
  PROVE  NamesInv'
<1>1. FilesInv' /\ FilesMove(p) /\ ControlInv' /\ OthersStand(p) /\ NamesInv /\ ControlInv
      /\ NoFile \notin Nat /\ DOMAIN files \subseteq DOMAIN files' /\ DOMAIN files' \subseteq Nat
  BY FilesStep, ControlStep, NamesDistinct, LenProperties DEF FileInv, FilesInv, FilesMove
<1>2. ASSUME NEW path \in {Database, Temp(p)}, NEW for, OpenPath(p, path, for),
             path = Temp(p) => named[path] = NoFile
      PROVE  NamesInv'
  <2>1. path \in Paths
    BY TempFacts
  <2>2. /\ handle'[p] \in DOMAIN files' /\ named' = [named EXCEPT ![path] = handle'[p]]
        /\ named[path] = NoFile => handle'[p] \in DOMAIN files' \ DOMAIN files
        /\ named[path] # NoFile => handle'[p] = named[path] /\ named' = named
    BY <1>1, <1>2, <2>1, Opened DEF FileInv, NamesInv, ControlInv
  <2>3. named' \in [Paths -> DOMAIN files' \cup {NoFile}]
    BY <1>1, <2>1, <2>2 DEF NamesInv
  <2>4. ASSUME NEW q \in Processes, named'[Temp(q)] # NoFile
        PROVE  /\ named'[Database] # named'[Temp(q)]
               /\ \A r \in Processes \ {q} :
                    named'[Temp(r)] # named'[Temp(q)] /\ handle'[r] # named'[Temp(q)]
    <3>1. \A x \in Paths : named[x] \in DOMAIN files \cup {NoFile}
      BY <1>1 DEF NamesInv
    <3>2. \A r \in Processes : handle[r] \in DOMAIN files \cup {NoFile}
      BY <1>1 DEF ControlInv
    <3>3. \A r \in Processes \ {p} : handle'[r] = handle[r] /\ named'[Temp(r)] = named[Temp(r)]
      BY <1>1 DEF OthersStand
    <3>4. CASE path = Database
      <4>1. \A r \in Processes : named'[Temp(r)] = named[Temp(r)]
        BY <1>1, <2>2, <3>4, TempFacts DEF NamesInv
      <4>2. named'[Database] = handle'[p]
        BY <1>1, <2>2, <3>4, TempFacts DEF NamesInv
      <4>3. named[Temp(q)] \in DOMAIN files
        BY <2>4, <3>1, <4>1, TempFacts
      <4>4. handle'[p] # named[Temp(q)]
        BY <1>1, <2>2, <2>4, <3>4, <4>1, <4>3 DEF NamesInv
      <4>. QED
        BY <1>1, <2>4, <3>3, <4>1, <4>2, <4>4 DEF NamesInv
    <3>5. CASE path = Temp(p)
      <4>1. named'[Database] = named[Database] /\ named'[Temp(p)] = handle'[p]
        BY <1>1, <2>2, <3>5, TempFacts DEF NamesInv
      <4>2. handle'[p] \in DOMAIN files' /\ handle'[p] \notin DOMAIN files /\ handle'[p] # NoFile
        BY <1>1, <1>2, <2>2, <3>5
      <4>3. CASE q = p
        BY <3>1, <3>2, <3>3, <4>1, <4>2, <4>3, TempFacts
      <4>4. CASE q # p
        <5>1. named[Temp(q)] \in DOMAIN files
          BY <2>4, <3>1, <3>3, <4>4, TempFacts
        <5>. QED
          BY <1>1, <3>3, <4>1, <4>2, <4>4, <5>1 DEF NamesInv
      <4>. QED
        BY <4>3, <4>4
    <3>. QED
      BY <3>4, <3>5
  <2>. QED
    BY <2>3, <2>4 DEF NamesInv
<1>3. ASSUME named' = named \/ named' = [named EXCEPT ![Temp(p)] = NoFile],
             handle' = handle \/ (handle' = [handle EXCEPT ![p] = named[Database]]
                                    /\ named' = named)
      PROVE  NamesInv'
  <2>1. named' \in [Paths -> DOMAIN files' \cup {NoFile}]
    BY <1>1, <1>3 DEF NamesInv
  <2>2. ASSUME NEW q \in Processes, named'[Temp(q)] # NoFile
        PROVE  /\ named'[Database] # named'[Temp(q)]
               /\ \A r \in Processes \ {q} :
                    named'[Temp(r)] # named'[Temp(q)] /\ handle'[r] # named'[Temp(q)]
    <3>1. named'[Database] = named[Database] /\ named'[Temp(q)] = named[Temp(q)]
      BY <1>1, <1>3, <2>2, TempFacts DEF NamesInv
    <3>2. \A r \in Processes : named'[Temp(r)] = named[Temp(r)] \/ named'[Temp(r)] = NoFile
      BY <1>1, <1>3, TempFacts DEF NamesInv
    <3>3. \A r \in Processes : handle'[r] = handle[r] \/ handle'[r] = named[Database]
      BY <1>1, <1>3 DEF ControlInv
    <3>. QED
      BY <1>1, <2>2, <3>1, <3>2, <3>3 DEF NamesInv
  <2>. QED
    BY <2>1, <2>2 DEF NamesInv
<1>4. CASE OpenDatabase(p) \/ LookAtTarget(p)
  <2>1. \E for \in {"command", "target"} : OpenPath(p, Database, for)
    BY <1>4 DEF OpenDatabase, LookAtTarget
  <2>. QED
    BY <1>2, <2>1, TempFacts
<1>5. CASE OpenTemp(p)
  <2>1. OpenPath(p, Temp(p), "temp") /\ named[Temp(p)] = NoFile
    BY <1>5 DEF OpenTemp, FileInv, DemoInv
  <2>. QED
    BY <1>2, <2>1
<1>6. CASE Rename(p)
  <2>1. /\ named' = [named EXCEPT ![Database] = named[Temp(p)], ![Temp(p)] = NoFile]
        /\ handle' = handle /\ pc[p] = "rename"
    BY <1>6 DEF Rename
  <2>2. handle[p] = named[Temp(p)] /\ named[Temp(p)] \in DOMAIN files
    BY <2>1 DEF FileInv, DemoInv
  <2>3. named' \in [Paths -> DOMAIN files' \cup {NoFile}]
    BY <1>1, <2>1, <2>2 DEF NamesInv
  <2>4. ASSUME NEW q \in Processes, named'[Temp(q)] # NoFile
        PROVE  /\ named'[Database] # named'[Temp(q)]
               /\ \A r \in Processes \ {q} :
                    named'[Temp(r)] # named'[Temp(q)] /\ handle'[r] # named'[Temp(q)]
    <3>1. named'[Database] = named[Temp(p)] /\ named'[Temp(p)] = NoFile
      BY <1>1, <2>1, TempFacts DEF NamesInv
    <3>2. \A r \in Processes \ {p} : named'[Temp(r)] = named[Temp(r)]
      BY <1>1 DEF OthersStand
    <3>3. q # p
      BY <2>4, <3>1
    <3>. QED
      BY <1>1, <2>1, <2>4, <3>1, <3>2, <3>3 DEF NamesInv
  <2>. QED
    BY <2>3, <2>4 DEF NamesInv
<1>7. CASE SkipTarget(p)
  <2>1. named' = named /\ handle' = handle
    BY <1>7, Zenon DEF SkipTarget
  <2>. QED
    BY <1>3, <2>1
<1>8. CASE OpenForCheck(p)
  BY <1>3, <1>8 DEF OpenForCheck
<1>9. CASE ~(\/ OpenDatabase(p) \/ LookAtTarget(p) \/ OpenTemp(p) \/ Rename(p) \/ SkipTarget(p)
             \/ OpenForCheck(p))
  <2>1. /\ named' = named \/ named' = [named EXCEPT ![Temp(p)] = NoFile]
        /\ handle' = handle
    BY <1>9 DEF Step, Reject, Crash, ReadMetadata, CountTables, ReadVersion, ValidateCoordinates,
                CreateMetadata, InsertMetadata, Migrate, Commit, Add, Rollback, BuildWrite,
                Writes, TargetNodes, TargetRelations, TargetEmpty, BuildNodes, BuildRevision, ClearTemp, Cleared, IngestNodes, IngestRelations,
                CheckRows, CheckMetadata, Fail
  <2>. QED
    BY <1>3, <2>1
<1>. QED
  BY <1>4, <1>5, <1>6, <1>7, <1>8, <1>9

-----------------------------------------------------------------------------
(* A step of p leaves the others what they rely on: a file they have open  *)
(* stays, or becomes one of the current version; it stays while they hold  *)
(* its lock or fill it as their temporary file.                            *)
LEMMA OthersUnharmed ==
  ASSUME FileInv, NEW p \in Processes, Step(p) \/ Crash(p), NEW q \in Processes \ {p}
  PROVE  ProcessInv(q)' /\ DemoInv(q)'
<1>1. FilesMove(p) /\ OthersStand(p) /\ ProcessInv(q) /\ DemoInv(q) /\ NamesInv /\ ControlInv
      /\ DOMAIN files \subseteq DOMAIN files' /\ view'[q] = view[q] /\ view[q] \in Overlays
      /\ FilesInv /\ FilesInv'
  BY FilesStep, ControlStep, ViewStep DEF FileInv, FilesMove, ViewInv
<1>2. /\ pc'[q] = pc[q] /\ goal'[q] = goal[q] /\ handle'[q] = handle[q]
      /\ version'[q] = version[q] /\ txn'[q] = txn[q] /\ reply'[q] = reply[q]
      /\ named'[Temp(q)] = named[Temp(q)]
  BY <1>1 DEF OthersStand
<1>3. ASSUME handle[q] \in DOMAIN files
      PROVE  /\ File(q)' = File(q) \/ Current(File(q)')
             /\ Holds(q)' = Holds(q)
             /\ Holds(q) => File(q)' = File(q)
             /\ handle[q] = named[Temp(q)] => File(q)' = File(q)
             /\ Current(File(q)) => File(q)' = File(q) \/ Grows(File(q), File(q)')
             /\ File(q).revision \in Nat /\ File(q)'.revision \in Nat
  <2>1. File(q)' = files'[handle[q]] /\ File(q) = files[handle[q]]
    BY <1>2 DEF File
  <2>2. File(q)' = File(q) \/ Current(File(q)')
    BY <1>1, <1>3, <2>1 DEF FilesMove
  <2>3. Holds(q)' = Holds(q)
    <3>1. writer'[handle[q]] = q <=> writer[handle[q]] = q
      BY <1>1, <1>3, NamesDistinct DEF FilesMove
    <3>. QED
      BY <1>2, <3>1 DEF Holds
  <2>4. ASSUME Holds(q) PROVE File(q)' = File(q)
    <3>1. writer[handle[q]] \notin {p, NoProcess}
      BY <2>4, NamesDistinct DEF Holds
    <3>2. handle[q] # named[Temp(p)]
      <4>1. handle[q] # NoFile
        BY <1>3, NamesDistinct, LenProperties DEF FileInv, FilesInv
      <4>. QED
        BY <1>1, <4>1 DEF NamesInv
    <3>. QED
      BY <1>1, <1>3, <2>1, <3>1, <3>2 DEF FilesMove
  <2>5. ASSUME handle[q] = named[Temp(q)] PROVE File(q)' = File(q)
    <3>1. named[Temp(q)] # NoFile
      BY <1>3, <2>5, NamesDistinct, LenProperties DEF FileInv, FilesInv
    <3>2. handle[p] # handle[q]
      BY <1>1, <2>5, <3>1 DEF NamesInv
    <3>. QED
      BY <1>1, <1>3, <2>1, <3>2 DEF FilesMove
  <2>6. Current(File(q)) => File(q)' = File(q) \/ Grows(File(q), File(q)')
    BY <1>1, <1>3, <2>1 DEF FilesMove
  <2>7. File(q) \in DatabaseRecord /\ File(q)' \in DatabaseRecord
    BY <1>1, <1>3, <2>1 DEF FilesInv, Sound
  <2>8. File(q).revision \in Nat /\ File(q)'.revision \in Nat
    BY <2>7 DEF DatabaseRecord
  <2>. QED
    BY <2>2, <2>3, <2>4, <2>5, <2>6, <2>8
<1>4. ProcessInv(q)'
  <2>1. CASE handle[q] \in DOMAIN files
    <3>1. \A db : Current(db) => /\ Acceptable(db) /\ Recognized(db) /\ db.bad = {}
                                 /\ db.format # "none"
      BY CurrentAcceptable DEF Current, Recognized
    <3>2. /\ handle'[q] \in DOMAIN files'
          /\ File(q)' = File(q) \/ Current(File(q)')
          /\ Holds(q)' = Holds(q) /\ (Holds(q) => File(q)' = File(q))
      BY <1>1, <1>2, <1>3, <2>1
    <3>3. ASSUME pc[q] \in {"build_revision", "build_write"}
          PROVE  /\ ReadsNodes(view[q], File(q)')
                 /\ File(q).revision <= File(q)'.revision
                 /\ view[q].since \in Int /\ view[q].revision \in Int
                 /\ File(q).revision \in Int /\ File(q)'.revision \in Int
      <4>1. /\ Current(File(q)) /\ ReadsNodes(view[q], File(q))
            /\ view[q].since \in Int /\ view[q].revision \in Int
        BY <1>1, <3>3 DEF ProcessInv, Overlays
      <4>2. File(q).revision \in Nat /\ File(q)'.revision \in Nat
        BY <1>3, <2>1
      <4>3. CASE File(q)' = File(q)
        BY <4>1, <4>2, <4>3
      <4>4. CASE Grows(File(q), File(q)')
        BY <4>1, <4>2, <4>4 DEF Grows, ReadsNodes
      <4>. QED
        BY <1>3, <2>1, <4>1, <4>2, <4>3, <4>4
    <3>4. /\ pc[q] \in {"build_revision", "build_write"} => ReadsNodes(view[q], File(q)')
          /\ pc[q] = "build_write" =>
               view[q].since <= view[q].revision /\ view[q].revision <= File(q)'.revision
      BY <1>1, <3>3 DEF ProcessInv
    <3>5. /\ pc[q] \in {"build_revision", "build_write"} => ReadsNodes(view[q], File(q))'
          /\ pc[q] = "build_write" =>
               (view[q].since <= view[q].revision /\ view[q].revision <= File(q).revision)'
      BY <1>1, <3>4 DEF ReadsNodes
    <3>. QED
      BY <1>1, <1>2, <3>1, <3>2, <3>5 DEF ProcessInv
  <2>2. CASE handle[q] \notin DOMAIN files
    BY <1>1, <1>2, <2>2 DEF ProcessInv, Refusals
  <2>. QED
    BY <2>1, <2>2
<1>5. DemoInv(q)'
  <2>1. CASE goal[q] = "temp"
    <3>1. handle[q] \in DOMAIN files /\ handle[q] = named[Temp(q)]
      BY <1>1, <2>1 DEF DemoInv
    <3>2. File(q)' = File(q)
      BY <1>3, <3>1
    <3>. QED
      BY <1>1, <1>2, <3>1, <3>2 DEF DemoInv
  <2>2. CASE goal[q] # "temp"
    BY <1>1, <1>2, <2>2 DEF DemoInv
  <2>. QED
    BY <2>1, <2>2
<1>. QED
  BY <1>4, <1>5

(* What a process may rely on after a step of its own. *)
LEMMA OwnFinish ==
  ASSUME FileInv, NEW p \in Processes, NEW answer, Finish(p, answer), handle' = handle,
         DOMAIN files \subseteq DOMAIN files',
         answer \in {"Ok"} \cup Refusals =>
           files' = files /\ handle[p] \in DOMAIN files,
         answer = "Ok" => Acceptable(File(p)),
         answer \in Refusals => (Acceptable(File(p)) => Current(File(p)))
  PROVE  ProcessInv(p)' /\ DemoInv(p)'
<1>1. pc'[p] = "start" /\ goal'[p] = "command" /\ reply'[p] = answer
  BY DEF Finish, Goto, FileInv, ControlInv
<1>2. files' = files => File(p)' = File(p)
  BY DEF File
<1>3. ProcessInv(p)'
  BY <1>1, <1>2 DEF ProcessInv, Refusals
<1>4. DemoInv(p)'
  BY <1>1 DEF DemoInv
<1>. QED
  BY <1>3, <1>4

LEMMA OwnStep ==
  ASSUME FileInv, NEW p \in Processes, Step(p) \/ Crash(p)
  PROVE  ProcessInv(p)' /\ DemoInv(p)'
<1>1. /\ FilesInv' /\ FilesMove(p) /\ ControlInv' /\ OthersStand(p) /\ NamesInv' /\ LockInv'
      /\ ProcessInv(p) /\ DemoInv(p) /\ NamesInv /\ ControlInv /\ LockInv /\ FilesInv
      /\ DOMAIN files \subseteq DOMAIN files'
  BY FilesStep, ControlStep, NamesStep, LockStep DEF FileInv, FilesMove
<1>2. ASSUME NEW answer, Fail(p, answer) \/ Finish(p, answer), handle' = handle,
             answer \in {"Ok"} \cup Refusals =>
               files' = files /\ handle[p] \in DOMAIN files,
             answer = "Ok" => Acceptable(File(p)),
             answer \in Refusals => (Acceptable(File(p)) => Current(File(p)))
      PROVE  ProcessInv(p)' /\ DemoInv(p)'
  BY <1>1, <1>2, OwnFinish DEF Fail
<1>3. ASSUME pc[p] \notin {"start", "temp", "open_temp"}
      PROVE  /\ handle[p] \in DOMAIN files /\ Sound(File(p)) /\ File(p) \in DatabaseRecord
             /\ Current(File(p)) => Acceptable(File(p))
             /\ pc[p] \notin {"insert", "migrate"} => ~Holds(p)
  <2>1. handle[p] \in DOMAIN files
    BY <1>1, <1>3 DEF ProcessInv
  <2>2. pc[p] \notin {"insert", "migrate"} => ~Holds(p)
    BY <1>1, <2>1 DEF LockInv, Holds
  <2>. QED
    BY <1>1, <2>1, <2>2, FileFacts, CurrentAcceptable
<1>4. \A next : Goto(p, next) => pc'[p] = next
  BY <1>1 DEF Goto, ControlInv
<1>5. ASSUME NEW path \in {Database, Temp(p)}, NEW for \in {"command", "target", "temp"},
             OpenPath(p, path, for), for = "temp" => path = Temp(p) /\ named[path] = NoFile
      PROVE  ProcessInv(p)' /\ DemoInv(p)'
  <2>1. path \in Paths
    BY TempFacts
  <2>2. /\ handle'[p] \in DOMAIN files' /\ named' = [named EXCEPT ![path] = handle'[p]]
        /\ \A i \in DOMAIN files' \ DOMAIN files : files'[i] = Empty
        /\ named[path] = NoFile => handle'[p] \in DOMAIN files' \ DOMAIN files
    BY <1>1, <1>5, <2>1, Opened DEF NamesInv, ControlInv
  <2>3. pc'[p] = "metadata" /\ goal'[p] = for
    BY <1>1, <1>5 DEF OpenPath, Goto, ControlInv
  <2>4. ProcessInv(p)'
    BY <2>2, <2>3 DEF ProcessInv
  <2>5. ASSUME for = "temp"
        PROVE  /\ handle'[p] = named'[Temp(p)]
               /\ File(p)' = Empty
    BY <1>1, <1>5, <2>1, <2>2, <2>5 DEF File, NamesInv
  <2>6. Empty.nodes = {} /\ Empty.edges = {} /\ Empty.seq = 0
    BY DEF Empty
  <2>7. DemoInv(p)'
    BY <2>2, <2>3, <2>5, <2>6 DEF DemoInv, Opening
  <2>. QED
    BY <2>4, <2>7
(* A step that leaves the file and only moves on. *)
<1>6. ASSUME pc[p] \notin {"start", "temp", "open_temp"}, handle' = handle, files' = files
      PROVE  File(p)' = File(p) /\ handle'[p] \in DOMAIN files'
  BY <1>3, <1>6 DEF File
<1>7. ASSUME goal' = goal, named' = named, handle' = handle, File(p)' = File(p),
             pc[p] \in Opening \cup {"opened"}, pc'[p] \in Opening \cup {"opened"}
      PROVE  DemoInv(p)'
  BY <1>1, <1>7 DEF DemoInv, Opening
<1>. USE DEF Opening
<1>8. CASE OpenDatabase(p)
  BY <1>5, <1>8 DEF OpenDatabase
<1>9. CASE ReadMetadata(p)
  <2>1. /\ pc[p] = "metadata" /\ pc'[p] = IF File(p).format = "none" THEN "tables" ELSE "version"
        /\ UNCHANGED <<files, named, goal, handle>>
    BY <1>4, <1>9 DEF ReadMetadata
  <2>2. File(p)' = File(p) /\ handle'[p] \in DOMAIN files'
    BY <1>6, <2>1
  <2>3. ProcessInv(p)'
    BY <2>1, <2>2 DEF ProcessInv
  <2>. QED
    BY <1>7, <2>1, <2>2, <2>3
<1>10. CASE CountTables(p)
  <2>1. /\ pc[p] = "tables" /\ UNCHANGED <<files, handle>>
        /\ File(p).format = "none" \/ Current(File(p))
    BY <1>1, <1>10 DEF CountTables, ProcessInv
  <2>2. CASE NoUserTables(File(p))
    <3>1. pc'[p] = "create" /\ UNCHANGED <<named, goal>>
      BY <1>4, <1>10, <2>2 DEF CountTables
    <3>2. File(p)' = File(p) /\ handle'[p] \in DOMAIN files'
      BY <1>6, <2>1
    <3>3. File(p) = Empty
      BY <1>3, <2>1, <2>2 DEF Sound, NoUserTables
    <3>4. ProcessInv(p)'
      BY <3>1, <3>2, <3>3 DEF ProcessInv
    <3>. QED
      BY <1>7, <2>1, <3>1, <3>2, <3>4
  <2>3. CASE ~NoUserTables(File(p))
    <3>1. Fail(p, "MetadataMissing")
      BY <1>10, <2>3 DEF CountTables
    <3>2. Acceptable(File(p)) => Current(File(p))
      <4>1. NoUserTables(Empty)
        BY DEF NoUserTables, Empty
      <4>. QED
        BY <2>1, <2>3, <4>1 DEF Acceptable, Recognized
    <3>. QED
      BY <1>2, <1>3, <2>1, <3>1, <3>2
  <2>. QED
    BY <2>2, <2>3
<1>11. CASE ReadVersion(p)
  <2>1. /\ pc[p] = "version" /\ UNCHANGED <<files, handle>> /\ File(p).format # "none"
    BY <1>1, <1>11 DEF ReadVersion, ProcessInv
  <2>2. CASE ~Recognized(File(p))
    <3>1. Fail(p, "InvalidDatabase")
      BY <1>11, <2>2 DEF ReadVersion
    <3>2. ~Acceptable(File(p))
      BY <2>1, <2>2 DEF Acceptable, Empty
    <3>. QED
      BY <1>2, <1>3, <2>1, <3>1, <3>2
  <2>3. CASE Recognized(File(p)) /\ File(p).version > SchemaVersion
    <3>1. Fail(p, "UnsupportedSchema")
      BY <1>11, <2>3 DEF ReadVersion
    <3>. QED
      BY <1>2, <2>1, <3>1 DEF Refusals
  <2>4. CASE Recognized(File(p)) /\ ~(File(p).version > SchemaVersion)
    <3>1. /\ version' = [version EXCEPT ![p] = File(p).version]
          /\ pc'[p] = IF File(p).version >= 1 THEN "coordinates" ELSE "migrate"
          /\ UNCHANGED <<named, goal, writer>>
      BY <1>4, <1>11, <2>4 DEF ReadVersion
    <3>2. version'[p] = File(p).version
      BY <1>1, <3>1 DEF ControlInv
    <3>3. File(p)' = File(p) /\ handle'[p] \in DOMAIN files'
      BY <1>6, <2>1
    <3>4. Holds(p)' = Holds(p) /\ ~Holds(p)
      BY <1>3, <2>1, <3>1 DEF Holds
    <3>5. File(p).version \in Nat /\ SchemaVersion = 7
      BY <1>3, <2>1 DEF DatabaseRecord, SchemaVersion
    <3>6. ASSUME ~(File(p).version >= 1) PROVE File(p).version = 0 /\ File(p).bad = {}
      <4>1. File(p).version = 0 /\ File(p).version <= SchemaVersion
        BY <3>5, <3>6
      <4>2. File(p).nodes = {} /\ File(p).bad \subseteq File(p).nodes
        BY <1>3, <2>1, <2>4, <4>1 DEF Sound
      <4>. QED
        BY <4>1, <4>2
    <3>7. ProcessInv(p)'
      BY <2>4, <3>1, <3>2, <3>3, <3>4, <3>5, <3>6 DEF ProcessInv
    <3>. QED
      BY <1>7, <2>1, <3>1, <3>3, <3>7
  <2>. QED
    BY <2>2, <2>3, <2>4
<1>12. CASE ValidateCoordinates(p)
  <2>1. /\ pc[p] = "coordinates" /\ UNCHANGED <<files, handle, version>>
        /\ Recognized(File(p)) /\ (version[p] = File(p).version \/ Current(File(p)))
    BY <1>1, <1>12 DEF ValidateCoordinates, ProcessInv
  <2>2. CASE File(p).bad # {}
    <3>1. Fail(p, "InvalidDatabase")
      BY <1>12, <2>2 DEF ValidateCoordinates
    <3>2. ~Acceptable(File(p))
      BY <2>1, <2>2 DEF Acceptable, Recognized, Empty
    <3>. QED
      BY <1>2, <1>3, <2>1, <3>1, <3>2
  <2>3. CASE File(p).bad = {}
    <3>1. /\ pc'[p] = IF version[p] = SchemaVersion THEN "opened" ELSE "migrate"
          /\ UNCHANGED <<named, goal, writer>>
      BY <1>4, <1>12, <2>3 DEF ValidateCoordinates
    <3>2. File(p)' = File(p) /\ handle'[p] \in DOMAIN files'
      BY <1>6, <2>1
    <3>3. Holds(p)' = Holds(p) /\ ~Holds(p)
      BY <1>3, <2>1, <3>1 DEF Holds
    <3>4. version[p] # SchemaVersion => version[p] < SchemaVersion
      <4>1. version[p] \in 0 .. 7
        BY <1>1 DEF ControlInv, SchemaVersion
      <4>. QED
        BY <4>1 DEF SchemaVersion
    <3>5. version[p] = SchemaVersion => Current(File(p))
      BY <2>1, <2>3 DEF Current
    <3>6. ProcessInv(p)'
      BY <2>1, <2>3, <3>1, <3>2, <3>3, <3>4, <3>5 DEF ProcessInv
    <3>. QED
      BY <1>7, <2>1, <3>1, <3>2, <3>6
  <2>. QED
    BY <2>2, <2>3
<1>13. CASE CreateMetadata(p)
  <2>1. /\ pc[p] = "create" /\ UNCHANGED <<handle, version, issued>>
        /\ File(p) = Empty \/ Current(File(p))
    BY <1>1, <1>13 DEF CreateMetadata, ProcessInv
  <2>2. CASE Busy(p) \/ File(p).format # "none"
    <3>1. /\ Fail(p, IF Busy(p) THEN "Busy" ELSE "AlreadyExists") /\ files' = files
      BY <1>13, <2>2 DEF CreateMetadata
    <3>2. ~Busy(p) => Current(File(p))
      BY <2>1, <2>2 DEF Empty
    <3>. QED
      BY <1>2, <1>3, <2>1, <3>1, <3>2 DEF Refusals
  <2>3. CASE ~(Busy(p) \/ File(p).format # "none")
    <3>1. /\ pc'[p] = "insert" /\ UNCHANGED <<named, goal>> /\ Locked(p)
          /\ Write(p, [File(p) EXCEPT !.format = "no_row"])
      BY <1>4, <1>13, <2>3 DEF CreateMetadata
    <3>2. File(p) = Empty
      BY <2>1, <2>3 DEF Current, Recognized
    <3>3. files' = files /\ writer'[handle[p]] = p
      BY <1>1, <1>3, <2>1, <3>1, NotVisible, Taken
    <3>4. File(p)' = File(p) /\ handle'[p] \in DOMAIN files' /\ Holds(p)'
      BY <1>6, <2>1, <3>3 DEF Holds
    <3>5. txn'[p] = [Empty EXCEPT !.format = "no_row"]
      BY <1>1, <3>1, <3>2 DEF Write, ControlInv
    <3>6. ProcessInv(p)'
      BY <3>1, <3>2, <3>4, <3>5 DEF ProcessInv
    <3>. QED
      BY <1>7, <2>1, <3>1, <3>4, <3>6
  <2>. QED
    BY <2>2, <2>3
<1>14. CASE InsertMetadata(p)
  <2>. DEFINE new == [[Empty EXCEPT !.format = "no_row"] EXCEPT !.format = "memory3d",
                                                                !.version = 0]
  <2>1. /\ pc[p] = "insert" /\ pc'[p] = "migrate" /\ UNCHANGED <<handle, named, writer, goal>>
        /\ Write(p, [txn[p] EXCEPT !.format = "memory3d", !.version = 0])
        /\ version' = [version EXCEPT ![p] = 0]
    BY <1>4, <1>14 DEF InsertMetadata
  <2>2. Holds(p) /\ File(p) = Empty /\ txn[p] = [Empty EXCEPT !.format = "no_row"]
    BY <1>1, <2>1 DEF ProcessInv
  <2>3. files' = files
    BY <1>1, <1>3, <2>1, NotVisible
  <2>4. File(p)' = File(p) /\ handle'[p] \in DOMAIN files' /\ Holds(p)'
    BY <1>6, <2>1, <2>2, <2>3 DEF Holds
  <2>5. txn'[p] = new /\ version'[p] = 0
    BY <1>1, <2>1, <2>2 DEF Write, ControlInv
  <2>6. Underway(File(p)', txn'[p], version'[p])
    BY <2>2, <2>4, <2>5, MetadataWritten
  <2>7. ProcessInv(p)'
    <3>1. Underway(File(p), txn[p], version[p])'
      BY <2>6 DEF Underway
    <3>. QED
      BY <2>1, <2>4, <3>1 DEF ProcessInv
  <2>. QED
    BY <1>7, <2>1, <2>4, <2>7
<1>15. CASE Migrate(p)
  <2>. DEFINE db == IF writer[handle[p]] = p THEN txn[p] ELSE File(p)
              new == Migrated(db, version[p])
  <2>1. pc[p] = "migrate" /\ version[p] < SchemaVersion /\ UNCHANGED <<handle, issued>>
    BY <1>15 DEF Migrate
  <2>2. CASE Busy(p) \/ version[p] + 1 \in db.batches
    <3>1. Fail(p, IF Busy(p) THEN "Busy" ELSE "AlreadyExists") /\ files' = files
      BY <1>15, <2>2 DEF Migrate
    <3>2. ~Busy(p) => Current(File(p))
      BY <2>1, <2>2, MigrationBase
    <3>. QED
      BY <1>2, <1>3, <2>1, <3>1, <3>2 DEF Refusals
  <2>3. CASE ~(Busy(p) \/ version[p] + 1 \in db.batches)
    <3>1. Underway(File(p), new, version[p] + 1)
      BY <2>1, <2>3, MigrationBase
    <3>2. /\ Write(p, new) /\ version' = [version EXCEPT ![p] = version[p] + 1] /\ Locked(p)
          /\ UNCHANGED <<named, goal, pc>>
      BY <1>15, <2>3 DEF Migrate
    <3>. HIDE DEF new, db
    <3>3. files' = files /\ writer'[handle[p]] = p
      BY <1>1, <1>3, <2>1, <3>2, NotVisible, Taken
    <3>4. File(p)' = File(p) /\ handle'[p] \in DOMAIN files' /\ Holds(p)'
      BY <1>6, <2>1, <3>3 DEF Holds
    <3>5. txn'[p] = new /\ version'[p] = version[p] + 1
      BY <1>1, <3>2 DEF Write, ControlInv
    <3>6. Underway(File(p), txn[p], version[p])'
      BY <3>1, <3>4, <3>5 DEF Underway
    <3>7. ProcessInv(p)'
      BY <2>1, <3>2, <3>4, <3>6 DEF ProcessInv
    <3>. QED
      BY <1>7, <2>1, <3>2, <3>4, <3>7
  <2>. QED
    BY <2>2, <2>3
<1>16. CASE Commit(p)
  <2>1. /\ pc[p] = "migrate" /\ version[p] = SchemaVersion /\ pc'[p] = "opened"
        /\ UNCHANGED <<named, goal, handle>> /\ files' = [files EXCEPT ![handle[p]] = txn[p]]
    BY <1>4, <1>16 DEF Commit
  <2>2. Underway(File(p), txn[p], SchemaVersion)
    <3>1. ~(version[p] < SchemaVersion)
      BY <2>1 DEF SchemaVersion
    <3>. QED
      BY <1>1, <2>1, <3>1 DEF ProcessInv
  <2>3. File(p)' = txn[p] /\ handle'[p] \in DOMAIN files'
    <3>1. txn[p] \in DatabaseRecord /\ handle[p] \in DOMAIN files /\ files \in Seq(DatabaseRecord)
      BY <1>1, <1>3, <2>1 DEF ControlInv, FilesInv
    <3>. QED
      BY <1>1, <2>1, <3>1, SequenceReplaced DEF File
  <2>4. Current(File(p)')
    BY <2>2, <2>3 DEF Underway, Current
  <2>5. ProcessInv(p)'
    BY <2>1, <2>3, <2>4 DEF ProcessInv
  <2>6. DemoInv(p)'
    <3>1. CASE goal[p] = "temp"
      <4>1. /\ handle[p] = named[Temp(p)]
            /\ File(p).nodes = {} /\ File(p).edges = {}
        BY <1>1, <2>1, <3>1 DEF DemoInv
      <4>2. txn[p].nodes = {} /\ txn[p].edges = {} /\ txn[p].seq = 0
        BY <2>2, <4>1 DEF Underway, Highest
      <4>. QED
        BY <2>1, <2>3, <3>1, <4>1, <4>2 DEF DemoInv
    <3>2. CASE goal[p] # "temp"
      BY <2>1, <3>2 DEF DemoInv
    <3>. QED
      BY <3>1, <3>2
  <2>. QED
    BY <2>5, <2>6
<1>17. CASE Add(p) \/ Rollback(p) \/ BuildWrite(p)
  <2>1. handle' = handle
    BY <1>17 DEF Add, Rollback, BuildWrite, Writes
  <2>2. \E answer \in {"Busy", "Added", "NotFound", "RolledBack", "Built", "Database"} :
          Finish(p, answer)
    BY <1>17 DEF Add, Rollback, BuildWrite, Writes
  <2>. QED
    BY <1>2, <2>1, <2>2 DEF Refusals
<1>18. CASE LookAtTarget(p)
  BY <1>5, <1>18 DEF LookAtTarget
<1>19. CASE SkipTarget(p)
  <2>1. pc[p] = "start" /\ Goto(p, "temp") /\ UNCHANGED <<goal, handle>>
    BY <1>19, Zenon DEF SkipTarget
  <2>2. pc'[p] = "temp"
    BY <1>4, <2>1
  <2>3. goal[p] # "temp"
    BY <1>1, <2>1 DEF DemoInv
  <2>. QED
    BY <2>1, <2>2, <2>3 DEF ProcessInv, DemoInv
<1>20. CASE TargetNodes(p) \/ TargetRelations(p)
  <2>1. pc[p] \in {"opened", "target_relations"} /\ UNCHANGED <<files, handle>>
    BY <1>20 DEF TargetNodes, TargetRelations, TargetEmpty, Working
  <2>2. \/ Fail(p, "Populated")
        \/ Goto(p, "temp") /\ goal' = goal
        \/ pc[p] = "opened" /\ Goto(p, "target_relations") /\ goal' = goal
    BY <1>20 DEF TargetNodes, TargetRelations, TargetEmpty, Working
  <2>3. goal[p] # "temp"
    BY <1>1, <1>20 DEF TargetNodes, TargetRelations, Working, DemoInv
  <2>4. CASE Fail(p, "Populated")
    BY <1>2, <2>1, <2>4 DEF Refusals
  <2>5. CASE Goto(p, "temp") /\ goal' = goal
    <3>1. pc'[p] = "temp"
      BY <1>4, <2>5
    <3>. QED
      BY <2>3, <2>5, <3>1 DEF ProcessInv, DemoInv
  <2>6. CASE pc[p] = "opened" /\ Goto(p, "target_relations") /\ goal' = goal
    <3>1. pc'[p] = "target_relations"
      BY <1>4, <2>6
    <3>2. File(p)' = File(p) /\ handle'[p] \in DOMAIN files' /\ Current(File(p))
      BY <1>1, <1>6, <2>1, <2>6 DEF ProcessInv
    <3>. QED
      BY <2>3, <2>6, <3>1, <3>2 DEF ProcessInv, DemoInv
  <2>. QED
    BY <2>2, <2>4, <2>5, <2>6
<1>21. CASE ClearTemp(p)
  <2>1. /\ pc[p] = "temp" /\ pc'[p] = "open_temp" /\ UNCHANGED <<goal, handle>>
        /\ named' = [named EXCEPT ![Temp(p)] = NoFile]
    BY <1>4, <1>21 DEF ClearTemp, Cleared
  <2>2. goal[p] # "temp"
    BY <1>1, <2>1 DEF DemoInv
  <2>3. named'[Temp(p)] = NoFile
    BY <1>1, <2>1, TempFacts DEF NamesInv
  <2>. QED
    BY <2>1, <2>2, <2>3 DEF ProcessInv, DemoInv
<1>22. CASE OpenTemp(p)
  <2>1. OpenPath(p, Temp(p), "temp") /\ named[Temp(p)] = NoFile
    BY <1>1, <1>22 DEF OpenTemp, DemoInv
  <2>. QED
    BY <1>5, <2>1
<1>23. CASE IngestNodes(p)
  <2>. DEFINE new == WithNodes(File(p), Cardinality(FixtureNodes))
  <2>1. /\ pc[p] = "opened" /\ goal[p] = "temp" /\ pc'[p] = "relations"
        /\ UNCHANGED <<named, goal, handle>> /\ files' = [files EXCEPT ![handle[p]] = new]
    BY <1>4, <1>23 DEF IngestNodes, Working
  <2>2. /\ Sound(File(p)) /\ Current(File(p)) /\ File(p).nodes = {} /\ File(p).edges = {}
        /\ File(p).seq = 0 /\ handle[p] = named[Temp(p)]
    BY <1>1, <1>3, <2>1 DEF ProcessInv, DemoInv
  <2>3. new.nodes = FixtureNodes
    BY <2>2, FixtureNodesIngested
  <2>4. Sound(new) /\ Current(new) /\ new.edges = {}
    BY <2>2, FixtureFacts, WithNodesCurrent
  <2>. HIDE DEF new
  <2>5. File(p)' = new /\ handle'[p] \in DOMAIN files'
    <3>1. new \in DatabaseRecord /\ handle[p] \in DOMAIN files /\ files \in Seq(DatabaseRecord)
      BY <1>1, <1>3, <2>1, <2>4 DEF Sound, FilesInv
    <3>. QED
      BY <1>1, <2>1, <3>1, SequenceReplaced DEF File
  <2>. QED
    BY <2>1, <2>2, <2>3, <2>4, <2>5 DEF ProcessInv, DemoInv
<1>24. CASE IngestRelations(p)
  <2>. DEFINE offset == Highest(File(p).nodes) - Cardinality(FixtureNodes)
              more == {<<e[1] + offset, e[2] + offset>> : e \in FixtureEdges}
              new == [File(p) EXCEPT !.edges = @ \cup more]
  <2>1. /\ pc[p] = "relations" /\ pc'[p] = "rename" /\ UNCHANGED <<named, goal, handle>>
        /\ files' = [files EXCEPT ![handle[p]] = new]
    BY <1>4, <1>24 DEF IngestRelations, File
  <2>2. /\ Sound(File(p)) /\ Current(File(p)) /\ File(p).nodes = FixtureNodes
        /\ File(p).edges = {} /\ goal[p] = "temp" /\ handle[p] = named[Temp(p)]
    BY <1>1, <1>3, <2>1 DEF ProcessInv, DemoInv
  <2>3. more = FixtureEdges /\ more \in SUBSET (File(p).nodes \X File(p).nodes)
    BY <2>2, FixtureEdgesIngested
  <2>4. /\ Sound(new) /\ Current(new) /\ new.nodes = FixtureNodes /\ new.edges = FixtureEdges
    <3>. HIDE DEF more
    <3>1. /\ Sound(new) /\ Current(new) /\ new.nodes = File(p).nodes
          /\ new.edges = File(p).edges \cup more
      BY <2>2, <2>3, RelatedCurrent
    <3>. QED
      BY <2>2, <2>3, <3>1
  <2>. HIDE DEF new
  <2>5. File(p)' = new /\ handle'[p] \in DOMAIN files'
    <3>1. new \in DatabaseRecord /\ handle[p] \in DOMAIN files /\ files \in Seq(DatabaseRecord)
      BY <1>1, <1>3, <2>1, <2>4 DEF Sound, FilesInv
    <3>. QED
      BY <1>1, <2>1, <3>1, SequenceReplaced DEF File
  <2>. QED
    BY <2>1, <2>2, <2>4, <2>5 DEF ProcessInv, DemoInv
<1>25. CASE Rename(p)
  <2>1. Finish(p, "Ingested") /\ handle' = handle
    BY <1>25 DEF Rename
  <2>. QED
    BY <1>2, <2>1 DEF Refusals
<1>26. CASE OpenForCheck(p)
  <2>1. CASE named[Database] = NoFile
    <3>1. Finish(p, "CannotOpen") /\ handle' = handle
      BY <1>26, <2>1 DEF OpenForCheck
    <3>. QED
      BY <1>2, <3>1 DEF Refusals
  <2>2. CASE named[Database] # NoFile
    <3>1. /\ pc[p] = "start" /\ pc'[p] = "check_rows" /\ goal' = goal
          /\ handle' = [handle EXCEPT ![p] = named[Database]]
      BY <1>4, <1>26, <2>2 DEF OpenForCheck
    <3>2. handle'[p] \in DOMAIN files'
      BY <1>1, <2>2, <3>1, TempFacts DEF NamesInv, ControlInv
    <3>3. goal[p] # "temp"
      BY <1>1, <3>1 DEF DemoInv
    <3>. QED
      BY <3>1, <3>2, <3>3 DEF ProcessInv, DemoInv
  <2>. QED
    BY <2>1, <2>2
<1>27. CASE CheckRows(p)
  <2>1. /\ pc[p] = "check_rows" /\ UNCHANGED <<files, named, goal, handle>>
        /\ pc'[p] = IF Problems(File(p)) THEN "check_bad" ELSE "check_good"
    BY <1>4, <1>27 DEF CheckRows
  <2>2. File(p)' = File(p) /\ handle'[p] \in DOMAIN files'
    BY <1>6, <2>1
  <2>3. ~Problems(File(p)) => File(p).bad = {}
    BY DEF Problems
  <2>4. goal[p] # "temp"
    BY <1>1, <2>1 DEF DemoInv
  <2>. QED
    BY <2>1, <2>2, <2>3, <2>4 DEF ProcessInv, DemoInv
<1>28. CASE CheckMetadata(p)
  <2>1. pc[p] \in {"check_bad", "check_good"} /\ UNCHANGED <<files, handle>>
    BY <1>28 DEF CheckMetadata
  <2>2. CASE File(p).format = "none"
    <3>1. Finish(p, "Unreadable")
      BY <1>28, <2>2 DEF CheckMetadata
    <3>. QED
      BY <1>2, <2>1, <3>1 DEF Refusals
  <2>3. CASE File(p).format # "none" /\ ~Recognized(File(p))
    <3>1. Finish(p, "InvalidDatabase")
      BY <1>28, <2>3 DEF CheckMetadata
    <3>2. ~Acceptable(File(p))
      BY <2>3 DEF Acceptable, Empty
    <3>. QED
      BY <1>2, <1>3, <2>1, <3>1, <3>2
  <2>4. CASE Recognized(File(p))
    <3>1. File(p).format # "none"
      BY <2>4 DEF Recognized
    <3>2. Finish(p, IF File(p).version > SchemaVersion THEN "UnsupportedSchema"
                    ELSE IF pc[p] = "check_bad" THEN "Problems" ELSE "Ok")
      BY <1>28, <2>4, <3>1 DEF CheckMetadata
    <3>3. CASE File(p).version > SchemaVersion
      BY <1>2, <2>1, <3>2, <3>3 DEF Refusals
    <3>4. CASE ~(File(p).version > SchemaVersion) /\ pc[p] = "check_bad"
      BY <1>2, <2>1, <3>2, <3>4 DEF Refusals
    <3>5. CASE ~(File(p).version > SchemaVersion) /\ pc[p] = "check_good"
      <4>1. File(p).bad = {} /\ File(p).version \in Nat
        BY <1>1, <1>3, <2>1, <3>5 DEF ProcessInv, DatabaseRecord
      <4>2. Acceptable(File(p))
        BY <2>4, <3>5, <4>1 DEF Acceptable, SchemaVersion
      <4>3. Finish(p, "Ok")
        BY <3>2, <3>5
      <4>. QED
        BY <1>2, <1>3, <2>1, <4>2, <4>3 DEF Refusals
    <3>. QED
      BY <2>1, <3>3, <3>4, <3>5
  <2>. QED
    BY <2>2, <2>3, <2>4
<1>29. CASE Reject(p) \/ Crash(p)
  <2>1. (Finish(p, "Validation") \/ Finish(p, "Crashed")) /\ handle' = handle
    BY <1>29 DEF Reject, Crash
  <2>. QED
    BY <1>2, <2>1 DEF Refusals
<1>30. CASE BuildNodes(p) \/ BuildRevision(p)
  <2>1. /\ pc[p] \in {"opened", "build_revision"} /\ UNCHANGED <<files, handle, goal>>
        /\ view \in [Processes -> Overlays]
    BY <1>30 DEF BuildNodes, BuildRevision, Working, FileInv, ViewInv
  <2>2. /\ File(p)' = File(p) /\ handle'[p] \in DOMAIN files' /\ Current(File(p))
        /\ File(p).revision \in Nat
    BY <1>1, <1>3, <1>6, <2>1 DEF ProcessInv, DatabaseRecord
  <2>3. goal[p] # "temp"
    BY <1>1, <1>30 DEF BuildNodes, BuildRevision, Working, DemoInv
  <2>4. CASE BuildNodes(p)
    <3>1. pc'[p] = "build_revision"
      BY <1>4, <2>4 DEF BuildNodes
    <3>2. view'[p] = Overlay(-1, File(p).nodes, File(p).revision)
      BY <2>1, <2>4 DEF BuildNodes
    <3>3. ReadsNodes(view[p], File(p))'
      BY <2>2, <3>2 DEF ReadsNodes, Overlay
    <3>. QED
      BY <2>1, <2>2, <2>3, <3>1, <3>3 DEF ProcessInv, DemoInv
  <2>5. CASE BuildRevision(p)
    <3>1. pc[p] = "build_revision" /\ pc'[p] = "build_write"
      BY <1>4, <2>5 DEF BuildRevision
    <3>2. view'[p] = [view[p] EXCEPT !.revision = File(p).revision]
      BY <2>1, <2>5 DEF BuildRevision
    <3>3. /\ view'[p].since = view[p].since /\ view'[p].nodes = view[p].nodes
          /\ view'[p].revision = File(p).revision
      BY <2>1, <3>2 DEF Overlays
    <3>4. ReadsNodes(view[p], File(p))
      BY <1>1, <3>1 DEF ProcessInv
    <3>5. /\ ReadsNodes(view[p], File(p))'
          /\ (view[p].since <= view[p].revision /\ view[p].revision <= File(p).revision)'
      BY <2>2, <3>3, <3>4 DEF ReadsNodes
    <3>. QED
      BY <2>1, <2>2, <2>3, <3>1, <3>5 DEF ProcessInv, DemoInv
  <2>. QED
    BY <1>30, <2>4, <2>5
<1>. QED
  BY <1>8, <1>9, <1>10, <1>11, <1>12, <1>13, <1>14, <1>15, <1>16, <1>17, <1>18, <1>19, <1>20,
     <1>21, <1>22, <1>23, <1>24, <1>25, <1>26, <1>27, <1>28, <1>29, <1>30 DEF Step

-----------------------------------------------------------------------------
(* The invariant.                                                           *)
LEMMA FileInit == Init => FileInv
<1>. SUFFICES ASSUME Init PROVE FileInv
  OBVIOUS
<1>1. PICK db \in Databases :
        IF db = NoFile
        THEN files = <<>> /\ named = [x \in Paths |-> NoFile]
        ELSE files = <<db>> /\ named = [x \in Paths |-> IF x = Database THEN 1 ELSE NoFile]
  BY DEF Init
<1>2. /\ writer = [i \in DOMAIN files |-> NoProcess] /\ todo \in Plans
      /\ pc = [p \in Processes |-> "start"] /\ goal = [p \in Processes |-> "command"]
      /\ handle = [p \in Processes |-> NoFile] /\ version = [p \in Processes |-> 0]
      /\ txn = [p \in Processes |-> Empty] /\ reply = [p \in Processes |-> "none"]
      /\ view = [p \in Processes |-> NoOverlay]
      /\ issued = [i \in DOMAIN files |-> files[i].nodes]
  BY DEF Init
<1>3. FilesInv
  <2>1. CASE db = NoFile
    <3>1. files = <<>>
      BY <1>1, <2>1
    <3>2. DOMAIN files = {} /\ writer = <<>> /\ issued = <<>>
      BY <1>2, <3>1
    <3>. QED
      BY <3>1, <3>2 DEF FilesInv
  <2>2. CASE db # NoFile
    <3>1. files = <<db>> /\ Sound(db)
      BY <1>1, <2>2, DatabasesSound
    <3>2. db \in DatabaseRecord /\ db.nodes \in SUBSET Nat
      BY <3>1 DEF Sound, DatabaseRecord
    <3>3. DOMAIN files = {1} /\ files[1] = db
      BY <3>1
    <3>4. writer = <<NoProcess>> /\ issued = <<db.nodes>>
      BY <1>2, <3>3
    <3>5. Recognized(db) /\ db.version <= SchemaVersion => db.nodes \subseteq 1 .. db.seq
      BY <3>1 DEF Sound
    <3>. QED
      BY <3>1, <3>2, <3>3, <3>4, <3>5 DEF FilesInv
  <2>. QED
    BY <2>1, <2>2
<1>4. ControlInv
  BY <1>2, PlansRunnable, EmptyFile
  DEF ControlInv, Pcs, Opening, Replies, SchemaVersion
<1>5. LockInv
  BY <1>2, NamesDistinct DEF LockInv
<1>6. NamesInv
  <2>1. named \in [Paths -> DOMAIN files \cup {NoFile}]
    BY <1>1
  <2>2. \A p \in Processes : named[Temp(p)] = NoFile
    BY <1>1, TempFacts
  <2>. QED
    BY <2>1, <2>2 DEF NamesInv
<1>7. ASSUME NEW p \in Processes PROVE ProcessInv(p) /\ DemoInv(p)
  BY <1>2 DEF ProcessInv, DemoInv, Refusals, Opening
<1>8. ViewInv
  BY <1>2 DEF ViewInv, NoOverlay, Overlay, Overlays
<1>. QED
  BY <1>3, <1>4, <1>5, <1>6, <1>7, <1>8 DEF FileInv

LEMMA FileStutters ==
  ASSUME FileInv, UNCHANGED vars PROVE FileInv'
BY DEF FileInv, FilesInv, ControlInv, LockInv, NamesInv, ViewInv, ProcessInv, DemoInv, File,
       Holds, Underway, ReadsNodes, vars, process

(* The invariant of the database file: sound files, what each process may  *)
(* rely on, its locks and temporary files, whatever the others do          *)
(* (repository.rs:493-607, 938-1153; main.rs:623-721).                      *)
THEOREM FileInvariant == Spec => []FileInv
<1>1. ASSUME FileInv, [Next]_vars PROVE FileInv'
  <2>1. ASSUME NEW p \in Processes, Step(p) \/ Crash(p) PROVE FileInv'
    <3>1. FilesInv' /\ ControlInv' /\ LockInv' /\ NamesInv' /\ ViewInv'
      BY <1>1, <2>1, FilesStep, ControlStep, LockStep, NamesStep, ViewStep
    <3>2. \A q \in Processes : ProcessInv(q)' /\ DemoInv(q)'
      BY <1>1, <2>1, OwnStep, OthersUnharmed
    <3>. QED
      BY <3>1, <3>2 DEF FileInv
  <2>2. CASE UNCHANGED vars
    BY <1>1, <2>2, FileStutters
  <2>. QED
    BY <1>1, <2>1, <2>2 DEF Next
<1>. QED
  BY <1>1, FileInit, PTL DEF Spec

(* The types, the locks of a file being created and the positions of the   *)
(* processes (repository.rs:938-998).                                       *)
THEOREM DatabaseTypes == Spec => []TypeOK
<1>1. FileInv => TypeOK
  <2>. SUFFICES ASSUME FileInv PROVE TypeOK
    OBVIOUS
  <2>1. ASSUME NEW i \in DOMAIN files
        PROVE  /\ files[i].format \in Formats /\ files[i].batches \subseteq 1 .. 6
               /\ writer[i] \in Processes \cup {NoProcess}
    <3>1. files[i] \in DatabaseRecord
      BY DEF FileInv, FilesInv, Sound
    <3>2. writer[i] \in Processes \cup {NoProcess}
      BY LenProperties DEF FileInv, FilesInv
    <3>. QED
      BY <3>1, <3>2 DEF DatabaseRecord
  <2>2. \A x \in Paths : named[x] \in DOMAIN files \cup {NoFile}
    BY DEF FileInv, NamesInv
  <2>3. ASSUME NEW p \in Processes
        PROVE  /\ pc[p] \in Pcs /\ (pc[p] # "start" => todo[p] # <<>>)
               /\ pc[p] = "insert" => writer[handle[p]] = p
    BY DEF FileInv, ControlInv, ProcessInv, Holds
  <2>. QED
    BY <2>1, <2>2, <2>3 DEF TypeOK, Pcs, Opening
<1>. QED
  BY <1>1, FileInvariant, PTL

(* A committed file is whole at its version, whoever opens it and wherever *)
(* a process dies (repository.rs:949-965, 994-998).                         *)
THEOREM FilesAlwaysComplete == Spec => []FilesComplete
<1>1. FileInv => FilesComplete
  BY DEF FileInv, FilesInv, Sound, FilesComplete
<1>. QED
  BY <1>1, FileInvariant, PTL

(* An overlay holds stored nodes, and one that has the revision of its file *)
(* but leaves out a node was built across another commit                    *)
(* (community.rs:218-270, repository.rs:1133-1146).                         *)
THEOREM OverlayAlwaysTraceable == Spec => []OverlayMislabelledByRaceOnly
<1>1. FileInv => OverlayMislabelledByRaceOnly
  BY DEF FileInv, FilesInv, Sound, OverlayMislabelledByRaceOnly
<1>. QED
  BY <1>1, FileInvariant, PTL

(* What check calls sound, open accepts, whatever was done to the file in  *)
(* between (repository.rs:521-607, 974-993).                                *)
THEOREM CheckedAlwaysOpenable == Spec => []CheckedIsOpenable
<1>1. FileInv => CheckedIsOpenable
  BY DEF FileInv, ProcessInv, CheckedIsOpenable, File
<1>. QED
  BY <1>1, FileInvariant, PTL

(* A good file is refused only while another opener brings it to the       *)
(* current version (repository.rs:938-957, 994-998).                        *)
THEOREM RefusalsAlwaysRetriable == Spec => []RefusalsRetriable
<1>1. FileInv => RefusalsRetriable
  BY DEF FileInv, ProcessInv, RefusalsRetriable, Refusals, File, Current
<1>. QED
  BY <1>1, FileInvariant, PTL

-----------------------------------------------------------------------------
(* What a step may do to the memories of a file.                           *)
LEMMA MemoriesStep ==
  ASSUME FileInv, NEW p \in Processes, Step(p) \/ Crash(p), NEW i \in DOMAIN files
  PROVE  LET old == files[i]
             new == files'[i]
         IN /\ (new.nodes \ old.nodes) \cap issued[i] = {}
            /\ pc[p] \in Opening =>
                 /\ new.nodes = old.nodes /\ new.edges = old.edges /\ new.overlay = old.overlay
                 /\ old.version >= 2 => new.terms = old.terms
<1>. DEFINE old == files[i]
            new == files'[i]
<1>1. /\ FilesMove(p) /\ FilesInv /\ FilesInv' /\ ProcessInv(p) /\ DemoInv(p)
      /\ DOMAIN files \subseteq DOMAIN files' /\ files \in Seq(DatabaseRecord)
  BY FilesStep DEF FileInv, FilesMove, FilesInv
<1>2. CASE new = old
  BY <1>2
<1>3. CASE new # old
  <2>1. i = handle[p] /\ old = File(p) /\ Acceptable(old) /\ Current(new) /\ files' # files
        /\ Sound(old)
    BY <1>1, <1>3 DEF FilesMove, File, FilesInv
  <2>2. ASSUME NEW db, files' = [files EXCEPT ![handle[p]] = db] PROVE new = db
    <3>1. DOMAIN files = 1 .. Len(files) /\ files \in [1 .. Len(files) -> DatabaseRecord]
      BY <1>1, LenProperties
    <3>. QED
      BY <2>1, <2>2, <3>1
  <2>3. Current(old) => /\ issued[i] \subseteq 1 .. old.seq /\ old.seq \in Nat
    <3>1. Current(File(p)) => issued[handle[p]] \subseteq 1 .. File(p).seq
      BY <1>1, <2>1, FileFacts
    <3>2. old.seq \in Nat
      BY <2>1 DEF Sound, DatabaseRecord
    <3>. QED
      BY <2>1, <3>1, <3>2
  <2>4. CASE Commit(p)
    <3>1. /\ pc[p] = "migrate" /\ version[p] = SchemaVersion /\ new = txn[p]
      BY <2>2, <2>4 DEF Commit
    <3>2. Underway(File(p), txn[p], SchemaVersion)
      <4>1. ~(version[p] < SchemaVersion)
        BY <3>1 DEF SchemaVersion
      <4>. QED
        BY <1>1, <3>1, <4>1 DEF ProcessInv
    <3>. QED
      BY <2>1, <3>1, <3>2 DEF Underway
  <2>5. CASE Add(p)
    <3>1. new = WithNodes(old, 1) /\ pc[p] = "opened" /\ Current(old)
      BY <1>1, <2>1, <2>2, <2>5 DEF Add, Writes, Working, ProcessInv
    <3>2. new.nodes = old.nodes \cup (old.seq + 1 .. old.seq + 1)
      <4>1. 1 \in Nat /\ Sound(old) /\ Current(old)
        BY <2>1, <3>1
      <4>2. WithNodes(old, 1).nodes = old.nodes \cup (old.seq + 1 .. old.seq + 1)
        BY <4>1, WithNodesCurrent
      <4>. QED
        BY <3>1, <4>2
    <3>. QED
      BY <2>3, <3>1, <3>2 DEF Opening
  <2>6. CASE Rollback(p)
    <3>. DEFINE free == old.nodes \ Linked(old)
    <3>1. pc[p] = "opened" /\ Current(old)
      BY <1>1, <2>1, <2>6 DEF Rollback, Working, ProcessInv
    <3>2. new = old \/ (free # {} /\ new = WithoutNode(old, Highest(free)))
      <4>1. \/ free = {} /\ files' = [files EXCEPT ![handle[p]] = old]
            \/ free # {} /\ files' = [files EXCEPT ![handle[p]] = WithoutNode(old, Highest(free))]
        BY <2>1, <2>6 DEF Rollback, Writes
      <4>. QED
        BY <2>2, <4>1
    <3>3. free # {} => Highest(free) \in free
      <4>1. Recognized(old) /\ old.version <= SchemaVersion
        BY <3>1 DEF Current, SchemaVersion
      <4>2. free \in SUBSET old.nodes
        OBVIOUS
      <4>. QED
        BY <2>1, <4>1, <4>2, HighestInFile
    <3>4. new.nodes \subseteq old.nodes
      BY <2>1, <3>1, <3>2, <3>3, WithoutNodeCurrent
    <3>. QED
      BY <3>1, <3>4 DEF Opening
  <2>7. CASE BuildWrite(p)
    <3>1. /\ new \in {old, [old EXCEPT !.overlay = view[p]]}
          /\ pc[p] = "build_write" /\ old \in DatabaseRecord
      BY <1>1, <2>1, <2>2, <2>7 DEF BuildWrite, Writes, Sound
    <3>2. new.nodes = old.nodes
      <4>. HIDE DEF new, old
      <4>. QED
        BY <3>1 DEF DatabaseRecord
    <3>. QED
      BY <3>1, <3>2 DEF Opening
  <2>8. CASE IngestNodes(p)
    <3>1. /\ new = WithNodes(old, Cardinality(FixtureNodes)) /\ pc[p] = "opened" /\ Current(old)
      BY <1>1, <2>1, <2>2, <2>8 DEF IngestNodes, Working, ProcessInv
    <3>2. /\ new.nodes = old.nodes \cup (old.seq + 1 .. old.seq + Cardinality(FixtureNodes))
          /\ Cardinality(FixtureNodes) \in Nat
      BY <2>1, <3>1, WithNodesCurrent, FixtureFacts
    <3>. QED
      BY <2>3, <3>1, <3>2 DEF Opening
  <2>9. CASE IngestRelations(p)
    <3>. DEFINE offset == Highest(old.nodes) - Cardinality(FixtureNodes)
                more == {<<e[1] + offset, e[2] + offset>> : e \in FixtureEdges}
    <3>1. /\ files' = [files EXCEPT ![handle[p]] = [old EXCEPT !.edges = @ \cup more]]
          /\ pc[p] = "relations"
      BY <2>1, <2>9 DEF IngestRelations, File
    <3>2. new = [old EXCEPT !.edges = @ \cup more]
      BY <2>2, <3>1
    <3>3. new.nodes = old.nodes
      <4>1. old \in DatabaseRecord
        BY <2>1 DEF Sound
      <4>. HIDE DEF more, new, old
      <4>. QED
        BY <3>2, <4>1 DEF DatabaseRecord
    <3>. QED
      BY <3>1, <3>3 DEF Opening
  <2>10. CASE ~(\/ Commit(p) \/ Add(p) \/ Rollback(p) \/ BuildWrite(p) \/ IngestNodes(p)
                \/ IngestRelations(p))
    <3>1. CASE OpenDatabase(p) \/ LookAtTarget(p) \/ OpenTemp(p)
      <4>1. \E path \in Paths, for \in {"command", "target", "temp"} : OpenPath(p, path, for)
        BY <3>1, TempFacts DEF OpenDatabase, LookAtTarget, OpenTemp
      <4>. QED
        BY <1>3, <4>1, Opened DEF FileInv, NamesInv, ControlInv
    <3>2. CASE CreateMetadata(p) \/ InsertMetadata(p) \/ Migrate(p)
      <4>1. files' = files \/ \E db : Write(p, db)
        BY <3>2 DEF CreateMetadata, InsertMetadata, Migrate
      <4>. QED
        BY <1>1, <2>1, <4>1, NotVisible
    <3>3. CASE SkipTarget(p)
      <4>1. files' = files
        BY <3>3, Zenon DEF SkipTarget
      <4>. QED
        BY <2>1, <4>1
    <3>4. CASE ~(\/ OpenDatabase(p) \/ LookAtTarget(p) \/ OpenTemp(p) \/ CreateMetadata(p)
                 \/ InsertMetadata(p) \/ Migrate(p) \/ SkipTarget(p))
      <4>1. files' = files
        BY <2>10, <3>4
        DEF Step, Reject, Crash, ReadMetadata, CountTables, ReadVersion, ValidateCoordinates,
            TargetNodes, TargetRelations, TargetEmpty, BuildNodes, BuildRevision, ClearTemp, Rename, OpenForCheck, CheckRows, CheckMetadata
      <4>. QED
        BY <2>1, <4>1
    <3>. QED
      BY <3>1, <3>2, <3>3, <3>4
  <2>. QED
    BY <2>4, <2>5, <2>6, <2>7, <2>8, <2>9, <2>10
<1>. QED
  BY <1>2, <1>3

(* Whatever openers do, in whatever order, the memories, relations and the *)
(* overlay of every file stay as they are (repository.rs:493, 1106-1153).   *)
THEOREM MigrationAlwaysKeepsMemories == Spec => MigrationKeepsMemories
<1>. DEFINE Kept == (\E p \in Processes : pc[p] \in Opening /\ pc'[p] # pc[p]) =>
       \A i \in DOMAIN files :
         /\ files'[i].nodes = files[i].nodes
         /\ files'[i].edges = files[i].edges
         /\ files'[i].overlay = files[i].overlay
         /\ files[i].version >= 2 => files'[i].terms = files[i].terms
<1>1. ASSUME FileInv, [Next]_vars PROVE [Kept]_vars
  <2>1. ASSUME NEW p \in Processes, Step(p) \/ Crash(p),
               NEW q \in Processes, pc[q] \in Opening, pc'[q] # pc[q], NEW i \in DOMAIN files
        PROVE  /\ files'[i].nodes = files[i].nodes
               /\ files'[i].edges = files[i].edges
               /\ files'[i].overlay = files[i].overlay
               /\ files[i].version >= 2 => files'[i].terms = files[i].terms
    <3>1. q = p
      BY <1>1, <2>1, ControlStep DEF OthersStand
    <3>. QED
      BY <1>1, <2>1, <3>1, MemoriesStep
  <2>. QED
    BY <1>1, <2>1 DEF Next
<1>. QED
  BY <1>1, FileInvariant, PTL DEF Spec, MigrationKeepsMemories

(* A file that is not ours, newer or with invalid coordinates is never     *)
(* changed (architecture.md:20; repository.rs:944-991).                     *)
THEOREM RefusedAlwaysUntouched == Spec => RefusedUntouched
<1>. DEFINE Untouched == \A i \in DOMAIN files : ~Acceptable(files[i]) => files'[i] = files[i]
<1>1. ASSUME FileInv, [Next]_vars PROVE [Untouched]_vars
  <2>1. ASSUME NEW p \in Processes, Step(p) \/ Crash(p) PROVE Untouched
    BY <1>1, <2>1, FilesStep DEF FilesMove
  <2>. QED
    BY <1>1, <2>1 DEF Next
<1>. QED
  BY <1>1, FileInvariant, PTL DEF Spec, RefusedUntouched

(* Since the table of nodes was rebuilt last, no ID is given out twice     *)
(* (repository.rs:23, 1110-1132).                                           *)
THEOREM IdsAlwaysFresh == Spec => FreshIds
<1>. DEFINE Fresh == \A i \in DOMAIN files : (files'[i].nodes \ files[i].nodes) \cap issued[i] = {}
<1>1. ASSUME FileInv, [Next]_vars PROVE [Fresh]_vars
  <2>1. ASSUME NEW p \in Processes, Step(p) \/ Crash(p) PROVE Fresh
    BY <1>1, <2>1, MemoriesStep
  <2>. QED
    BY <1>1, <2>1 DEF Next
<1>. QED
  BY <1>1, FileInvariant, PTL DEF Spec, FreshIds

(* What a demo puts in the place of a database is the whole fixture and    *)
(* nothing else, whatever other processes did or left behind                *)
(* (main.rs:638-663, 689-721).                                              *)
THEOREM IngestAlwaysAtomic == Spec => IngestAtomic
<1>. DEFINE Whole ==
       named'[Database] # named[Database] /\ named[Database] # NoFile =>
         /\ files'[named'[Database]].version = SchemaVersion
         /\ files'[named'[Database]].nodes = FixtureNodes
         /\ files'[named'[Database]].edges = FixtureEdges
<1>1. ASSUME FileInv, NEW p \in Processes, Step(p) \/ Crash(p),
             named'[Database] # named[Database], named[Database] # NoFile
      PROVE  Rename(p)
  <2>1. named \in [Paths -> DOMAIN files \cup {NoFile}]
    BY <1>1 DEF FileInv, NamesInv
  <2>2. named' # named /\ named' # [named EXCEPT ![Temp(p)] = NoFile]
    BY <1>1, <2>1, TempFacts
  <2>3. CASE OpenDatabase(p) \/ LookAtTarget(p)
    BY <1>1, <2>2, <2>3 DEF OpenDatabase, LookAtTarget, OpenPath
  <2>4. CASE OpenTemp(p)
    <3>1. named' = [named EXCEPT ![Temp(p)] = Len(files) + 1] \/ named' = named
      BY <2>4 DEF OpenTemp, OpenPath
    <3>. QED
      BY <1>1, <2>1, <3>1, TempFacts
  <2>5. CASE SkipTarget(p)
    <3>1. named' = named
      BY <2>5, Zenon DEF SkipTarget
    <3>. QED
      BY <2>2, <3>1
  <2>. QED
    BY <1>1, <2>2, <2>3, <2>4, <2>5
    DEF Step, Reject, Crash, ReadMetadata, CountTables, ReadVersion, ValidateCoordinates,
        CreateMetadata, InsertMetadata, Migrate, Commit, Add, Rollback, BuildWrite,
        Writes, TargetNodes, TargetRelations, TargetEmpty, BuildNodes, BuildRevision, ClearTemp, Cleared, IngestNodes, IngestRelations,
        OpenForCheck, CheckRows, CheckMetadata, Fail
<1>2. ASSUME FileInv, NEW p \in Processes, Rename(p) PROVE Whole
  <2>1. /\ named' = [named EXCEPT ![Database] = named[Temp(p)], ![Temp(p)] = NoFile]
        /\ files' = files /\ pc[p] = "rename"
    BY <1>2 DEF Rename
  <2>2. /\ handle[p] = named[Temp(p)] /\ Current(File(p))
        /\ File(p).nodes = FixtureNodes /\ File(p).edges = FixtureEdges
    BY <1>2, <2>1 DEF FileInv, ProcessInv, DemoInv
  <2>3. named'[Database] = named[Temp(p)]
    BY <1>2, <2>1, TempFacts DEF FileInv, NamesInv
  <2>. QED
    BY <2>1, <2>2, <2>3 DEF File, Current
<1>3. ASSUME FileInv, [Next]_vars PROVE [Whole]_vars
  <2>1. ASSUME NEW p \in Processes, Step(p) \/ Crash(p) PROVE Whole
    BY <1>1, <1>2, <1>3, <2>1
  <2>. QED
    BY <1>3, <2>1 DEF Next
<1>. QED
  BY <1>3, FileInvariant, PTL DEF Spec, IngestAtomic

=============================================================================
