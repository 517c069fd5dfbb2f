# memory3d in TLA+

A verification development for memory3d (`src/`), a local associative memory: a Rust core that keeps a graph of
memories and an evidence ledger in one SQLite file, with a CLI, an MCP server and a Python binding around it. The
modules here model the core's state and operations, the life of the database file and the surfaces around the core; TLC
checks them on small instances, and TLAPS proves the most important results for every value of the constants.

Contents: [inventory](#the-system) · [modules](#modules) · [runs](#runs) · [findings](#disagreements-with-the-documentation)
· [theorems](#theorems) · [limits](#what-is-not-shown) · [plan](#plan).

## The system

Everything durable is in one SQLite file, opened by a `Repository` (`src/crates/memory3d-core/src/repository.rs:486`).
A call runs to completion on its thread; the core has no background tasks, queues or callbacks. Concurrency comes
from several `Repository` values on one file (two CLI processes, the MCP server beside a CLI, two Python objects) and
from the tasks of the MCP server, which share one `Repository` behind a mutex. What SQLite gives them is atomic transactions (rollback journal; a refused lock is `Busy` after 250 ms). What it does not
give is isolation **between** the statements of a call that run outside a transaction, and much of the code's checking
is done there. `docs/limitations.md:8` restricts the tested operating model to one local writer.

| Component | State | Operations | Interacts with | Hard behaviour | Correct when |
|---|---|---|---|---|---|
| Evidence ledger (`evidence.rs`) | `evidence_bundles`, `evidence_items`, four reference tables, projected nodes and relations | preview, apply, identical replay, rollback | writes the graph tables; the community revision counts its rows | all checks precede the transaction; retries by idempotency key; rollback may not take what others depend on | bundles are all-or-nothing, references resolve, a rollback removes its own bundle and nothing else, replays return the mapping |
| Stored graph (`repository.rs`) | `nodes`, `relations`, two AUTOINCREMENT sequences, term index | add nodes and relations, update weight and coordinates, list, get | everything reads it | IDs outlive deletions in callers' hands | nothing dangles, no ID is reused |
| Feedback (`repository.rs:818-935`) | `relation_feedback_events`, `reinforcement_count` | record, remove, list | RESTRICTs deletion of relations | derived counter and events are two copies of one fact | the counter is the number of positive events |
| Community overlay (`community.rs`) | `community_graph_state`, `community_builds`, `community_memberships` | build, delete, status, list, routing index | triggers on the graph tables; activation routes by it | build and index read in several statements outside a transaction | an overlay that passes for current is that of the stored graph |
| Activation and search (`retrieval.rs`) | none (reads) | search, activate with feedback or communities, inspect adjacency | graph, terms, feedback, overlay | four budgets, one stop reason, best of several paths to a node | budgets hold, every path is real, scores bounded, deterministic |
| Context assembly (`evidence.rs:1222-1320`) | none (reads) | assemble a bounded context, get item | ranked candidates, lifecycle, conflicts | result, scan and byte limits; abstention | one explicit stop reason; no lifecycle, scope or conflict violation in the context |
| Schema and migrations (`repository.rs:937-1181`) | schema version, all tables | open, create, migrate 1..7, refuse newer | runs before everything else | version is read outside the transaction; version 7 rebuilds `nodes` | an interrupted or concurrent open leaves an old or the new schema with all data |
| Integrity check (`repository.rs:521-607`) | none (reads) | check, read-only | all tables | rows and metadata are read in turn | what it calls sound, open accepts |
| CLI (`memory3d-cli`) | temporary file of demo ingest | one or two repository calls per command; demo ingest | core | emptiness check, then temporary file, then rename | the target is the old or the complete new database |
| MCP server (`memory3d-mcp`) | `Arc<Mutex<Repository>>` | one or two repository calls per tool call | core | a panic poisons the mutex: every later call is refused | what a tool reports is true of one moment; every request ends |
| Python binding (`memory3d-python`) | one `Repository` per object | one repository call per method, open, close | core | closed objects; arguments checked before or after the closed check | a refused call changed nothing |

`PROJECT.json` lists the hazards of this code at their lines, each with the properties that would catch it.

## Modules

| Module | What it is |
|---|---|
| `EvidenceLedger` | graph, feedback and ledger tables with every call of every connection |
| `EvidencePromise` | abstract specification: what the ledger promises, without tables, phases or connections |
| `EvidenceLedgerProperties` | invariants, action properties and the refinement of the ledger |
| `EvidenceLedgerProofs` | type correctness, all-or-nothing, resolved references, refinement of `EvidencePromise` |
| `EvidenceProjectionProofs` | the projected graph: complete, nothing dangles, IDs fresh, exact feedback counters; what holds of the ledger with one connection: groups, replays, rollbacks |
| `CommunityOverlay` | graph revision, overlay rows, builds and routing indexes, with their properties |
| `CommunityOverlayProofs` | whole and nested memberships; freshness with one connection |
| `PartitionMerge` | abstract specification: communities by merging blocks of a partition |
| `CommunityResolution` | the union-find that computes them, iteration by iteration |
| `Activation` | search and bounded activation, statement by statement, beside a connection that writes |
| `ContextAssembly` | `Activation` extended by `assemble_evidence_context` |
| `Retrieval` | composes the three: a build of communities, then one retrieval call; all their properties |
| `RetrievalProofs` | types, budgets, races, rivals, contexts and paths of a call; the forest of a build |
| `BestPathProofs` | an activation that no budget ends finds the best of all simple paths to every node |
| `CommunityBuildProofs` | the communities of a build are the components; refinement of `PartitionMerge` |
| `DatabaseFile` | open, create, migrate, check, write and replace a database file; crashes |
| `DatabaseFileProofs` | all nine properties of the database file |
| `LocalClients` | composes MCP tasks, command lines and Python objects with `EvidenceLedger` |
| `LocalClientsProofs` | the lock, the answers, and the ledger's promises under its surfaces |
| `MC...` | instances for TLC |

`Retrieval` takes `CommunityResolution` with `INSTANCE ... WITH`, because both have a `current`; `LocalClients` extends
`EvidenceLedger`, whose actions are its repository calls unchanged. A definition that begins with the comment "Mutant:" is
the slip some line of `PROJECT.json` puts in place of the definition that follows it; nothing else uses it.

### One transaction, one step; one read outside a transaction, one step

This is the convention of all modules. `phase[c]` says where connection `c`'s call stands, `arg[c]`/`work[c]` what it was
given and has read, `reply` what the call that last returned answered. A call whose work is one transaction (add nodes,
record feedback, delete communities) is one action. A call that reads before its transaction has one action per read, so
another connection may commit in between. `CallFails` ends any call at any point without touching a table: it stands
for `Busy`, a failed commit, a clock error and the death of the process. SQLite's journal makes that exact: a
transaction that did not commit leaves nothing. So crash and restart need no further action: the tables are
all that survives, and a call never resumes.

With `Connections = {c1}` a module is the documented operating model (one local writer, or an MCP server's
mutex); with two it is two processes on one file.

### EvidenceLedger

- Tables: `ledger` and `rolledBack` are `evidence_bundles` (payload and `rolled_back_at_ms`), `itemBundle` and `itemNode`
  are `evidence_items`, `refs` the four reference tables, `nodes`/`nodeSeq` and `feedback`/`feedbackSeq` the rows and
  AUTOINCREMENT sequences, `relations`/`reinforcement` the relations by primary key and their counter.
- `apply_evidence_bundle` is `ApplyLookup` (ledger row: conflict, rolled back, replay or new), `ApplyCheck` (one read per
  item and per reference, `pending` holding those still to make), `ApplyWrite` (the transaction with the constraints its
  INSERTs may hit), and for a replay `ReplayLedger` and `ReplayItems`.
- `rollback_evidence_bundle` is `RollbackLookup`, `RollbackEvidenceCheck` (one query per reference table, in order),
  `RollbackGraphCheck`, `RollbackWrite`.
- `AddNodes`, `AddRelations`, `RecordFeedback`, `RemoveFeedback` are the one-transaction calls. `issued` is for the properties: all node
  IDs ever given out, also those whose nodes are gone.
- Abstracted: a payload is its key, items, references and conflict groups; text, producer, scope, lifecycle, timestamps
  and the SHA-256 key are data the ledger copies. Two payloads of one key that differ in any field are two bundles.
  The code checks items in ID order, the model in any order that checks a reference after its item.

### CommunityOverlay

- `revision` is `graph_revision`; `Revised(rows)` is the trigger that fires once per row; `build` is the one row of
  `community_builds` or none; `memberships` are the rows of each resolution.
- `build_communities` is `BuildNodes`, `BuildRelations`, `BuildRevision` (with the error for a relation whose node was
  not read) and `BuildWrite` (with the foreign key of a membership whose node has gone). `community_routing_index` is
  `RouteRevision`, `RouteBuild`, `RouteMemberships`.
- Writers: `AddNodes`, `AddRelations`, `UpdateRelationWeight`, `UpdateNodeCoordinates`, `ApplyBundle`, `RollbackCheck` and
  `RollbackWrite`. After an update the code reads the row back for its report; that read changes nothing and is left out.
- Abstracted: a weight is its rank; a `community_id` is the set of nodes it numbered at the build, so that equal IDs are
  equal sets; the union-find that computes the sets is `CommunityResolution`. Feedback does not appear: it
  is no column the revision counts, and a rollback it blocks is a `CallFails`.

### CommunityResolution and PartitionMerge

- `build_resolution` runs twice. `NextRelation` takes a relation in **any** order (the code's order depends on node IDs);
  `ClimbToRoot` and `Compress` are the two loops of `find`, one iteration a step; `LeftFound` and `RightFound` the two halves
  of `union`; `MemberFound` the second loop; `NumberGroups` sorts the groups and numbers them.
- `MergesAsPromised` is the refinement of `PartitionMerge`: a block is the set of nodes whose positions have one root, a merge happens
  when `parents[left_root]` or `parents[right_root]` is assigned, path compression is a stutter. `CommunitiesAreComponents` states
  the result against connectivity in the graph, `ParentsDescend` why both loops of `find` end.

### Activation, ContextAssembly, Retrieval

- A call is a record of its options. `SeedQuery` reads the term index, `SeedRead` one node of it, `NextPath` takes a path
  from the queue and reads its relations, and `admit_relation` is four actions by outcome: `CycleClosed`, `NodeBudgetSpent`,
  `TargetVisited` (which reads the node) and `TargetRevisited`. `FinishActivation` ranks. A policy changes the order of the
  relations and the weights (`OrderedRelations`, `EffectiveWeight`); a community call first checks that its overlay is current.
- `assemble_evidence_context` has a step for each statement it makes of a candidate: `NextCandidate` finds the evidence ID of a node,
  and from there on everything is read by that **ID**: `ReadItem` its row, `DecodeItem` the node of that row, `ReadConflictsWith` and
  `ReadSupersedes` its references, `ReadConflicts` and `Judge` who refers to it; `ScanEnds` gives the reason at the end. The references of
  the two other kinds are read too, but nothing depends on them.
- `OtherConnection` commits up to `call.writes` times between any two statements of a call: the rollback of any bundle, if nothing
  outside refers into it, the apply of one of `NewBundles`, or a new weight. An evidence ID may so be rolled back and stored again with
  another node and other references while a candidate is being read. Node IDs are fresh, as `EvidenceLedger` shows.
  It adds no ordinary memories or relations: to a walk they would be new nodes and relations as those of a bundle are.
- Scores are exact integers: weights are multiples of 1/40, a hop divides by 50, `Scale` leaves room for `MaxHops = 3` hops.
- Left out: f32 rounding; `inspect_adjacency`, which only times and explains one query; the options' upper limits (all values are
  small). Feedback under a policy is read per relation in the code and at once here: the other connection
  never records or removes feedback. The overlay of a community call is built at revision 0, its thresholds and freshness
  are the subject of `CommunityOverlay`. A truncated scan of candidate relations under a policy does not appear in the
  report's stop reason, and an event dated after `now_ms` counts for nothing; both are as the code has them.

### DatabaseFile

- `files` are inodes and `named` what the paths name, so that a rename leaves a process with the old file. A file has its format
  row, version, the `CREATE_SCHEMA` batches it has seen, nodes, sequence, terms, relations, triggers and overlay.
- `Repository::open` is `ReadMetadata`, `CountTables`, `ReadVersion`, `ValidateCoordinates` (statements outside a
  transaction), then `CreateMetadata`/`InsertMetadata` and one `Migrate` a version, which hold the write lock to `Commit`.
  `txn` is the transaction's view; others see `Visible`, the file as committed. A second writer is `Busy`.
- `Add` and `Rollback` are commands of one transaction. A build is three steps: `BuildNodes` and `BuildRevision` read outside the
  transaction of `BuildWrite`, which a foreign key refuses when a node is gone by then; the relations, read in between, decide only what
  is together (`CommunityOverlay`). With a second process the overlay may so be labelled with a revision it was not built at, as finding 5
  has it: `OverlayMislabelledByRaceOnly` says what holds all the same. `Reject` is an `add` whose argument is refused after the open.
- Demo ingest is `LookAtTarget` or `SkipTarget`, `TargetNodes` and `TargetRelations` (two reads), `ClearTemp`, `OpenTemp`, the open of the temporary file, `IngestNodes`, `IngestRelations`, `Rename`.
  `check` is `OpenForCheck`, `CheckRows`, `CheckMetadata`.
- `Crash` ends a process at any statement: its transaction is gone, its files stay. A restart is its next command. The
  temporary file it leaves carries its process number; a later process of that number clears it.
- `Sound` says of a file that its tables fit together and have what its version promises. The files a history may
  start with are assumed to be so (`DatabasesSound`): they are what some release of the program left behind, or a file that is not a
  database of it. `Filled` is the part of a migration that fills tables from the rows that are there, `BatchRun` the rest.
- What the model shows besides its properties: an opener that read version 6 while another was migrating rebuilds `nodes` a second
  time at version 7, which loses nothing but resets the ID sequence; openers of one empty file may be refused it once
  (`RefusalsRetriable`); a demo without `--replace` looks at the target long before it renames, and what others commit in between,
  or write into the file that lost its name, is gone; a demo dying before its rename changes nothing. The gap between look and rename is
  a hazard without a property: nothing in the repository promises that it is closed.
- Not modelled: SQLite's journal beside a renamed file, `Busy` for readers during a commit (a read that fails is tried
  again), damage to pages.

### LocalClients

- A request is an operation with its argument; `Calls(op)` are the repository calls it makes (`health` and `info` two reads,
  `evidence_apply` a preview and an apply), each of them the steps of `EvidenceLedger` on the connection `Conn(c)`.
- MCP tasks: `Lock` takes the mutex or finds it poisoned, and validates under the lock. `Panic` unwinds a task that holds
  it. The core has no `unwrap` or `panic!` of its own in these paths, but nothing excludes one in a dependency, so a panic is
  possible at any step; the request is then not answered and all later ones are refused.
- A command parses numbers and required options before it opens the database, and `evidence preview` and `apply` read the whole bundle;
  kinds, texts, names, weights, strengths and keys are refused only after the open (`Run`, `ReadFirst`), which may itself fail, and which may
  have created or migrated the file by then (`Reject` of `DatabaseFile`). A Python object validates `add_text` and `link` before
  it finds that it is closed, and `get` after (`Invoke`).
- `commits` and `raced` are for the properties: how many transactions the current request has committed, and whether another
  process committed while it was at work.
- Left out: opening (the subject of `DatabaseFile`); retrieval calls (one call under the lock, the subject of `Retrieval`);
  duplicated command-line options, of which the first counts; the transport. That a request is a task of its own is the MCP
  library's doing.

## Runs

All passing runs explore their state space completely. Deadlock is checked in every run of the ledger and the overlay; in
`retrieval`, `database_file` and `local_clients` a call is answered or a plan of requests is worked off, and the system
stops there, so their configurations say `CHECK_DEADLOCK FALSE`.

| Run | Instance | Shows |
|---|---|---|
| `ledger_one_writer` | one connection, 3 keys, 3 evidence IDs, 3 bundles, 1 ordinary node, 2 ordinary relations, 2 feedback events; 1.4 million states | `TypeOK`, `ProjectionComplete`, `ConflictGroupsAgree`, `FeedbackCountExact`, `NothingDangles`, `RollbackStaysInside`, `NodeIdsNeverReused` |
| `ledger_two_connections` | two connections, 3 keys, 3 evidence IDs, 6 bundles that reference and rival each other | `BundlesAllOrNothing`, `ReferencesResolve`, `KeepsPromise` although every check is outside the transaction |
| `overlay_one_writer` | one connection, 2 nodes, 2 ordinary relations, 3 weights, 2 policies, revision up to 6 | `CurrentOverlayFits`, `RoutedIndexFits` |
| `overlay_two_connections` | two connections, 2 nodes, 2 ordinary relations, revision up to 4, connections symmetric | `TypeOK`, `MembershipsWhole`, `FineRefinesCoarse` |
| `retrieval` | 4 memories of which two have the same content; two more that bundles may bring; 9 families of calls; 399 thousand states | budgets, paths, best paths, contexts, communities, and `CallAnswers` |
| `database_file` | 2 processes, 20 plans, 14 kinds of file, 2 crashes; 524 thousand states | nine properties of open, migrations, check and demo ingest |
| `local_clients` | 2 MCP tasks, a command line, a Python object, 16 plans, 2 bundles; 55 thousand states | `ClientsTypeOK`, `ServerReportsOneMoment`, `AnswersTellEffects`, `RequestsEnd` |
| `rollback_of_referencing_bundle`, `relation_lost_to_rollback`, `ordinary_relation_inside_bundle`, `replay_of_rolled_back_bundle`, `overlay_labelled_too_new` | see below | one disagreement each |

**Why the bounds are enough.** The ledger's interesting cases need: two payloads of one key (conflict, replay), an ID
stored, rolled back and stored again under another key and in another group, a bundle that references an earlier one and
one that references that one, an internal reference, and all four reference kinds but for their name. Three keys and
three IDs hold them; a fourth repeats one of these roles. `ledger_two_connections` has all six bundles; `ledger_one_writer`, where
ordinary relations and feedback multiply the states, has three: one with an internal reference, one that rivals it, and one with an ID of the first in another group. `MaxBundleItems` and `MaxReferences` are refusals before any
state is read. `MaxNodes` bounds ordinary nodes only; projected nodes are bounded by the keys, each applied
once. The overlay's cases need a reciprocal pair, a weight in each of the three bands, a rebuild after a change, a node
deleted after it was read, a relation added after the nodes were read: two nodes and the listed revisions hold each
of them, and the theorems carry the results to any size. In the two-connection runs two connections suffice for any pair of
reads to be split by another's commit; a third adds another committed transaction, which a second connection can make too.

The families of `retrieval` are: searches of every kind filter and limit; walks over every subgraph of six relations and
every weight of three (cycles, a tie between two ways of one length, a longer way that beats a shorter one); relations of weight 0 behind
two seeds of which either scores higher; every combination of small
hop, seed, node and edge budgets on a graph with parallel relations; positive, negative, old and future feedback; community routes;
every set of three conflicts and three supersessions under six limits; calls of every kind beside two commits of another
connection, contexts beside three, which is what rolling an ID back, storing it again and one more commit take; queries that match nothing. Four nodes hold a diamond, which is the smallest graph on which pruning by
(node, hops), breadth-first order and the tie by path can disagree. Three hops are one more than that diamond needs.

`database_file` starts from no file, an empty one, foreign ones, one with invalid coordinates, and every version from 0 to 8.
Two processes suffice to split any two statements of an open; two crashes let a process die, leave its
temporary file, and die again. `local_clients` needs two tasks for the mutex, one process beside the server to race it, and
one object to be closed; requests are chosen so that previews, replays, rollbacks and reads meet in every order, and one plan has a task refused right
after a request that went well, so that nothing of the earlier report is taken for the later one.

**Fairness.** The ledger, the overlay and the file make safety claims only: without a caller nothing there is owed to happen.
`Retrieval` has `WF_vars(CallStep)`: a call runs on one thread and waits for nobody, so that `CallAnswers` is about the termination
of its loops, on cyclic graphs and under another connection's writes. `LocalClients` has weak fairness of each client's next
step: tasks and processes are scheduled. It is enough for a mutex that is not fair itself because the plans
are finite, so a task cannot be overtaken forever. No failure and no panic is ever fair.

`BlockedOnlyByDependents`, `RollbackStaysInside`, `RollbackRemovesOnlyProjection`, `ReplaysReturnMapping` and `CurrentOverlayFits` are
stated where they fail, see the next section; the first and the third fail with one connection already. `ConflictGroupsAgree` and
`RollbackStaysInside` hold for one connection and are **not** claimed for two: an ID rolled back and stored again in another group between a check and its
transaction makes groups disagree.

Every property of a passing run has a mutant in `PROJECT.json`: a plausible slip in the code (a missing foreign key, a dropped max(),
swapped thresholds, IDs numbered from the highest stored row, ...) that the run detects.

## Disagreements with the documentation

1. **A bundle that references earlier evidence cannot be rolled back** (`BlockedOnlyByDependents`, one connection).
   `external_graph_dependency` (`evidence.rs:1634`) counts the relations the bundle's own apply projected for its references. `evidence.rs:1324`
   and `docs/evidence-envelope.md:22` say that only later evidence or an ordinary relation blocks.
2. **A relation can be lost to a rollback** (`RollbackStaysInside`, two connections): one committed between the
   dependency query and the transaction is deleted with the bundle.
3. **An ordinary relation between two nodes of a bundle goes with it** (`RollbackRemovesOnlyProjection`, one connection). The query at
   `evidence.rs:1634` looks for relations with exactly one end in the bundle, the deletion at 1376 takes all that touch it. ADR 0021:54-55
   says that a rollback removes only the bundle and its projection, and `evidence.rs:1324` that an ordinary relation blocks it.
4. **A replay can report success without items** (`ReplaysReturnMapping`, two connections): its two reads straddle a rollback.
5. **The overlay's revision is not captured transactionally** (`CurrentOverlayFits`, two connections), as `community.rs:142`
   says: nodes, relations and revision are three reads, the revision last, so an older graph's overlay can pass for current.

2, 4 and 5 take a second connection and lie outside the tested operating model; 1 and 3 do not.

Two more came up while properties of `Retrieval` were strengthened. They have no run of their own; the properties state what does hold:

- **Ties at score 0 do not always go to the lower seed**, as `retrieval.rs:425-426` says of exact ties. A relation may have weight 0
  (`lib.rs:875`); every path through it scores 0, but by then only one path per node and number of hops is left, the best before
  (`retrieval.rs:981`). With seeds 1 and 2, of which 2 scores higher, relations 1 → 3, 2 → 3 and 3 → 4, and the last of weight 0,
  node 4 is reported with the path of seed 2. Reached nodes and scores are right, and no tie of a positive score is affected:
  `BestPathWins` exempts score 0 from its claim about ties only.
- **Two rival items can be in one context** beside a second connection, even while both are stored. A candidate's evidence ID is read by
  node and its item by ID (`evidence.rs:1571-1587`): if the ID is rolled back and stored again in between, now superseding an item that was
  admitted before, the new item is returned under the old candidate and admitted too. A rollback alone can do it as well: if their bundle
  goes after the row of a candidate was read and before who supersedes it is. `RivalsOnlyByRace` says that these are the only ways: an admitted
  item that contradicts another admitted one was stored anew during the call, or is gone. No document promises more, and with one
  connection nothing that anything stored contradicts is ever admitted.

## Theorems

For every set of connections, processes, keys, evidence IDs, groups, names, bundles, weights, policies and plans and every bound, from
the assumptions the modules name, which TLC evaluates on every instance:

| Assumption | Why the code justifies it |
|---|---|
| `BundlesWellFormed`, `SentinelsDistinct`, `IdsAreNotReferences`, `BoundsAreNat` | a bundle is checked before any read; the rest says that an item is not a reference and "none" is not a value |
| `PoliciesValid` | `CommunityPolicy::validate` |
| `PlansRunnable`, `NamesDistinct` | a plan is a sequence of commands; no file and no process is none |
| `FixtureNumbered` | demo ingest writes the fixture into an empty file, whose IDs count from 1 |
| `ConnectionsOfClients`, `ClientsDistinct` | the server has one connection, every command and object one of its own |
| `PlansOffered` | a client asks what its surface offers, with a value of the argument's type or an invalid one |
| `DatabasesSound` | the files a history starts with are those the program leaves, see `DatabaseFile` |
| `NodesValid`, `CallsValid` | a row's importance and a weight are in their intervals; every option is validated before the first read |
| `DatabasesValid`, `LedgersValid`, `BundlesValid` | foreign keys and CHECK constraints of the tables; an apply stores a reference and its relation in one transaction |
| `ThresholdsOrdered` | `CommunityPolicy::validate` |

| Theorem | Establishes |
|---|---|
| `TypeCorrect` | `[]TypeOK` of the ledger |
| `AllOrNothing`, `NoDanglingReference` | `[]BundlesAllOrNothing`, `[]ReferencesResolve` |
| `PromiseKept` | `Spec => Promise!Spec`: the tables implement the abstract ledger |
| `ProjectionStaysComplete`, `NothingEverDangles`, `NodeIdsAreFresh`, `FeedbackAlwaysExact` | the projected graph and its counters |
| `ConflictGroupsAlwaysAgree`, `RollbackAlwaysStaysInside`, `ReplaysAlwaysReturnMapping` | the ledger under the hypothesis of a single connection; the last two are those of finding 2 and 4, which therefore need a second connection |
| `MembershipsAlwaysWhole`, `FineAlwaysRefinesCoarse`, `OverlayTypeCorrect` | types, whole and nested rows of the overlay, any number of connections |
| `CurrentOverlayAlwaysFits`, `RoutedIndexAlwaysFits` | freshness, under the hypothesis of a single connection |
| `FileInvariant`, `DatabaseTypes` | the inductive invariant of the database file, and its types |
| `FilesAlwaysComplete`, `OverlayAlwaysTraceable`, `RefusedAlwaysUntouched`, `MigrationAlwaysKeepsMemories`, `IdsAlwaysFresh` | what any number of openers, writers and crashes do to a file |
| `CheckedAlwaysOpenable`, `RefusalsAlwaysRetriable`, `IngestAlwaysAtomic` | what check, a refused open and demo ingest answer and leave |
| `ClientsInvariant`, `LockAlwaysExclusive` | the inductive invariant of the surfaces; the lock is exclusive and no call is left on a connection |
| `RetrievalInvariant`, `RetrievalTyped` | the inductive invariant of a call and of a build, and its types |
| `WalkInvariant`, `BestPathsWin` | what a walk keeps and still has to extend; without a budget in the way its candidates are the nodes simple paths reach, each with the best of them |
| `BudgetsKept`, `PathsFollow` | a call keeps its budgets; every path can be walked and has the score of its steps |
| `CorruptionIsARace`, `RivalsAdmittedByRaceOnly` | what a call answers beside a second connection |
| `ContextInvariant`, `ContextAccountedFor`, `ContextsComplete` | a context adds up, stops for its reason and leaves nothing out without one |
| `ForestsDescend`, `BuildInvariant`, `CommunitiesFound` | the union-find is a forest whose trees end as the components, numbered by first members |
| `BuildMerges` | `Spec => MergesAsPromised`: the union-find implements `PartitionMerge` |
| `SurfacesKeepLedger`, `SurfacesKeepPromise` | the ledger's invariants and its refinement, under any clients |
| `AnswersAlwaysTell`, `ServerAlwaysReportsOneMoment` | what a request answers is what it did, and of one moment |

*The ledger.* `BundlesAllOrNothing` is not inductive alone: a rollback keeps it only if the rows it deletes are those of a
bundle the ledger holds, an apply only if IDs and references are what their types say. The invariant is
`LedgerInv == WellTyped /\ BundlesAllOrNothing /\ ReferencesResolve /\ LedgerRowsStay`. What makes it survive any
interleaving is visible in the proofs of the two transactions: neither uses the earlier checks, only the constraints
(`ApplyViolatesConstraint`, `RollbackViolatesConstraint`). The same lemma shows that each transaction is an `Apply` or `Rollback`
of `EvidencePromise`, and every other step a stutter.

*The projection.* `StoreInv` adds `GraphInv`: every ID ever issued is at most the sequence, which no step lowers (so new ones are fresh
also of those rolled back),
every stored item has a node of its own and every reference its relation, and nothing dangles. A rollback keeps another bundle's relation
because it keeps both of that relation's nodes, which follows from `ReferencesResolve` and the injectivity of `itemNode`.
`CountedInv` adds that feedback IDs are at most their sequence: the counter stays the number of positive events because an event is one
more element of a finite set, and removing it one fewer.

*One writer.* With a single connection, what a call has read is what is stored when it writes. `OneWriterInv` says so phase by phase
(`ReadsHold`): the items and references still `pending` are all whose checks are missing, so at `ApplyWrite` every reference
has passed its check against the present tables, conflicts and groups included; at `RollbackWrite` no relation or feedback of
others touches the bundle; a replay is of an active bundle. It fails for two connections, as the findings show.

*The overlay.* `OverlayInv` (tables, rows and what calls have read are well formed, bundles disjoint and
finite) holds for any number of connections. Nesting comes from `CommunitiesNest`, a fact about the communities of any graph: a set closed
under the coarse relations is closed under the fine ones, so components nest. `FreshInv` adds, for one connection, that
what a build has read is still stored and that a row with the graph's revision is of the graph; the key lemma is `WritesRevise`: a
writer changes no table or raises the revision.

*The database file.* `FileInv` is the conjunction of
`FilesInv` (every file is `Sound`; of a file of ours, the issued IDs are at most its sequence), `ControlInv` (types of where a process
stands), `LockInv` (who holds a lock is at its format row or its migrations, with that file open), `NamesInv` (no path but its own names the
temporary file of a demo, and no other process has it open), and for every process `ProcessInv` and `DemoInv`. `ProcessInv` is the core: what a
process has read outside a transaction is still so, **or the file is by now at the current version** (`Current`), because a transaction that
changes the version runs to the end; under the lock, `txn` is complete at the version it has come to and has the memories of the file it
replaces (`Underway`); of a build, what it has read of the nodes is still stored, or the revision has moved on since (`ReadsNodes`). `DemoInv` says how far a temporary file is filled. A step is then shown twice: its effect on the process that
takes it (`OwnStep`), and that it leaves what every other process relies on (`OthersUnharmed`), for which it is enough that files
change in the ways `FilesMove` lists. Hence the number of processes does not matter. An opener that read version 6 too early and
rebuilds `nodes` a second time is one of the cases, and why `FreshIds` speaks of the IDs issued since the last rebuild.

*The surfaces.* `ClientsInv` takes `CountedInv` of the ledger and adds that a task is at work exactly while it has the lock, that a
connection executes a call only for a request at work on it, that this call is of the request's operation and argument, and
that a request at work has committed nothing so far. Two clients of one connection are two tasks, so `AloneAtWork`: whoever works
is alone on its connection. A step is shown as its effect on the client (`OwnMove`), on the rest (`Moved`) and on what is
answered (`Told`), once for a request that ends, one that advances to its next call and one whose call goes on; every action is one
of these. The call itself is an action of the ledger or reads only, so `CountedInv` is kept by the ledger's own
lemmas, and the refinement likewise. `MomentInv` adds for the tasks that, unless the request was raced, what its preview has found
is so (`FoundSo`), and that after it an applicable bundle is applicable still: then no check can refuse, no constraint can fail, and
the answer is the one the preview promised. A first form of `ServerReportsOneMoment` read the report before the step; it
is false when a task's next request is refused under the lock, and the property now reads the report the answer is sent with.

*A retrieval call.* `RetrievalInv` is the conjunction of `StoreOK` (the tables under their foreign keys), `CallOK` (what the call has
read), `ForestOK` (parents descend; a find is on the way to its root), `RaceOK` and `BudgetOK`. `RaceOK` is what makes
`InvalidDatabase` a race: a node that was read and is read again is stored, **or the bundle has been rolled back since the call began** (`Gone`).
`KnownOK` and `RivalsOK` are what rivals need: the walk knows only nodes given out before it ended, an item the call has read is still stored
with the references read or its node is gone (`Current`), and who refers to an admitted item was applied after the walk (`Afterwards`), so that
its node is none of the candidates. `BudgetOK` counts: every adjacency query is
paid for by a seed or by an edge, every node read by a visited node.

A context needs `PackageOK` and `CompleteOK` besides: the results are a ranking of the candidates, the inspected ones are a prefix of
it, and each of these is in the package or `Settled`, left out for a reason that no later step takes away: exclusions do not change
without a second connection, and an item that did not fit would not fit later. That sorting loses and invents nothing
(`Sorted` is a bijection) follows without induction: the number of elements before one tells it apart from all others, and an injection of
a finite set into one of its size is onto. Sums along a sequence and propagations along a path are recursive functions;
an invariant never unfolds them but has a function that satisfies their equations (`Sized`, `Carried`), and `EndAlike` says that two such functions agree.

*Best paths.* A walk extends, of all paths to a node with as many hops, only the one in `best`, and drops a path that would close a cycle;
`BestPathsWin` says that neither loses anything. `WalkInv` states what the walk keeps while nothing else is committed: an entry of
`best` only ever improves (`Improves`); every path kept (`Keeps`: a seed or an entry) has been considered as a candidate (`Considered`)
and is pending or extended (`Covers`), that is, every relation that leaves it leads to a kept path that is no worse; along a
path the entries are no worse than its end (`Above`); and no division of a score has rounded (`Exacts`, by `MaxHops` hops at most), so
that hops preserve the order of scores. When the walk ends nothing is pending, and it is counted up over the hops that every simple
path is `Led`: some kept path ends at its node after no more hops and is ahead of it. The hard step is
`LedFurther`. Where the kept path can take the next relation, the order of scores and keys passes on (`HopOrder`,
`NotAfterGoesOn`); where that would close a cycle, the kept path has been at the target itself, with fewer hops and no lower
score (`Above`), and a hop loses score (`HopDeclines`), so the entry there is ahead. Two paths that tie after a relation tied before it
if the score is positive, which is why keys decide all the way; past a weight of 0 they need not have, and that is the exemption in
`BestPathWins`. Conversely a
candidate's prefixes are simple paths one hop after another (`PrefixesHop`). The recursive `SimplePaths` is never unfolded beyond its
equations (`HopsAre`).

*A build of communities.* `Stage` is the classic pair of the union-find: nodes of one tree are connected (no set closed under the joining
relations tells them apart), and the ends of every relation already merged are in one tree. "Reaches its root" is said with
closed sets rather than by counting steps (`Goes`), so that compression (`CompressedRoots`) and a merge (`MergedRoots`)
are facts about sets. When nothing is left to merge the trees are the components (`ComponentsAreTrees`), and `NumbersAgree` and
`NumbersTellApart` lead from trees to `community_id`s. In the refinement, the recursive `RootOf` is shown to exist and to be the root
(`ClimbExists`, `ClimbFinds`); a merge joins two blocks, compression is a stutter.

Only model-checked:

- the two liveness properties, `CallAnswers` and `RequestsEnd`: liveness is beyond the prover, as is `ENABLED`;
- the violations, of which a counterexample is the proof.

The library's induction theorems take an operator as a parameter, which the provers cannot instantiate. Where an argument counts up, as
along a sequence, it is made with a set of numbers that has a least element or fills an interval (`LeastNatural`, `CountingUp`).

## What is not shown

- Contents: validation of texts, JSON and numbers, hashing, timestamps, report formatting. A clock that steps back makes
  `rolled_back_at_ms >= applied_at_ms` fail; that is a `CallFails`.
- Timing: the 250 ms of the busy timeout are a nondeterministic `Busy`; latencies in reports are left out.
- SQLite itself: atomicity, durability, locking and constraint enforcement are assumed.
- f32: scores are exact here. Sums that round differently in another order could make ties the model does not have.
- The evidence bundles that `demo lifecycle` ingests and walks through, the options of the CLI's retrieval commands and all output:
  the lifecycle demo takes the same way as demo ingest to its target and then makes calls the ledger models.
- Retrieval through the MCP server and Python is not composed with the locks: each is one call, and the state that
  other requests may change between its statements is covered by `OtherConnection`, which allows more than the mutex does.

## Plan

Done: the modules above. Left: the lifecycle demo's sequence of bundles as a plan of `LocalClients`.
