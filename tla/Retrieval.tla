------------------------------ MODULE Retrieval ------------------------------
(***************************************************************************)
(* The read side of memory3d-core: the communities of an overlay are built *)
(* (CommunityResolution) and a call searches, activates with or without a  *)
(* policy (Activation), or assembles a context (ContextAssembly).          *)
(*                                                                         *)
(* A call for communities is preceded by the build of its overlay.         *)
(***************************************************************************)
EXTENDS ContextAssembly

CONSTANT Thresholds  \* CommunityPolicy: the weight threshold of each resolution

ASSUME ThresholdsOrdered ==
  /\ {Thresholds["fine"], Thresholds["coarse"]} \subseteq Nat
  /\ Thresholds["coarse"] <= Thresholds["fine"]

VARIABLES graph, resolution, step, todo, parents, goal, root, climbing, keptRoot, roots

build == <<graph, resolution, step, todo, parents, goal, root, climbing, keptRoot, roots>>
vars == <<contextVars, build>>

Build == INSTANCE CommunityResolution WITH current <- climbing

Init ==
  /\ ContextInit
  /\ Build!Init
  /\ phase = IF call.kind = "community" THEN "build" ELSE "seed_query"

BuildUnchanged ==
  UNCHANGED <<stored, began, call, hits, seeds, stats, walk, results, reply, package>>

BuildStarts ==
  /\ phase = "build"
  /\ graph = Build!NoGraph
  /\ Build!Build(nodes, weight)
  /\ UNCHANGED phase
  /\ BuildUnchanged

BuildContinues ==
  /\ Build!Step
  /\ UNCHANGED phase
  /\ BuildUnchanged

BuildEnds ==
  /\ phase = "build"
  /\ graph # Build!NoGraph
  /\ step = "idle"
  /\ phase' = "seed_query"
  /\ UNCHANGED <<build, communities>>
  /\ BuildUnchanged

CallStep ==
  \/ BuildStarts \/ BuildContinues \/ BuildEnds
  \/ ActivationStep /\ UNCHANGED <<build, package>>
  \/ ContextStep /\ UNCHANGED build

Next ==
  \/ CallStep
  \/ OtherConnection /\ UNCHANGED <<build, package>>

(* A call is a function of one thread that waits for nobody. *)
Spec == Init /\ [][Next]_vars /\ WF_vars(CallStep)

-----------------------------------------------------------------------------
Quiet == revision = 0

Answers == {"none", "Found", "Report", "Context", "InvalidDatabase", "CommunityArtifactsStale"}

TypeOK ==
  /\ Build!TypeOK
  /\ nodes \subseteq MemoryNodes
  /\ \A r \in DOMAIN weight : {r.source, r.target} \subseteq nodes /\ weight[r] \in 0 .. Unit
  /\ DOMAIN feedback \subseteq DOMAIN weight
  /\ NodesOf(ledger.items) \subseteq nodes
  /\ \A p \in References(ledger) : {p.from, p.to} \subseteq DOMAIN ledger.items
  /\ phase \in {"build", "seed_query", "seed_read", "next", "admit", "candidate", "item",
                "decode", "conflicts_with", "supersedes", "conflicts", "superseded", "done"}
  /\ phase = "done" <=> reply # "none"
  /\ reply \in Answers
  /\ SeedNodes \cup DOMAIN candidates \subseteq MemoryNodes
  /\ candidate.item \in Item \cup {NoItem}

(* A call does no more work than its options allow, however the node, edge, *)
(* hop and seed budgets interact and whatever is committed meanwhile; the   *)
(* statistics count what was done (retrieval.rs:643-798).                   *)
WorkWithinBudgets ==
  /\ stats.visitedEdges <= call.maxEdges
  /\ call.kind # "search" =>
       /\ stats.visitedNodes <= call.maxNodes
       /\ Len(seeds) <= call.seedLimit
  /\ stats.adjacencyQueries <= Len(seeds) + stats.visitedEdges
  /\ visited # {} => /\ Cardinality(visited) = stats.visitedNodes
                     /\ stats.nodeReads = stats.visitedNodes - Len(seeds)
  /\ \A n \in DOMAIN candidates : Len(candidates[n].steps) <= call.hops

(* Every path, of a candidate or still to be extended, ends at its node and *)
(* can be walked: it starts at a seed, leaves each node where it entered    *)
(* it, visits none twice, and its score is that of its steps                *)
(* (retrieval.rs:743-745, 768-796, lib.rs:829-840).                         *)
Nodes(c) == [i \in 1 .. Len(c.steps) + 1 |-> IF i = 1 THEN c.seed ELSE c.steps[i - 1].target]

Propagation(c) ==
  LET prop[i \in 0 .. Len(c.steps)] ==
        IF i = 0 THEN Scale * call.matches[c.seed] ELSE Propagated(prop[i - 1], EffectiveWeight(c.steps[i]))
  IN prop[Len(c.steps)]

Walkable(c, n) ==
  LET walked == Nodes(c) IN
  /\ c.seed \in SeedNodes
  /\ walked[Len(walked)] = n
  /\ \A i \in DOMAIN c.steps : c.steps[i].source = walked[i]
  /\ \A i, j \in DOMAIN walked : walked[i] = walked[j] => i = j

PathsReconstruct ==
  /\ \A n \in DOMAIN candidates :
       /\ Walkable(candidates[n], n)
       /\ candidates[n].score = Propagation(candidates[n]) * ImportanceFactor(n)
  /\ \A i \in DOMAIN queue :
       /\ Walkable(queue[i], queue[i].node)
       /\ queue[i].prop = Propagation(queue[i])

(* What activation promises, by enumeration: all simple paths of at most    *)
(* the allowed hops over what is stored.                                    *)
Rows == {[source |-> r.source, target |-> r.target, name |-> r.name, weight |-> weight[r]] :
           r \in DOMAIN weight}

Start == {[node |-> seeds[i].node, seed |-> seeds[i].node, prop |-> seeds[i].score, steps |-> <<>>] :
            i \in DOMAIN seeds}

Extended(p, r) == [node |-> r.target, seed |-> p.seed,
                   prop |-> Propagated(p.prop, EffectiveWeight(r)), steps |-> Append(p.steps, r)]

SimplePaths ==
  LET hop[h \in 0 .. call.hops] ==
        IF h = 0 THEN Start
        ELSE UNION {{Extended(p, r) : r \in {q \in Rows : q.source = p.node /\
                       q.target \notin {p.seed} \cup {p.steps[i].target : i \in DOMAIN p.steps}}} :
                    p \in hop[h - 1]}
  IN {p \in UNION {hop[h] : h \in 0 .. call.hops} :
        call.includeSeeds \/ p.node \notin SeedNodes}

(* No budget was reached, and no scan limit of a policy. *)
Unbounded ==
  /\ stats.visitedEdges < call.maxEdges
  /\ stats.visitedNodes < call.maxNodes
  /\ call.kind \in {"feedback", "community"} =>
       \A n \in nodes : Cardinality({r \in Rows : r.source = n}) <= call.scanLimit

Walked == phase \notin {"build", "seed_query", "seed_read", "next", "admit"}

(* Without a budget in the way, the candidates are the nodes simple paths   *)
(* reach, each with the best of all its paths: neither the breadth-first    *)
(* order, the pruning of states, nor the order of a policy shows.  Ties go  *)
(* to the smaller seed and path as long as the score is positive: past a    *)
(* relation of weight 0 all paths tie, and the smaller one may have been    *)
(* pruned before it, by a better one of as many hops (retrieval.rs:423-428, *)
(* 459-463, 749-755).                                                       *)
Outdone(p) ==
  LET c == candidates[p.node] IN
  \/ c.seed = p.seed /\ c.steps = p.steps
  \/ ~Beats(p.prop * ImportanceFactor(p.node), p.seed, p.steps, c)

BestPathWins ==
  Walked /\ Quiet /\ Unbounded /\ reply # "Found" =>
    /\ DOMAIN candidates = {p.node : p \in SimplePaths}
    /\ \A p \in SimplePaths : p.prop = 0 \/ Outdone(p)

(* A call reports an invalid database only if another connection rolled a   *)
(* bundle back between two of its statements, not for what was rolled back  *)
(* before it began nor for what was stored (retrieval.rs:762, 842;          *)
(* evidence.rs:1487).                                                       *)
OnlyRacesLookCorrupt == reply = "InvalidDatabase" => rolledBack > began

(* An admitted item that says that it conflicts with or supersedes another  *)
(* admitted one was stored anew during the call: the row that was read is   *)
(* of another node than the candidate, because its ID was rolled back and   *)
(* stored again between the two reads by node and by ID, or its node is     *)
(* gone by now.  An item that stayed where the walk found it has no rival   *)
(* in the package, whatever others applied and rolled back.  With one       *)
(* connection, no item that any stored one contradicts or supersedes is     *)
(* admitted, whether that one is a candidate or not                         *)
(* (evidence.rs:1235-1251, 1571-1605).                                      *)
AdmittedIds == {admitted[i].id : i \in DOMAIN admitted}

Unmoved(item) == item.item.node = item.node /\ item.node \in nodes

RivalsOnlyByRace ==
  /\ \A i \in DOMAIN admitted :
       Unmoved(admitted[i]) => admitted[i].rivals \cap AdmittedIds = {}
  /\ Quiet =>
       /\ \A p \in ledger.conflicts : {p.from, p.to} \cap AdmittedIds = {}
       /\ \A p \in ledger.supersessions : p.to \notin AdmittedIds

(* A package accounts for what it inspected, keeps its limits, and gives    *)
(* the reason it stopped truthfully: "Exhausted" means that every candidate *)
(* of the walk was inspected (evidence.rs:1226-1296, 681-690).              *)
ContextAccounted ==
  LET size[i \in 0 .. Len(admitted)] ==
        IF i = 0 THEN 0 ELSE size[i - 1] + admitted[i].item.bytes IN
  /\ bytes = size[Len(admitted)] /\ bytes <= call.maxBytes
  /\ Len(admitted) <= call.resultLimit
  /\ scanned <= call.candidateScan
  /\ phase \in {"candidate", "done"} /\ reply # "InvalidDatabase" =>
       scanned = skipped + Len(admitted) + Len(excluded)
  /\ reply = "Context" =>
       /\ stopReason = "Exhausted" => scanned = Cardinality(DOMAIN candidates)
       /\ stopReason = "ScanLimit" => scanned < Cardinality(DOMAIN candidates)
       /\ stopReason = "ByteLimit" => bytes = call.maxBytes

(* Of what an exhausted package leaves out, each item has a reason that     *)
(* still holds: an item that is admissible and fits is in it                *)
ContextComplete ==
  reply = "Context" /\ stopReason = "Exhausted" /\ Quiet =>
    \A e \in DOMAIN ledger.items :
      LET item == ledger.items[e] IN
      item.node \in DOMAIN candidates =>
        \/ e \in AdmittedIds
        \/ ~item.scope \/ ~item.accepted
        \/ VisibleConflicts(e) # {} \/ SupersededBy(e) # {}
        \/ candidates[item.node].score < call.minScore
        \/ bytes + item.bytes > call.maxBytes

(* Every call is answered: the loops of union-find, of the walk and of the  *)
(* scan end on every graph, cycles and all (community.rs:523-536,           *)
(* retrieval.rs:653-695, evidence.rs:1235).                                 *)
CallAnswers == <>(reply # "none")

MergesAsPromised == Build!MergesAsPromised
ParentsDescend == Build!ParentsDescend
CommunitiesAreComponents == Build!CommunitiesAreComponents
=============================================================================
