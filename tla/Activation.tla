------------------------------ MODULE Activation ------------------------------
(***************************************************************************)
(* Lexical search and bounded activation of memory3d-core: seeds from the  *)
(* term index, then a breadth-first walk over outgoing relations that ends *)
(* at a hop, node or edge budget and keeps the best path to each node.     *)
(*                                                                         *)
(* A call is a chain of single statements without a transaction around     *)
(* them, one step each.  In between another connection may commit: it      *)
(* applies an evidence bundle, rolls one back or sets a weight.            *)
(*                                                                         *)
(* Scores are integers: a propagation is multiplied by Scale, so that a    *)
(* hop, the factor 0.8 times the weight, divides without remainder; the    *)
(* rounding of f32 is not modelled.                                        *)
(***************************************************************************)
EXTENDS Integers, Sequences, FiniteSets

CONSTANTS
  Content,     \* by node, the rank of its kind and text
  Kind,        \* by node, its kind
  Importance,  \* by node, 0 or 1
  Cases,       \* the calls, each with the database it starts on
  NewBundles,  \* the evidence bundles another connection may apply
  NewWeight    \* the weight another connection sets

Unit == 40            \* the weight 1.0
HopDivisor == 50      \* 0.8 * weight = weight / (1.25 * Unit)
MaxHops == 3          \* bound on the hops of a call
Scale == HopDivisor * HopDivisor * HopDivisor

MemoryNodes == DOMAIN Content

(* Rows of evidence_items, by evidence ID, with what the context policy     *)
(* tells apart: whether the scope is the one of the context, whether the    *)
(* lifecycle is accepted, and the size of the text.  A pair of conflicts or *)
(* supersessions belongs to the item it is from.                            *)
Item == [node : MemoryNodes, bundle : Nat, scope : BOOLEAN, accepted : BOOLEAN, bytes : Nat]

NodesOf(items) == {items[e].node : e \in DOMAIN items}

(* The nodes that applied bundles are given.                                *)
NewNodes == UNION {NodesOf(b.items) : b \in NewBundles}

(* IDs are row IDs; importance and weights are checked when they are set.   *)
ASSUME NodesValid ==
  /\ MemoryNodes \subseteq Nat /\ IsFiniteSet(MemoryNodes)
  /\ Content \in [MemoryNodes -> Nat]
  /\ Importance \in [MemoryNodes -> {0, 1}]
  /\ NewWeight \in 0 .. Unit

CallKinds == {"search", "activate", "feedback", "community", "context"}

(* The bounds of every call are checked before any read.                    *)
Positive == Nat \ {0}

SearchValid(c) == c.limit \in Positive /\ c.filter \subseteq {Kind[n] : n \in MemoryNodes}

ActivationValid(c) ==
  /\ c.hops \in 0 .. MaxHops
  /\ {c.seedLimit, c.limit, c.maxNodes, c.maxEdges} \subseteq Positive
  /\ c.includeSeeds \in BOOLEAN

FeedbackPolicyValid(c) == c.scanLimit \in Positive /\ c.decay \in BOOLEAN

ContextValid(c) ==
  /\ {c.resultLimit, c.candidateScan, c.maxBytes} \subseteq Positive
  /\ c.minScore \in Nat
  /\ c.kind = "context" => c.includeSeeds

(* matches: how many terms of the query each node contains; writes: bound   *)
(* on what other connections commit during the call.                        *)
Valid(c) ==
  /\ c.kind \in CallKinds
  /\ SearchValid(c) /\ ActivationValid(c) /\ FeedbackPolicyValid(c) /\ ContextValid(c)
  /\ c.matches \in [MemoryNodes -> Nat]
  /\ c.writes \in Nat

ASSUME CallsValid == \A case \in Cases : Valid(case.call)

(* Every item has a node of its own, and references other items.            *)
ItemsValid(l) ==
  /\ l.items \in [DOMAIN l.items -> Item]
  /\ \A d, e \in DOMAIN l.items : l.items[d].node = l.items[e].node => d = e

References(l) == l.conflicts \cup l.supersessions

BundleValid(b) ==
  /\ ItemsValid(b)
  /\ \A e \in DOMAIN b.items : b.items[e].bundle = b.key
  /\ \A p \in References(b) : p.from \in DOMAIN b.items
  /\ IsFiniteSet(References(b))

ASSUME BundlesValid == \A b \in NewBundles : BundleValid(b)

(* relations and relation_feedback_events, with their foreign keys and the  *)
(* bounds of a weight.                                                      *)
Relation == [source : MemoryNodes, target : MemoryNodes, name : Nat]
FeedbackEvent == [kind : {"positive", "negative"}, age : {"old", "new", "future"}]

RelationsValid(case) ==
  /\ DOMAIN case.weight \subseteq Relation /\ IsFiniteSet(DOMAIN case.weight)
  /\ \A r \in DOMAIN case.weight : {r.source, r.target} \cap NewNodes = {}
  /\ case.weight \in [DOMAIN case.weight -> 0 .. Unit]
  /\ DOMAIN case.feedback \subseteq DOMAIN case.weight
  /\ \A r \in DOMAIN case.feedback :
       case.feedback[r] \subseteq FeedbackEvent /\ IsFiniteSet(case.feedback[r])

ASSUME DatabasesValid == \A case \in Cases : RelationsValid(case)

(* Names of projected relations.                                            *)
ConflictsWith == 1  \* evidence:conflicts_with
Supersedes == 2     \* evidence:supersedes

Projected(pairs, name, items) ==
  {[source |-> items[p.from].node, target |-> items[p.to].node, name |-> name] : p \in pairs}

Projection(l, items) ==
  Projected(l.conflicts, ConflictsWith, items) \cup Projected(l.supersessions, Supersedes, items)

(* evidence_items and evidence_references, with their foreign keys: a       *)
(* reference is stored with the relation it projects.                       *)
EvidenceValid(case) ==
  /\ ItemsValid(case.ledger)
  /\ NodesOf(case.ledger.items) \cap NewNodes = {}
  /\ \A p \in References(case.ledger) : {p.from, p.to} \subseteq DOMAIN case.ledger.items
  /\ Projection(case.ledger, case.ledger.items) \subseteq DOMAIN case.weight

ASSUME LedgersValid == \A case \in Cases : EvidenceValid(case)

VARIABLES
  nodes,       \* nodes.id
  weight,      \* relations.weight, by primary key
  feedback,    \* relation_feedback_events, by relation
  issued,      \* sqlite_sequence of nodes: the IDs that are not given out again
  ledger,      \* active evidence: items by evidence ID, conflicts, supersessions
  revision,    \* how often other connections have committed
  began,       \* the revision the call read first, for the properties
  rolledBack,  \* the revision of the last rollback, for the properties
  communities, \* the memberships of the persisted overlay, by resolution
  call,        \* the call that runs
  phase,       \* where it stands
  hits,        \* rows of the term index still to be read
  seeds,       \* the seeds: node and score
  stats,       \* TraversalStats and DatabaseStats
  visited,     \* nodes admitted under the node budget, and read
  queue,       \* paths to be extended
  current,     \* the path that is extended
  rows,        \* its outgoing relations still to be admitted
  best,        \* best_state, by node and number of hops
  candidates,  \* the best path so far to each node
  results,     \* ranked_candidates, or what a search found
  reply        \* what the call answered, "none" while it runs

stored == <<nodes, weight, feedback, issued, ledger, revision, rolledBack>>
walk == <<visited, queue, current, rows, best, candidates>>
activationVars == <<stored, began, communities, call, phase, hits, seeds, stats, walk, results, reply>>

EmptyPath == [node |-> 0, seed |-> 0, prop |-> 0, steps |-> <<>>]
NoStats == [visitedNodes |-> 0, visitedEdges |-> 0, adjacencyQueries |-> 0,
            seedReads |-> 0, nodeReads |-> 0]
Nothing == [x \in {} |-> 0]

ActivationInit ==
  /\ nodes = MemoryNodes \ NewNodes /\ issued = nodes
  /\ \E case \in Cases :
       /\ call = case.call
       /\ weight = case.weight /\ feedback = case.feedback /\ ledger = case.ledger
  /\ revision = 0 /\ began = 0 /\ rolledBack = 0
  /\ hits = <<>> /\ seeds = <<>>
  /\ stats = NoStats
  /\ visited = {} /\ queue = <<>> /\ current = EmptyPath /\ rows = <<>>
  /\ best = Nothing /\ candidates = Nothing
  /\ results = <<>>
  /\ reply = "none"

-----------------------------------------------------------------------------
(* Order.                                                                  *)

Least(x, y) == IF x < y THEN x ELSE y

Sorted(S, Before(_, _)) ==
  [i \in 1 .. Cardinality(S) |->
     CHOOSE x \in S : Cardinality({y \in S : Before(y, x)}) = i - 1]

Limited(s, limit) == SubSeq(s, 1, Least(limit, Len(s)))

(* Importance, kind, text, ID: the ties of every ranking. *)
NodeBefore(m, n) ==
  \/ Importance[m] > Importance[n]
  \/ Importance[m] = Importance[n] /\ Content[m] < Content[n]
  \/ Importance[m] = Importance[n] /\ Content[m] = Content[n] /\ m < n

(* Lexicographic order of sequences of numbers. *)
Smaller(s, t) ==
  \E i \in 1 .. Len(t) :
    /\ i <= Len(s) + 1
    /\ \A j \in 1 .. i - 1 : s[j] = t[j]
    /\ i = Len(s) + 1 \/ s[i] < t[i]

(* path_key: the seed, then source, target and name of every step. *)
PathKey(seed, steps) ==
  [i \in 1 .. 1 + 3 * Len(steps) |->
     IF i = 1 THEN seed
     ELSE LET step == steps[(i - 2) \div 3 + 1] IN
          <<step.source, step.target, step.name>>[((i - 2) % 3) + 1]]

(* The comparison of should_replace_state and of consider_candidate: the    *)
(* higher score, in a tie the smaller path key.                             *)
Beats(score, seed, steps, other) ==
  \/ score > other.score
  \/ score = other.score /\ Smaller(PathKey(seed, steps), PathKey(other.seed, other.steps))

Put(f, x, v) == [y \in DOMAIN f \cup {x} |-> IF y = x THEN v ELSE f[y]]

ConsiderCandidate(found, n, score, seed, steps) ==
  IF n \notin DOMAIN found \/ Beats(score, seed, steps, found[n])
  THEN Put(found, n, [score |-> score, seed |-> seed, steps |-> steps])
  ELSE found

-----------------------------------------------------------------------------
(* Weights.                                                                *)

ImportanceFactor(n) == 1 + Importance[n]  \* twice 0.5 + 0.5 * importance

Propagated(prop, w) == (prop * w) \div HopDivisor

(* feedback_freshness in halves, for a half-life that is the age of "old"   *)
(* events: an event after now_ms counts for nothing.                        *)
Freshness(event) ==
  IF ~call.decay \/ event.age = "new" THEN 2
  ELSE IF event.age = "old" THEN 1 ELSE 0

Clamped(x, low, high) == IF x < low THEN low ELSE IF x > high THEN high ELSE x

Fresh(events, kind) ==
  LET worth(halves) == {e \in events : e.kind = kind /\ Freshness(e) = halves}
  IN Cardinality(worth(1)) + 2 * Cardinality(worth(2))

(* explicit_v1 in twentieths: boost 0.30 and penalty 0.60 for each unit,    *)
(* between 0.05 and 2.0.                                                    *)
FeedbackFactor(events) ==
  Clamped(20 + 3 * Fresh(events, "positive") - 6 * Fresh(events, "negative"), 1, 40)

Key(row) == [source |-> row.source, target |-> row.target, name |-> row.name]

FeedbackEvents(row) == IF Key(row) \in DOMAIN feedback THEN feedback[Key(row)] ELSE {}

AdjustedWeight(row) ==
  Clamped((row.weight * FeedbackFactor(FeedbackEvents(row))) \div 20, 0, Unit)

EffectiveWeight(row) == IF call.kind = "feedback" THEN AdjustedWeight(row) ELSE row.weight

-----------------------------------------------------------------------------
(* Reads.                                                                  *)

(* The rows of search_terms. *)
MatchBefore(m, n) ==
  call.matches[m] > call.matches[n] \/ (call.matches[m] = call.matches[n] /\ NodeBefore(m, n))

(* Mutant: the terms of a node stay in the index when it is removed. *)
StillIndexed(n) == call.matches[n] > 0

Indexed(n) == n \in nodes /\ call.matches[n] > 0

SearchTerms(limit) ==
  LET wanted == {n \in MemoryNodes : Indexed(n) /\ (call.kind = "search" => Kind[n] \in call.filter)}
  IN Limited(Sorted(wanted, MatchBefore), limit)

(* ADJACENCY_SQL, which joins the target node. *)
RowBefore(r, q) ==
  \/ r.weight > q.weight
  \/ /\ r.weight = q.weight
     /\ \/ r.target # q.target /\ NodeBefore(r.target, q.target)
        \/ r.target = q.target /\ r.name < q.name

OutgoingRelations(source, limit) ==
  Limited(Sorted({[source |-> r.source, target |-> r.target, name |-> r.name, weight |-> weight[r]] :
                    r \in {q \in DOMAIN weight : q.source = source /\ q.target \in nodes}},
                 RowBefore), limit)

(* feedback_ordered_relations, sorted by the adjusted weight. *)
AdjustedBefore(r, q) ==
  LET a == AdjustedWeight(r)  b == AdjustedWeight(q) IN
  \/ a > b
  \/ a = b /\ r.weight > q.weight
  \/ a = b /\ r.weight = q.weight /\ r.target < q.target
  \/ a = b /\ r.weight = q.weight /\ r.target = q.target /\ r.name < q.name

ElementsOf(s) == {s[i] : i \in DOMAIN s}

(* community_route, as a rank: fine, coarse, boundary. *)
Route(row) ==
  LET known == {row.source, row.target} \subseteq DOMAIN communities["fine"]
      together(kind) == communities[kind][row.source] = communities[kind][row.target]
  IN IF ~known THEN 3 ELSE IF together("fine") THEN 1 ELSE IF together("coarse") THEN 2 ELSE 3

IndexIn(s, x) == CHOOSE i \in DOMAIN s : s[i] = x

(* ordered_relations: under a policy up to the scan limit, otherwise up to  *)
(* the edges that remain.                                                   *)
OrderedRelations(source) ==
  LET raw == OutgoingRelations(source, IF call.kind \in {"feedback", "community"}
                                       THEN call.scanLimit
                                       ELSE call.maxEdges - stats.visitedEdges)
      RouteBefore(r, q) ==
        Route(r) < Route(q) \/ (Route(r) = Route(q) /\ IndexIn(raw, r) < IndexIn(raw, q))
  IN IF call.kind = "feedback" THEN Sorted(ElementsOf(raw), AdjustedBefore)
     ELSE IF call.kind = "community" THEN Sorted(ElementsOf(raw), RouteBefore)
     ELSE raw

-----------------------------------------------------------------------------
(* Control.                                                                *)

Answer(answer) ==
  /\ phase' = "done"
  /\ reply' = answer

(* SELECT ... FROM node_terms *)
SeedQuery ==
  /\ phase = "seed_query"
  /\ hits' = SearchTerms(IF call.kind = "search" THEN call.limit
                         ELSE Least(call.seedLimit, call.maxNodes))
  /\ phase' = "seed_read"
  /\ began' = revision
  /\ UNCHANGED <<stored, communities, call, seeds, stats, walk, results, reply>>

(* One node of search_terms. *)
SeedRead ==
  /\ phase = "seed_read"
  /\ hits # <<>>
  /\ IF Head(hits) \in nodes
     THEN /\ seeds' = Append(seeds, [node |-> Head(hits),
                                     score |-> call.matches[Head(hits)] * Scale])
          /\ hits' = Tail(hits)
          /\ stats' = [stats EXCEPT !.seedReads = @ + 1, !.visitedNodes = @ + 1]
          /\ UNCHANGED <<phase, reply>>
     ELSE Answer("InvalidDatabase") /\ UNCHANGED <<seeds, hits, stats>>
  /\ UNCHANGED <<stored, began, communities, call, walk, results>>

SearchFound ==
  /\ phase = "seed_read"
  /\ hits = <<>>
  /\ call.kind = "search"
  /\ results' = seeds
  /\ Answer("Found")
  /\ UNCHANGED <<stored, began, communities, call, hits, seeds, stats, walk>>

SeedNodes == {seeds[i].node : i \in DOMAIN seeds}

(* The report is the answer, or what a context is assembled from. *)
ReportDone ==
  IF call.kind = "context" THEN phase' = "candidate" /\ UNCHANGED reply
                           ELSE Answer("Report")

(* The start of traverse_graph; without seeds the report is empty. *)
StartWalk ==
  IF seeds = <<>>
  THEN /\ ReportDone
       /\ UNCHANGED walk
  ELSE /\ phase' = "next"
       /\ visited' = SeedNodes
       /\ queue' = [i \in DOMAIN seeds |->
                      [node |-> seeds[i].node, seed |-> seeds[i].node,
                       prop |-> seeds[i].score, steps |-> <<>>]]
       /\ candidates' = IF ~call.includeSeeds THEN Nothing
                        ELSE [n \in SeedNodes |->
                                LET i == CHOOSE j \in DOMAIN seeds : seeds[j].node = n IN
                                [score |-> seeds[i].score * ImportanceFactor(n),
                                 seed |-> n, steps |-> <<>>]]
       /\ UNCHANGED <<current, rows, best, reply>>

SeedsFound ==
  /\ phase = "seed_read"
  /\ hits = <<>>
  /\ call.kind \in {"activate", "feedback", "context"}
  /\ StartWalk
  /\ UNCHANGED <<stored, began, communities, call, hits, seeds, stats, results>>

(* community_routing_index: the overlay was built at revision 0. *)
RoutingIndex ==
  /\ phase = "seed_read"
  /\ hits = <<>>
  /\ call.kind = "community"
  /\ IF revision # 0
     THEN Answer("CommunityArtifactsStale") /\ UNCHANGED walk
     ELSE StartWalk
  /\ UNCHANGED <<stored, began, communities, call, hits, seeds, stats, results>>

Exhausted(path) ==
  \/ Len(path.steps) >= call.hops
  \/ stats.visitedEdges >= call.maxEdges
  \/ stats.visitedNodes >= call.maxNodes

(* The next path of the queue: dropped, or its outgoing relations are read. *)
NextPath ==
  /\ phase = "next"
  /\ queue # <<>>
  /\ queue' = Tail(queue)
  /\ current' = Head(queue)
  /\ IF Exhausted(Head(queue))
     THEN UNCHANGED <<phase, rows, stats>>
     ELSE /\ rows' = OrderedRelations(Head(queue).node)
          /\ phase' = IF rows' = <<>> THEN "next" ELSE "admit"
          /\ stats' = [stats EXCEPT !.adjacencyQueries = @ + 1]
  /\ UNCHANGED <<stored, began, communities, call, hits, seeds, visited, best, candidates,
                 results, reply>>

(* Mutant: only the seed closes a cycle. *)
ReturnsToSeed(path, target) == path.seed = target

PathContains(path, target) ==
  path.seed = target \/ \E i \in DOMAIN path.steps : path.steps[i].target = target

(* Mutant: the first path to a node is the only one that is extended. *)
FirstOnly(path, target, prop, steps) ==
  \A hop \in 1 .. MaxHops : <<target, hop>> \notin DOMAIN best

ShouldReplaceState(path, target, prop, steps) ==
  LET key == <<target, Len(steps)>> IN
  key \notin DOMAIN best \/ Beats(prop, path.seed, steps, best[key])

(* Mutant: the edge budget is compared after one edge more. *)
EdgeLeftLate(edges) == edges <= call.maxEdges

EdgeLeft(edges) == edges < call.maxEdges

(* The relations after this one, if the edge budget has any left. *)
Continue(edges) ==
  /\ rows' = IF EdgeLeft(edges) THEN Tail(rows) ELSE <<>>
  /\ phase' = IF rows' = <<>> THEN "next" ELSE "admit"

Extend(row, target) ==
  LET prop == Propagated(current.prop, EffectiveWeight(row))
      steps == Append(current.steps, row)
  IN /\ candidates' = IF call.includeSeeds \/ target \notin SeedNodes
                      THEN ConsiderCandidate(candidates, target, prop * ImportanceFactor(target),
                                             current.seed, steps)
                      ELSE candidates
     /\ IF ShouldReplaceState(current, target, prop, steps)
        THEN /\ best' = Put(best, <<target, Len(steps)>>,
                            [score |-> prop, seed |-> current.seed, steps |-> steps])
             /\ queue' = Append(queue, [node |-> target, seed |-> current.seed,
                                        prop |-> prop, steps |-> steps])
        ELSE UNCHANGED <<best, queue>>

(* admit_relation: every relation counts against the edge budget.          *)
Considering(row) ==
  /\ phase = "admit"
  /\ row = Head(rows)
  /\ UNCHANGED <<stored, began, communities, call, hits, seeds, current, results>>

Edges == stats.visitedEdges + 1

CycleClosed ==
  \E row \in ElementsOf(rows) :
    /\ Considering(row)
    /\ PathContains(current, row.target)
    /\ Continue(Edges)
    /\ stats' = [stats EXCEPT !.visitedEdges = Edges]
    /\ UNCHANGED <<visited, queue, best, candidates, reply>>

NodeBudgetSpent ==
  \E row \in ElementsOf(rows) :
    /\ Considering(row)
    /\ ~PathContains(current, row.target)
    /\ row.target \notin visited
    /\ stats.visitedNodes = call.maxNodes
    /\ rows' = <<>> /\ phase' = "next"
    /\ stats' = [stats EXCEPT !.visitedEdges = Edges]
    /\ UNCHANGED <<visited, queue, best, candidates, reply>>

(* A target is read when it is first visited, and cached for the walk; by   *)
(* then its bundle may have been rolled back.                               *)
TargetVisited ==
  \E row \in ElementsOf(rows) :
    /\ Considering(row)
    /\ ~PathContains(current, row.target)
    /\ row.target \notin visited
    /\ stats.visitedNodes # call.maxNodes
    /\ visited' = visited \cup {row.target}
    /\ stats' = [stats EXCEPT !.visitedEdges = Edges, !.visitedNodes = @ + 1,
                             !.nodeReads = @ + 1]
    /\ IF row.target \in nodes
       THEN Continue(Edges) /\ Extend(row, row.target) /\ UNCHANGED reply
       ELSE Answer("InvalidDatabase") /\ UNCHANGED <<rows, queue, best, candidates>>

TargetRevisited ==
  \E row \in ElementsOf(rows) :
    /\ Considering(row)
    /\ ~PathContains(current, row.target)
    /\ row.target \in visited
    /\ stats' = [stats EXCEPT !.visitedEdges = Edges]
    /\ Continue(Edges) /\ Extend(row, row.target)
    /\ UNCHANGED <<visited, reply>>

(* finish_activation: score, then importance, kind, text and ID. *)
CandidateBefore(m, n) ==
  \/ candidates[m].score > candidates[n].score
  \/ candidates[m].score = candidates[n].score /\ NodeBefore(m, n)

FinishActivation ==
  /\ phase = "next"
  /\ queue = <<>>
  /\ LET ranked == Sorted(DOMAIN candidates, CandidateBefore) IN
     results' = [i \in DOMAIN ranked |->
                   [node |-> ranked[i], score |-> candidates[ranked[i]].score,
                    seed |-> candidates[ranked[i]].seed,
                    steps |-> candidates[ranked[i]].steps]]
  /\ ReportDone
  /\ UNCHANGED <<stored, began, communities, call, hits, seeds, stats, walk>>

ActivationStep ==
  \/ SeedQuery \/ SeedRead \/ SearchFound \/ SeedsFound \/ RoutingIndex
  \/ NextPath \/ CycleClosed \/ NodeBudgetSpent \/ TargetVisited \/ TargetRevisited
  \/ FinishActivation

-----------------------------------------------------------------------------
(* Another connection.                                                     *)

(* Mutant: nothing is taken along. *)
Kept(f, S) == f

Restricted(f, S) == [x \in DOMAIN f \cap S |-> f[x]]

(* rollback_evidence_bundle takes the items, references and nodes of a      *)
(* bundle, and the relations of its nodes.  It is refused when a relation   *)
(* crosses into the bundle or out of it, as the projected ones of the       *)
(* evidence that refers to it do, or when one of its relations has feedback.*)
BundleRolledBack(key) ==
  LET items == {e \in DOMAIN ledger.items : ledger.items[e].bundle = key}
      own == {ledger.items[e].node : e \in items}
      outside(pairs) == {p \in pairs : p.from \notin items}
  IN /\ items # {}
     /\ \A r \in DOMAIN weight : (r.source \in own) <=> (r.target \in own)
     /\ \A r \in DOMAIN feedback : r.source \notin own
     /\ weight' = Restricted(weight, {r \in DOMAIN weight : r.source \notin own})
     /\ ledger' = [items |-> Restricted(ledger.items, DOMAIN ledger.items \ items),
                   conflicts |-> outside(ledger.conflicts),
                   supersessions |-> outside(ledger.supersessions)]
     /\ nodes' = nodes \ own
     /\ rolledBack' = revision + 1
     /\ UNCHANGED <<feedback, issued>>

(* apply_evidence_bundle: none of its evidence IDs is stored, all it refers *)
(* to is, and its nodes are new.  The order of node IDs and the conflict    *)
(* groups are left to EvidenceLedger.                                       *)
BundleApplied(b) ==
  LET items == [e \in DOMAIN ledger.items \cup DOMAIN b.items |->
                  IF e \in DOMAIN b.items THEN b.items[e] ELSE ledger.items[e]]
      projection == Projection(b, items)
  IN /\ DOMAIN b.items \cap DOMAIN ledger.items = {}
     /\ NodesOf(b.items) \cap issued = {}
     /\ \A p \in References(b) : p.to \in DOMAIN items
     /\ weight' = [r \in DOMAIN weight \cup projection |->
                     IF r \in DOMAIN weight THEN weight[r] ELSE Unit]
     /\ ledger' = [items |-> items,
                   conflicts |-> ledger.conflicts \cup b.conflicts,
                   supersessions |-> ledger.supersessions \cup b.supersessions]
     /\ nodes' = nodes \cup NodesOf(b.items)
     /\ issued' = issued \cup NodesOf(b.items)
     /\ UNCHANGED <<feedback, rolledBack>>

WeightUpdated ==
  /\ \E r \in DOMAIN weight :
       /\ weight[r] # NewWeight
       /\ weight' = [weight EXCEPT ![r] = NewWeight]
  /\ UNCHANGED <<nodes, feedback, issued, ledger, rolledBack>>

OtherConnection ==
  /\ phase \notin {"build", "done"}
  /\ revision < call.writes
  /\ revision' = revision + 1
  /\ \/ \E key \in {ledger.items[e].bundle : e \in DOMAIN ledger.items} : BundleRolledBack(key)
     \/ \E b \in NewBundles : BundleApplied(b)
     \/ WeightUpdated
  /\ UNCHANGED <<began, communities, call, phase, hits, seeds, stats, walk, results, reply>>
=============================================================================
