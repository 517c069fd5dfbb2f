--------------------------- MODULE RetrievalProofs ---------------------------
(***************************************************************************)
(* Theorems about Retrieval: what the types, the budgets, the races with   *)
(* another connection, the rivals of a context and the union-find forest   *)
(* of a build come to, for every graph, ledger, call and bound.            *)
(***************************************************************************)
EXTENDS Retrieval, FiniteSetTheorems, TLAPS

-----------------------------------------------------------------------------
(* The inductive invariant.                                                *)

(* What is stored, under the foreign keys.  A reference has its relation.  *)
StoreOK ==
  /\ nodes \subseteq issued /\ issued \subseteq MemoryNodes
  /\ DOMAIN weight \subseteq [source : nodes, target : nodes, name : Nat]
  /\ IsFiniteSet(DOMAIN weight)
  /\ weight \in [DOMAIN weight -> 0 .. Unit]
  /\ DOMAIN feedback \subseteq DOMAIN weight
  /\ \A r \in DOMAIN feedback :
       feedback[r] \subseteq FeedbackEvent /\ IsFiniteSet(feedback[r])
  /\ ItemsValid(ledger)
  /\ NodesOf(ledger.items) \subseteq nodes
  /\ \A p \in References(ledger) : {p.from, p.to} \subseteq DOMAIN ledger.items
  /\ Projection(ledger, ledger.items) \subseteq DOMAIN weight
  /\ revision \in Nat /\ began \in Nat /\ began <= revision
  /\ rolledBack \in Nat /\ rolledBack <= revision

Phases == {"build", "seed_query", "seed_read", "next", "admit", "candidate", "item",
           "decode", "conflicts_with", "supersedes", "conflicts", "superseded", "done"}

(* Where an assembly stands once an item is read.                          *)
Read == {"decode", "conflicts_with", "supersedes", "conflicts", "superseded"}

Row == [source : MemoryNodes, target : MemoryNodes, name : Nat, weight : 0 .. Unit]
Seed == [node : MemoryNodes, score : Int]
Path == [node : MemoryNodes, seed : MemoryNodes, prop : Int, steps : Seq(Row)]
Found == [score : Int, seed : MemoryNodes, steps : Seq(Row)]

Reached(found) == DOMAIN found \subseteq MemoryNodes /\ \A n \in DOMAIN found : found[n] \in Found

(* What a call keeps of what it has read, and where it stands.             *)
CallOK ==
  /\ Valid(call)
  /\ phase \in Phases
  /\ phase = "done" <=> reply # "none"
  /\ reply \in Answers
  /\ hits \in Seq(MemoryNodes)
  /\ seeds \in Seq(Seed)
  /\ visited \subseteq MemoryNodes
  /\ queue \in Seq(Path)
  /\ phase = "admit" => current \in Path /\ rows \in Seq(Row) /\ rows # <<>>
  /\ Reached(candidates)
  /\ DOMAIN candidate = {"node", "score", "id", "item", "rivals"}
  /\ candidate.item \in Item \cup {NoItem}

(* The forest of a build.  From the node of a find, then from its current  *)
(* position, the parents lead to its root.                                 *)
Leads(i, j) ==
  \A S \in SUBSET Build!Positions :
    i \in S /\ (\A k \in S : parents[k] \in S) => j \in S

Finding == step \in {"root", "compress", "found"}

ForestOK ==
  /\ graph.nodes \subseteq MemoryNodes
  /\ \A r \in DOMAIN graph.weight : {r.source, r.target} \subseteq graph.nodes
  /\ step \in {"idle", "relation", "root", "compress", "found", "number"}
  /\ resolution \in {"none", "fine", "coarse"}
  /\ step # "idle" => resolution # "none"
  /\ todo \subseteq DOMAIN graph.weight
  /\ resolution # "none" => parents \in [Build!Positions -> Build!Positions]
  /\ roots \in [DOMAIN roots -> Build!Positions]
  /\ ParentsDescend
  /\ Finding =>
       /\ {goal.node, root, climbing} \subseteq Build!Positions
       /\ goal.for \in {"left", "right", "member"}
       /\ goal.for \in {"left", "right"} => goal.relation \in DOMAIN graph.weight
       /\ goal.for = "right" => keptRoot \in Build!Positions
  /\ step = "root" => climbing = goal.node /\ Leads(climbing, root)
  /\ step = "compress" => parents[root] = root /\ Leads(climbing, root)

(* Since the call began, another connection has rolled a bundle back.      *)
Gone == rolledBack > began

(* What was read and is to be read again is still there, or Gone.          *)
RaceOK ==
  /\ ~Gone =>
       /\ ElementsOf(hits) \subseteq nodes
       /\ phase = "admit" => \A row \in ElementsOf(rows) : row.target \in nodes
       /\ phase = "decode" => candidate.item.node \in nodes
       /\ reply # "InvalidDatabase"
  /\ phase \in {"build", "seed_query"} => hits = <<>>

(* The budgets.  Seeds and the hits still to be read are distinct nodes.   *)
Counts == [visitedNodes : Nat, visitedEdges : Nat, adjacencyQueries : Nat,
           seedReads : Nat, nodeReads : Nat]

SeedLimit == IF call.kind = "search" THEN call.limit ELSE Least(call.seedLimit, call.maxNodes)

BudgetOK ==
  /\ stats \in Counts
  /\ phase \in {"build", "seed_query"} => stats = NoStats /\ seeds = <<>>
  /\ phase \in {"build", "seed_query", "seed_read"} =>
       /\ visited = {} /\ queue = <<>> /\ candidates = Nothing
       /\ stats.visitedEdges = 0 /\ stats.adjacencyQueries = 0 /\ stats.nodeReads = 0
       /\ stats.visitedNodes = Len(seeds)
  /\ phase = "seed_read" => Len(seeds) + Len(hits) <= SeedLimit
  /\ Len(seeds) <= SeedLimit
  /\ \A i, j \in DOMAIN hits : hits[i] = hits[j] => i = j
  /\ \A i, j \in DOMAIN seeds : seeds[i].node = seeds[j].node => i = j
  /\ \A i \in DOMAIN seeds, j \in DOMAIN hits : seeds[i].node # hits[j]
  /\ stats.visitedEdges <= call.maxEdges
  /\ phase = "admit" => stats.visitedEdges < call.maxEdges /\ Len(current.steps) < call.hops
  /\ call.kind # "search" => stats.visitedNodes <= call.maxNodes
  /\ visited # {} =>
       /\ IsFiniteSet(visited) /\ Cardinality(visited) = stats.visitedNodes
       /\ stats.nodeReads = stats.visitedNodes - Len(seeds)
  /\ phase \in {"next", "admit"} => visited # {} /\ call.kind # "search"
  /\ stats.adjacencyQueries + Len(queue) <= Len(seeds) + stats.visitedEdges
  /\ \A n \in DOMAIN candidates : Len(candidates[n].steps) <= call.hops

RetrievalInv ==
  StoreOK /\ CallOK /\ ForestOK /\ RaceOK /\ BudgetOK

-----------------------------------------------------------------------------
(* Sorting.  In a finite set with a strict total order, given as a set of  *)
(* pairs, every place has one element: the number of the elements before   *)
(* it tells the elements apart.                                            *)
StrictOrder(R, S) ==
  /\ \A x \in S : <<x, x>> \notin R
  /\ \A x, y, z \in S : <<x, y>> \in R /\ <<y, z>> \in R => <<x, z>> \in R
  /\ \A x, y \in S : x # y => <<x, y>> \in R \/ <<y, x>> \in R

Preceding(R, S, x) == {y \in S : <<y, x>> \in R}

LEMMA PlacesFilled ==
  ASSUME NEW S, IsFiniteSet(S), NEW R, StrictOrder(R, S)
  PROVE  /\ \A x, y \in S :
              Cardinality(Preceding(R, S, x)) = Cardinality(Preceding(R, S, y)) => x = y
         /\ \A i \in 1 .. Cardinality(S) :
              \E x \in S : Cardinality(Preceding(R, S, x)) = i - 1
<1>. DEFINE before(x) == Preceding(R, S, x)
            rank == [x \in S |-> Cardinality(before(x)) + 1]
<1>1. Cardinality(S) \in Nat
  BY FS_CardinalityType
<1>2. ASSUME NEW x \in S
      PROVE  /\ IsFiniteSet(before(x))
             /\ Cardinality(before(x)) \in Nat
             /\ Cardinality(before(x)) < Cardinality(S)
  <2>1. before(x) \in SUBSET S /\ x \notin before(x)
    BY DEF Preceding, StrictOrder
  <2>2. IsFiniteSet(before(x)) /\ Cardinality(before(x)) <= Cardinality(S)
        /\ (Cardinality(S) = Cardinality(before(x)) => S = before(x))
    BY <2>1, FS_Subset, Zenon
  <2>3. Cardinality(before(x)) \in Nat
    BY <2>2, FS_CardinalityType, Zenon
  <2>4. Cardinality(before(x)) # Cardinality(S)
    BY <2>1, <2>2, Zenon
  <2>. HIDE DEF before
  <2>. QED
    BY <1>1, <2>2, <2>3, <2>4
<1>3. ASSUME NEW x \in S, NEW y \in S, <<x, y>> \in R
      PROVE  Cardinality(before(x)) # Cardinality(before(y))
  <2>1. before(x) \in SUBSET before(y)
    BY <1>3 DEF Preceding, StrictOrder
  <2>2. x \in before(y) /\ x \notin before(x)
    BY <1>3 DEF Preceding, StrictOrder
  <2>3. IsFiniteSet(before(y))
    BY <1>2
  <2>4. Cardinality(before(y)) = Cardinality(before(x)) => before(y) = before(x)
    BY <2>1, <2>3, FS_Subset, Zenon
  <2>. QED
    BY <2>2, <2>4, Zenon
<1>4. \A x, y \in S : Cardinality(before(x)) = Cardinality(before(y)) => x = y
  BY <1>3, Zenon DEF StrictOrder
<1>5. rank \in [S -> 1 .. Cardinality(S)]
  <2>. HIDE DEF before
  <2>1. \A x \in S : Cardinality(before(x)) + 1 \in 1 .. Cardinality(S)
    BY <1>1, <1>2
  <2>. QED
    BY <2>1
<1>6. rank \in Injection(S, 1 .. Cardinality(S))
  <2>. HIDE DEF before
  <2>1. \A x, y \in S : rank[x] = rank[y] => x = y
    BY <1>2, <1>4
  <2>. QED
    BY <1>5, <2>1 DEF Injection, IsInjective
<1>7. IsFiniteSet(1 .. Cardinality(S)) /\ Cardinality(1 .. Cardinality(S)) = Cardinality(S)
  BY <1>1, FS_Interval
<1>8. rank \in Surjection(S, 1 .. Cardinality(S))
  BY <1>6, <1>7, FS_Injection, Zenon
<1>9. ASSUME NEW i \in 1 .. Cardinality(S)
      PROVE  \E x \in S : Cardinality(before(x)) = i - 1
  <2>1. PICK x \in S : rank[x] = i
    BY <1>8 DEF Surjection
  <2>. HIDE DEF before
  <2>. QED
    BY <2>1, <1>2
<1>. QED
  BY <1>4, <1>9

(* What Sorted makes of a finite set, once its order is a set of pairs.    *)
Placed(s, R, S) ==
  /\ s \in [1 .. Cardinality(S) -> S]
  /\ \A i \in 1 .. Cardinality(S) : Cardinality(Preceding(R, S, s[i])) = i - 1

Arranged(s, S) ==
  /\ s \in Seq(S) /\ Len(s) = Cardinality(S)
  /\ \A i, j \in DOMAIN s : s[i] = s[j] => i = j

LEMMA PlacesArranged ==
  ASSUME NEW S, IsFiniteSet(S), NEW R, NEW s, Placed(s, R, S)
  PROVE  Arranged(s, S)
<1>1. Cardinality(S) \in Nat
  BY FS_CardinalityType
<1>2. s \in Seq(S) /\ Len(s) = Cardinality(S) /\ DOMAIN s = 1 .. Cardinality(S)
  BY <1>1 DEF Placed
<1>3. ASSUME NEW i \in DOMAIN s, NEW j \in DOMAIN s, s[i] = s[j]
      PROVE  i = j
  <2>1. i - 1 = j - 1
    BY <1>2, <1>3 DEF Placed
  <2>. QED
    BY <1>2, <2>1
<1>. QED
  BY <1>2, <1>3 DEF Arranged

LEMMA ArrangedWhole ==
  ASSUME NEW S, IsFiniteSet(S), NEW s, Arranged(s, S)
  PROVE  ElementsOf(s) = S
<1>1. s \in Seq(S) /\ Len(s) = Cardinality(S) /\ Cardinality(S) \in Nat /\ DOMAIN s = 1 .. Cardinality(S)
  BY FS_CardinalityType DEF Arranged
<1>2. s \in Injection(1 .. Cardinality(S), S)
  <2>1. s \in [1 .. Cardinality(S) -> S]
    BY <1>1
  <2>. QED
    BY <1>1, <2>1, Zenon DEF Arranged, Injection, IsInjective
<1>3. Cardinality(1 .. Cardinality(S)) = Cardinality(S)
  BY <1>1, FS_Interval
<1>4. s \in Surjection(1 .. Cardinality(S), S)
  BY <1>2, <1>3, FS_Injection, Zenon
<1>. QED
  BY <1>1, <1>4 DEF Surjection, ElementsOf

LEMMA MatchesSorted ==
  ASSUME call.matches \in [MemoryNodes -> Nat], NEW S \in SUBSET MemoryNodes
  PROVE  Arranged(Sorted(S, MatchBefore), S)
<1>. DEFINE R == {p \in S \X S : MatchBefore(p[1], p[2])}
<1>1. IsFiniteSet(S)
  BY NodesValid, FS_Subset
<1>2. StrictOrder(R, S)
  <2>1. S \subseteq Nat /\ \A n \in S : Importance[n] \in Nat /\ Content[n] \in Nat /\ call.matches[n] \in Nat
    BY NodesValid
  <2>. QED
    BY <2>1 DEF StrictOrder, MatchBefore, NodeBefore
<1>3. \A x \in S : Preceding(R, S, x) = {y \in S : MatchBefore(y, x)}
  BY DEF Preceding
<1>. HIDE DEF R
<1>4. \A i \in 1 .. Cardinality(S) : \E x \in S : Cardinality(Preceding(R, S, x)) = i - 1
  BY <1>1, <1>2, PlacesFilled
<1>5. \A i \in 1 .. Cardinality(S) :
        \E x \in S : Cardinality({y \in S : MatchBefore(y, x)}) = i - 1
  BY <1>3, <1>4, Zenon
<1>6. Placed(Sorted(S, MatchBefore), R, S)
  BY <1>3, <1>5 DEF Placed, Sorted
<1>. QED
  BY <1>1, <1>6, PlacesArranged, Zenon


(* The rows of a node.  A relation's row is told apart by its key; of one   *)
(* source they differ in the target or the name.                            *)
RowsOf(source) ==
  {[source |-> r.source, target |-> r.target, name |-> r.name, weight |-> weight[r]] :
     r \in {q \in DOMAIN weight : q.source = source /\ q.target \in nodes}}

LEMMA RowsTyped ==
  ASSUME StoreOK, NEW source \in MemoryNodes
  PROVE  /\ RowsOf(source) \subseteq Row
         /\ \A r \in RowsOf(source) :
              r.source = source /\ r.target \in nodes /\ Key(r) \in DOMAIN weight /\ r.weight = weight[Key(r)]
         /\ \A r, q \in RowsOf(source) : r # q => r.target # q.target \/ r.name # q.name
         /\ IsFiniteSet(RowsOf(source))
<1>1. ASSUME NEW r \in DOMAIN weight
      PROVE  /\ r = [source |-> r.source, target |-> r.target, name |-> r.name]
             /\ r.source \in MemoryNodes /\ r.target \in MemoryNodes /\ r.name \in Nat
             /\ weight[r] \in 0 .. Unit
  BY DEF StoreOK
<1>2. RowsOf(source) \subseteq Row
  BY <1>1 DEF RowsOf, Row
<1>3. ASSUME NEW r \in RowsOf(source)
      PROVE  r.source = source /\ r.target \in nodes /\ Key(r) \in DOMAIN weight /\ r.weight = weight[Key(r)]
  BY <1>1, <1>3 DEF RowsOf, Key
<1>4. ASSUME NEW r \in RowsOf(source), NEW q \in RowsOf(source), r.target = q.target, r.name = q.name
      PROVE  r = q
  <2>1. Key(r) = Key(q)
    BY <1>3, <1>4 DEF Key
  <2>2. r.weight = q.weight /\ r.source = q.source
    BY <1>3, <2>1
  <2>. QED
    BY <1>2, <1>4, <2>2 DEF Row
<1>5. IsFiniteSet(RowsOf(source))
  <2>. DEFINE key == [r \in RowsOf(source) |-> Key(r)]
  <2>1. key \in Injection(RowsOf(source), DOMAIN weight)
    <3>1. key \in [RowsOf(source) -> DOMAIN weight]
      BY <1>3
    <3>2. \A r, q \in RowsOf(source) : key[r] = key[q] => r = q
      BY <1>4 DEF Key
    <3>. QED
      BY <3>1, <3>2 DEF Injection, IsInjective
  <2>2. IsFiniteSet(DOMAIN weight)
    BY DEF StoreOK
  <2>. QED
    BY <2>1, <2>2, FS_Injection, Zenon
<1>. QED
  BY <1>2, <1>3, <1>4, <1>5

LEMMA RowsSorted ==
  ASSUME StoreOK, NEW source \in MemoryNodes
  PROVE  Arranged(Sorted(RowsOf(source), RowBefore), RowsOf(source))
<1>. DEFINE S == RowsOf(source)
            R == {p \in S \X S : RowBefore(p[1], p[2])}
<1>1. /\ S \subseteq Row
      /\ \A r, q \in S : r # q => r.target # q.target \/ r.name # q.name
      /\ IsFiniteSet(S)
  BY RowsTyped
<1>. HIDE DEF S
<1>2. StrictOrder(R, S)
  <2>1. \A r \in S : /\ r.target \in Nat /\ r.name \in Nat /\ r.weight \in Nat
                     /\ Importance[r.target] \in Nat /\ Content[r.target] \in Nat
    <3>. SUFFICES ASSUME NEW r \in S
         PROVE  /\ r.target \in Nat /\ r.name \in Nat /\ r.weight \in Nat
                /\ Importance[r.target] \in Nat /\ Content[r.target] \in Nat
      OBVIOUS
    <3>1. r.target \in MemoryNodes /\ r.name \in Nat /\ r.weight \in Nat
      BY <1>1 DEF Row, Unit
    <3>2. \A n \in MemoryNodes : n \in Nat /\ Importance[n] \in Nat /\ Content[n] \in Nat
      BY NodesValid
    <3>. QED
      BY <3>1, <3>2
  <2>2. \A x \in S : <<x, x>> \notin R
    BY <2>1 DEF RowBefore
  <2>3. \A x, y \in S : x # y => <<x, y>> \in R \/ <<y, x>> \in R
    BY <1>1, <2>1 DEF RowBefore, NodeBefore
  <2>4. \A x, y, z \in S : <<x, y>> \in R /\ <<y, z>> \in R => <<x, z>> \in R
    BY <2>1 DEF RowBefore, NodeBefore
  <2>. QED
    BY <2>2, <2>3, <2>4 DEF StrictOrder
<1>3. \A x \in S : Preceding(R, S, x) = {y \in S : RowBefore(y, x)}
  BY DEF Preceding
<1>. HIDE DEF R
<1>4. \A i \in 1 .. Cardinality(S) : \E x \in S : Cardinality(Preceding(R, S, x)) = i - 1
  BY <1>1, <1>2, PlacesFilled
<1>5. \A i \in 1 .. Cardinality(S) :
        \E x \in S : Cardinality({y \in S : RowBefore(y, x)}) = i - 1
  BY <1>3, <1>4, Zenon
<1>6. Placed(Sorted(S, RowBefore), R, S)
  BY <1>3, <1>5 DEF Placed, Sorted
<1>7. Arranged(Sorted(S, RowBefore), S)
  BY <1>1, <1>6, PlacesArranged, Zenon
<1>. QED
  BY <1>7 DEF S


(* Sorted anew under a policy: what remains of the rows after the limit.    *)
LEMMA SelectionArranged ==
  ASSUME NEW S, NEW s \in Seq(S), NEW limit \in Nat
  PROVE  /\ Limited(s, limit) \in Seq(S)
         /\ Len(Limited(s, limit)) = Least(limit, Len(s))
         /\ \A i \in DOMAIN Limited(s, limit) : i \in DOMAIN s /\ Limited(s, limit)[i] = s[i]
<1>1. Least(limit, Len(s)) \in Nat /\ Least(limit, Len(s)) <= Len(s)
  BY DEF Least
<1>2. Len(Limited(s, limit)) = Least(limit, Len(s))
  BY <1>1 DEF Limited
<1>3. \A i \in 1 .. Least(limit, Len(s)) : Limited(s, limit)[i] = s[i]
  BY <1>1 DEF Limited
<1>4. Limited(s, limit) \in Seq(S)
  BY <1>1 DEF Limited
<1>. QED
  BY <1>1, <1>2, <1>3, <1>4

LEMMA AdjustedTyped ==
  ASSUME StoreOK, CallOK, NEW r \in Row
  PROVE  AdjustedWeight(r) \in Int
<1>1. FeedbackEvents(r) \subseteq FeedbackEvent /\ IsFiniteSet(FeedbackEvents(r))
  BY FS_EmptySet DEF FeedbackEvents, StoreOK
<1>2. \A kind : Fresh(FeedbackEvents(r), kind) \in Nat
  <2>. SUFFICES ASSUME NEW kind PROVE Fresh(FeedbackEvents(r), kind) \in Nat
    OBVIOUS
  <2>. DEFINE worth(h) == {e \in FeedbackEvents(r) : e.kind = kind /\ Freshness(e) = h}
  <2>1. \A h : IsFiniteSet(worth(h))
    <3>. TAKE h
    <3>1. worth(h) \in SUBSET FeedbackEvents(r)
      OBVIOUS
    <3>. QED
      BY <1>1, <3>1, FS_Subset, Zenon
  <2>2. \A h : Cardinality(worth(h)) \in Nat
    BY <2>1, FS_CardinalityType, Zenon
  <2>3. Fresh(FeedbackEvents(r), kind) = Cardinality(worth(1)) + 2 * Cardinality(worth(2))
    BY DEF Fresh
  <2>. HIDE DEF worth
  <2>. QED
    BY <2>2, <2>3
<1>3. FeedbackFactor(FeedbackEvents(r)) \in Int
  <2>1. Fresh(FeedbackEvents(r), "positive") \in Nat /\ Fresh(FeedbackEvents(r), "negative") \in Nat
    BY <1>2
  <2>. QED
    BY <2>1 DEF FeedbackFactor, Clamped
<1>4. (r.weight * FeedbackFactor(FeedbackEvents(r))) \div 20 \in Int
  <2>1. r.weight \in Int
    BY DEF Row, Unit
  <2>2. r.weight * FeedbackFactor(FeedbackEvents(r)) \in Int
    BY <1>3, <2>1
  <2>. QED
    BY <2>2
<1>. QED
  BY <1>4 DEF AdjustedWeight, Clamped, Unit

LEMMA AdjustedSorted ==
  ASSUME StoreOK, CallOK, NEW source \in MemoryNodes, NEW S \in SUBSET RowsOf(source)
  PROVE  Arranged(Sorted(S, AdjustedBefore), S)
<1>. DEFINE R == {p \in S \X S : AdjustedBefore(p[1], p[2])}
<1>1. /\ S \subseteq Row
      /\ \A r, q \in S : r # q => r.target # q.target \/ r.name # q.name
      /\ IsFiniteSet(S)
  <2>1. IsFiniteSet(RowsOf(source))
    BY RowsTyped
  <2>2. IsFiniteSet(S)
    BY <2>1, FS_Subset
  <2>. QED
    BY <2>2, RowsTyped
<1>2. StrictOrder(R, S)
  <2>1. \A r \in S : /\ r.target \in Nat /\ r.name \in Nat /\ r.weight \in Nat
                     /\ AdjustedWeight(r) \in Int
    <3>. TAKE r \in S
    <3>1. r \in Row
      BY <1>1
    <3>2. AdjustedWeight(r) \in Int
      BY <3>1, AdjustedTyped
    <3>3. r.target \in MemoryNodes /\ r.name \in Nat /\ r.weight \in 0 .. Unit
      BY <3>1 DEF Row
    <3>4. r.target \in Nat
      BY <3>3, NodesValid
    <3>5. r.weight \in Nat
      BY <3>3 DEF Unit
    <3>. QED
      BY <3>2, <3>3, <3>4, <3>5, Zenon
  <2>2. \A x \in S : <<x, x>> \notin R
    BY <2>1 DEF AdjustedBefore
  <2>3. \A x, y \in S : x # y => <<x, y>> \in R \/ <<y, x>> \in R
    BY <1>1, <2>1 DEF AdjustedBefore
  <2>4. \A x, y, z \in S : <<x, y>> \in R /\ <<y, z>> \in R => <<x, z>> \in R
    BY <2>1 DEF AdjustedBefore
  <2>. QED
    BY <2>2, <2>3, <2>4 DEF StrictOrder
<1>3. \A x \in S : Preceding(R, S, x) = {y \in S : AdjustedBefore(y, x)}
  BY DEF Preceding
<1>. HIDE DEF R
<1>4. \A i \in 1 .. Cardinality(S) : \E x \in S : Cardinality(Preceding(R, S, x)) = i - 1
  BY <1>1, <1>2, PlacesFilled
<1>5. \A i \in 1 .. Cardinality(S) :
        \E x \in S : Cardinality({y \in S : AdjustedBefore(y, x)}) = i - 1
  BY <1>3, <1>4, Zenon
<1>6. Placed(Sorted(S, AdjustedBefore), R, S)
  BY <1>3, <1>5 DEF Placed, Sorted
<1>. QED
  BY <1>1, <1>6, PlacesArranged, Zenon

(* What ordered_relations returns, under a policy or not: the first rows of *)
(* the node, in an order of the policy.                                     *)
RowLimit == IF call.kind \in {"feedback", "community"} THEN call.scanLimit
            ELSE call.maxEdges - stats.visitedEdges

FirstRows(source) == Limited(Sorted(RowsOf(source), RowBefore), RowLimit)

LEMMA RowsArranged ==
  ASSUME StoreOK, CallOK, NEW source \in MemoryNodes,
         stats.visitedEdges \in Nat, stats.visitedEdges <= call.maxEdges
  PROVE  /\ RowLimit \in Nat
         /\ FirstRows(source) \in Seq(RowsOf(source))
         /\ OrderedRelations(source) \in Seq(RowsOf(source))
         /\ \/ OrderedRelations(source) = FirstRows(source)
            \/ /\ call.kind \in {"feedback", "community"}
               /\ ElementsOf(OrderedRelations(source)) = ElementsOf(FirstRows(source))
<1>. DEFINE limit == RowLimit
            raw == OutgoingRelations(source, limit)
<1>1. limit \in Nat
  BY DEF RowLimit, CallOK, Valid, ActivationValid, FeedbackPolicyValid, Positive
<1>. HIDE DEF limit
<1>2. raw \in Seq(RowsOf(source)) /\ raw = FirstRows(source)
  <2>1. Sorted(RowsOf(source), RowBefore) \in Seq(RowsOf(source))
    BY RowsSorted DEF Arranged
  <2>2. raw = Limited(Sorted(RowsOf(source), RowBefore), limit)
    BY Zenon DEF OutgoingRelations, RowsOf
  <2>. QED
    BY <1>1, <2>1, <2>2, SelectionArranged, Zenon DEF FirstRows, limit
<1>. HIDE DEF raw
<1>3. ElementsOf(raw) \in SUBSET RowsOf(source)
  BY <1>2 DEF ElementsOf
<1>4. Arranged(Sorted(ElementsOf(raw), AdjustedBefore), ElementsOf(raw))
  BY <1>3, AdjustedSorted
<1>. DEFINE RouteBefore(r, q) ==
              Route(r) < Route(q) \/ (Route(r) = Route(q) /\ IndexIn(raw, r) < IndexIn(raw, q))
            S == ElementsOf(raw)
            R == {p \in S \X S : RouteBefore(p[1], p[2])}
<1>5. IsFiniteSet(S)
  <2>1. IsFiniteSet(RowsOf(source))
    BY RowsTyped
  <2>. QED
    BY <1>3, <2>1, FS_Subset, Zenon
<1>6. StrictOrder(R, S)
  <2>1. \A r \in S : IndexIn(raw, r) \in DOMAIN raw /\ raw[IndexIn(raw, r)] = r
    BY DEF ElementsOf, IndexIn
  <2>2. \A r \in S : IndexIn(raw, r) \in Nat
    BY <1>2, <2>1
  <2>3. \A r \in S : Route(r) \in Nat
    BY DEF Route
  <2>4. \A r, q \in S : r # q => IndexIn(raw, r) # IndexIn(raw, q)
    BY <2>1, Zenon
  <2>. HIDE DEF S
  <2>5. \A x \in S : <<x, x>> \notin R
    BY <2>2, <2>3
  <2>6. \A x, y \in S : x # y => <<x, y>> \in R \/ <<y, x>> \in R
    BY <2>2, <2>3, <2>4
  <2>7. \A x, y, z \in S : <<x, y>> \in R /\ <<y, z>> \in R => <<x, z>> \in R
    BY <2>2, <2>3
  <2>. QED
    BY <2>5, <2>6, <2>7 DEF StrictOrder
<1>. DEFINE routed == Sorted(S, RouteBefore)
<1>7. Arranged(routed, S)
  <2>. HIDE DEF S
  <2>1. \A x \in S : Preceding(R, S, x) = {y \in S : RouteBefore(y, x)}
    BY DEF Preceding
  <2>. HIDE DEF R, RouteBefore
  <2>2. \A i \in 1 .. Cardinality(S) : \E x \in S : Cardinality(Preceding(R, S, x)) = i - 1
    BY <1>5, <1>6, PlacesFilled
  <2>3. \A i \in 1 .. Cardinality(S) :
          \E x \in S : Cardinality({y \in S : RouteBefore(y, x)}) = i - 1
    BY <2>1, <2>2, Zenon
  <2>4. Placed(routed, R, S)
    BY <2>1, <2>3 DEF Placed, Sorted
  <2>. HIDE DEF routed
  <2>. QED
    BY <1>5, <2>4, PlacesArranged, Zenon
<1>8. OrderedRelations(source) = IF call.kind = "feedback" THEN Sorted(ElementsOf(raw), AdjustedBefore)
                                 ELSE IF call.kind = "community" THEN routed ELSE raw
  BY Zenon DEF OrderedRelations, raw, limit, RowLimit
<1>. HIDE DEF routed
<1>9. \A s : Arranged(s, S) => s \in Seq(RowsOf(source)) /\ ElementsOf(s) = S
  <2>1. \A s : Arranged(s, S) => ElementsOf(s) = S
    BY <1>5, ArrangedWhole, Zenon
  <2>2. \A s : Arranged(s, S) => s \in Seq(S)
    BY DEF Arranged
  <2>. QED
    BY <1>3, <2>1, <2>2
<1>10. S = ElementsOf(FirstRows(source))
  BY <1>2
<1>. HIDE DEF S
<1>11. CASE call.kind = "feedback"
  <2>1. OrderedRelations(source) = Sorted(ElementsOf(raw), AdjustedBefore)
    BY <1>8, <1>11
  <2>2. Arranged(OrderedRelations(source), S)
    BY <1>4, <2>1, Zenon DEF S
  <2>. QED
    BY <1>1, <1>2, <1>9, <1>10, <1>11, <2>2 DEF limit
<1>12. CASE call.kind = "community"
  <2>1. Arranged(OrderedRelations(source), S)
    BY <1>7, <1>8, <1>12
  <2>. QED
    BY <1>1, <1>2, <1>9, <1>10, <1>12, <2>1 DEF limit
<1>13. CASE call.kind \notin {"feedback", "community"}
  BY <1>1, <1>2, <1>8, <1>13 DEF limit
<1>. QED
  BY <1>11, <1>12, <1>13

LEMMA RowsOrdered ==
  ASSUME StoreOK, CallOK, NEW source \in MemoryNodes,
         stats.visitedEdges \in Nat, stats.visitedEdges <= call.maxEdges
  PROVE  OrderedRelations(source) \in Seq(RowsOf(source))
BY RowsArranged


-----------------------------------------------------------------------------
(* What is stored.  A call only reads; another connection keeps the rows   *)
(* under their foreign keys.                                               *)
LEMMA Assembles ==
  ASSUME ContextStep
  PROVE  /\ UNCHANGED <<stored, began, communities, call, hits, seeds, stats, walk, results>>
         /\ phase \in {"candidate", "item"} \cup Read
         /\ \/ phase' \in {"candidate", "item"} \cup Read /\ reply' = reply
            \/ phase' = "done" /\ reply' \in {"Context", "InvalidDatabase"}
<1>1. CASE NextCandidate
  BY <1>1 DEF NextCandidate, Reading, Skip, Read
<1>2. CASE ReadItem \/ DecodeItem
  BY <1>2 DEF ReadItem, DecodeItem, Reading, Skip, Answer, Read
<1>3. CASE ReadConflictsWith \/ ReadSupersedes
  BY <1>3 DEF ReadConflictsWith, ReadSupersedes, ReadReferences, Reading, Read
<1>4. CASE ReadConflicts \/ ScanEnds
  BY <1>4 DEF ReadConflicts, ScanEnds, Reading, Answer, Read
<1>5. CASE Judge
  <2>1. \/ phase' = "candidate" /\ UNCHANGED reply
        \/ phase' = "done" /\ reply' = "Context"
    BY <1>5, Zenon DEF Judge, Answer
  <2>2. /\ UNCHANGED <<stored, began, communities, call, hits, seeds, stats, walk, results>>
        /\ phase = "superseded"
    BY <1>5, Zenon DEF Judge, Reading
  <2>. QED
    BY <2>1, <2>2 DEF Read
<1>. QED
  BY <1>1, <1>2, <1>3, <1>4, <1>5, Zenon DEF ContextStep

LEMMA CallReads ==
  ASSUME CallStep
  PROVE  UNCHANGED <<stored, call>> /\ began' \in {began, revision}
<1>1. ASSUME BuildStarts \/ BuildContinues \/ BuildEnds
      PROVE  UNCHANGED <<stored, call>> /\ began' \in {began, revision}
  BY <1>1, Zenon DEF BuildStarts, BuildContinues, BuildEnds, BuildUnchanged
<1>2. ASSUME ActivationStep
      PROVE  UNCHANGED <<stored, call>> /\ began' \in {began, revision}
  BY <1>2 DEF ActivationStep, SeedQuery, SeedRead, SearchFound, SeedsFound, RoutingIndex,
     NextPath, CycleClosed, NodeBudgetSpent, TargetVisited, TargetRevisited, FinishActivation, Considering
<1>3. ASSUME ContextStep
      PROVE  UNCHANGED <<stored, call>> /\ began' \in {began, revision}
  BY <1>3, Assembles, Zenon
<1>. QED
  BY <1>1, <1>2, <1>3, Zenon DEF CallStep

LEMMA RollbackKeepsStore ==
  ASSUME StoreOK, NEW key, BundleRolledBack(key), revision' = revision + 1, UNCHANGED began
  PROVE  StoreOK'
<1>. DEFINE items == {e \in DOMAIN ledger.items : ledger.items[e].bundle = key}
            own == {ledger.items[e].node : e \in items}
            left(pairs) == {p \in pairs : p.from \notin items}
<1>1. /\ \A r \in DOMAIN weight : (r.source \in own) <=> (r.target \in own)
      /\ weight' = Restricted(weight, {r \in DOMAIN weight : r.source \notin own})
      /\ \A r \in DOMAIN feedback : r.source \notin own
      /\ nodes' = nodes \ own /\ rolledBack' = revision + 1
      /\ UNCHANGED <<feedback, issued>>
  BY Zenon DEF BundleRolledBack
<1>2. ledger' = [items |-> Restricted(ledger.items, DOMAIN ledger.items \ items),
                 conflicts |-> left(ledger.conflicts), supersessions |-> left(ledger.supersessions)]
  BY Zenon DEF BundleRolledBack
<1>3. \A e \in items : e \in DOMAIN ledger.items /\ ledger.items[e].node \in own
  OBVIOUS
<1>4. \A e \in DOMAIN ledger.items : ledger.items[e].node \in own => e \in items
  BY DEF StoreOK, ItemsValid
<1>. HIDE DEF own
<1>5. /\ DOMAIN weight' = {r \in DOMAIN weight : r.source \notin own}
      /\ \A r \in DOMAIN weight' : weight'[r] = weight[r]
      /\ weight' \in [DOMAIN weight' -> 0 .. Unit]
  BY <1>1 DEF StoreOK, Restricted
<1>6. \A r \in DOMAIN weight' : r.target \notin own
  BY <1>1, <1>5
<1>7. DOMAIN weight' \subseteq [source : nodes', target : nodes', name : Nat]
  <2>. SUFFICES ASSUME NEW r \in DOMAIN weight'
       PROVE  r \in [source : nodes', target : nodes', name : Nat]
    OBVIOUS
  <2>1. r \in [source : nodes, target : nodes, name : Nat] /\ r.source \notin own /\ r.target \notin own
    BY <1>5, <1>6 DEF StoreOK
  <2>. QED
    BY <1>1, <2>1
<1>8. IsFiniteSet(DOMAIN weight')
  BY <1>5, FS_Subset DEF StoreOK
<1>9. DOMAIN feedback' \subseteq DOMAIN weight' /\ feedback' = feedback
  BY <1>1, <1>5 DEF StoreOK
<1>10. /\ DOMAIN ledger'.items = DOMAIN ledger.items \ items
       /\ \A e \in DOMAIN ledger'.items : ledger'.items[e] = ledger.items[e]
       /\ ledger'.items \in [DOMAIN ledger'.items -> Item]
  BY <1>2 DEF StoreOK, ItemsValid, Restricted
<1>11. ItemsValid(ledger')
  BY <1>10 DEF StoreOK, ItemsValid
<1>12. NodesOf(ledger'.items) \subseteq nodes'
  BY <1>1, <1>4, <1>10 DEF StoreOK, NodesOf
<1>. HIDE DEF items
<1>13. /\ \A p \in ledger'.conflicts : p \in ledger.conflicts /\ p.from \notin items
       /\ \A p \in ledger'.supersessions : p \in ledger.supersessions /\ p.from \notin items
  BY <1>2
<1>14. ASSUME NEW pairs, NEW p \in pairs, NEW name, p.from \notin items,
              {p.from, p.to} \subseteq DOMAIN ledger.items, Projected(pairs, name, ledger.items) \subseteq DOMAIN weight
       PROVE  /\ {p.from, p.to} \subseteq DOMAIN ledger'.items
              /\ [source |-> ledger'.items[p.from].node, target |-> ledger'.items[p.to].node,
                  name |-> name] \in DOMAIN weight'
  <2>. DEFINE r == [source |-> ledger.items[p.from].node, target |-> ledger.items[p.to].node, name |-> name]
  <2>1. r \in DOMAIN weight
    BY <1>14 DEF Projected
  <2>2. r.source \notin own
    BY <1>4, <1>14
  <2>3. r.target \notin own
    BY <1>1, <2>1, <2>2
  <2>4. p.to \notin items
    BY <1>3, <2>3
  <2>5. {p.from, p.to} \subseteq DOMAIN ledger'.items
    BY <1>10, <1>14, <2>4
  <2>. QED
    BY <1>5, <1>10, <2>1, <2>2, <2>5
<1>15. /\ References(ledger) = ledger.conflicts \cup ledger.supersessions
       /\ References(ledger') = ledger'.conflicts \cup ledger'.supersessions
       /\ Projected(ledger.conflicts, ConflictsWith, ledger.items) \subseteq DOMAIN weight
       /\ Projected(ledger.supersessions, Supersedes, ledger.items) \subseteq DOMAIN weight
  BY DEF References, StoreOK, Projection
<1>16. \A p \in References(ledger') : {p.from, p.to} \subseteq DOMAIN ledger'.items
  <2>1. \A p \in References(ledger) : {p.from, p.to} \subseteq DOMAIN ledger.items
    BY DEF StoreOK
  <2>2. \A p \in ledger'.conflicts : {p.from, p.to} \subseteq DOMAIN ledger'.items
    BY <1>13, <1>14, <1>15, <2>1
  <2>3. \A p \in ledger'.supersessions : {p.from, p.to} \subseteq DOMAIN ledger'.items
    BY <1>13, <1>14, <1>15, <2>1
  <2>. QED
    BY <1>15, <2>2, <2>3
<1>17. Projected(ledger'.conflicts, ConflictsWith, ledger'.items) \subseteq DOMAIN weight'
  <2>1. \A p \in ledger'.conflicts :
          [source |-> ledger'.items[p.from].node, target |-> ledger'.items[p.to].node,
           name |-> ConflictsWith] \in DOMAIN weight'
    BY <1>13, <1>14, <1>15 DEF StoreOK
  <2>. QED
    BY <2>1 DEF Projected
<1>18. Projected(ledger'.supersessions, Supersedes, ledger'.items) \subseteq DOMAIN weight'
  <2>1. \A p \in ledger'.supersessions :
          [source |-> ledger'.items[p.from].node, target |-> ledger'.items[p.to].node,
           name |-> Supersedes] \in DOMAIN weight'
    BY <1>13, <1>14, <1>15 DEF StoreOK
  <2>. QED
    BY <2>1 DEF Projected
<1>19. Projection(ledger', ledger'.items) \subseteq DOMAIN weight'
  BY <1>17, <1>18 DEF Projection
<1>20. /\ revision' \in Nat /\ began' \in Nat /\ began' <= revision'
       /\ rolledBack' \in Nat /\ rolledBack' <= revision'
  BY <1>1 DEF StoreOK
<1>21. nodes' \subseteq issued' /\ issued' \subseteq MemoryNodes
  BY <1>1 DEF StoreOK
<1>22. \A r \in DOMAIN feedback' : feedback'[r] \subseteq FeedbackEvent /\ IsFiniteSet(feedback'[r])
  BY <1>9 DEF StoreOK
<1>. QED
  BY <1>5, <1>7, <1>8, <1>9, <1>11, <1>12, <1>16, <1>19, <1>20, <1>21, <1>22 DEF StoreOK

LEMMA FiniteProjection ==
  ASSUME NEW pairs, IsFiniteSet(pairs), NEW name, NEW items
  PROVE  IsFiniteSet(Projected(pairs, name, items))
<1>1. Projected(pairs, name, items) =
        {[source |-> items[p.from].node, target |-> items[p.to].node, name |-> name] : p \in pairs}
  BY DEF Projected
<1>2. PICK f : f = [p \in pairs |-> [source |-> items[p.from].node, target |-> items[p.to].node,
                                     name |-> name]]
  OBVIOUS
<1>3. Projected(pairs, name, items) = {f[p] : p \in pairs}
  BY <1>1, <1>2
<1>4. f \in Surjection(pairs, {f[p] : p \in pairs})
  BY <1>2 DEF Surjection
<1>. QED
  BY <1>3, <1>4, FS_Surjection

LEMMA ApplyKeepsStore ==
  ASSUME StoreOK, NEW b \in NewBundles, BundleApplied(b), revision' = revision + 1, UNCHANGED began
  PROVE  StoreOK'
<1>. DEFINE items == [e \in DOMAIN ledger.items \cup DOMAIN b.items |->
                        IF e \in DOMAIN b.items THEN b.items[e] ELSE ledger.items[e]]
            projection == Projection(b, items)
<1>1. /\ DOMAIN b.items \cap DOMAIN ledger.items = {}
      /\ NodesOf(b.items) \cap issued = {}
      /\ \A p \in References(b) : p.to \in DOMAIN items
      /\ weight' = [r \in DOMAIN weight \cup projection |->
                      IF r \in DOMAIN weight THEN weight[r] ELSE Unit]
      /\ ledger' = [items |-> items, conflicts |-> ledger.conflicts \cup b.conflicts,
                    supersessions |-> ledger.supersessions \cup b.supersessions]
      /\ nodes' = nodes \cup NodesOf(b.items) /\ issued' = issued \cup NodesOf(b.items)
      /\ UNCHANGED <<feedback, rolledBack>>
  BY Zenon DEF BundleApplied
<1>2. BundleValid(b)
  BY BundlesValid
<1>3. /\ DOMAIN items = DOMAIN ledger.items \cup DOMAIN b.items
      /\ \A e \in DOMAIN b.items : items[e] = b.items[e]
      /\ \A e \in DOMAIN ledger.items : items[e] = ledger.items[e]
  BY <1>1
<1>4. /\ ledger'.items = items /\ ledger'.conflicts = ledger.conflicts \cup b.conflicts
      /\ ledger'.supersessions = ledger.supersessions \cup b.supersessions
  BY <1>1
<1>. HIDE DEF items
<1>5. ItemsValid(ledger) /\ ItemsValid(b) /\ NodesOf(ledger.items) \subseteq issued
  BY <1>2 DEF StoreOK, BundleValid
<1>6. ItemsValid(ledger') /\ NodesOf(items) = NodesOf(ledger.items) \cup NodesOf(b.items)
  <2>1. NodesOf(items) = NodesOf(ledger.items) \cup NodesOf(b.items)
    BY <1>3 DEF NodesOf
  <2>2. items \in [DOMAIN items -> Item]
    <3>1. \A e \in DOMAIN items : items[e] \in Item
      BY <1>3, <1>5 DEF ItemsValid
    <3>2. items = [e \in DOMAIN items |-> items[e]]
      BY DEF items
    <3>. QED
      BY <3>1, <3>2
  <2>3. ASSUME NEW d \in DOMAIN items, NEW e \in DOMAIN items, items[d].node = items[e].node
        PROVE  d = e
    <3>1. CASE d \in DOMAIN b.items /\ e \in DOMAIN b.items
      BY <1>3, <1>5, <2>3, <3>1 DEF ItemsValid
    <3>2. CASE d \in DOMAIN ledger.items /\ e \in DOMAIN ledger.items
      BY <1>3, <1>5, <2>3, <3>2 DEF ItemsValid
    <3>3. CASE d \in DOMAIN ledger.items /\ e \in DOMAIN b.items
      BY <1>1, <1>3, <1>5, <2>3, <3>3 DEF NodesOf
    <3>4. CASE d \in DOMAIN b.items /\ e \in DOMAIN ledger.items
      BY <1>1, <1>3, <1>5, <2>3, <3>4 DEF NodesOf
    <3>. QED
      BY <1>3, <3>1, <3>2, <3>3, <3>4
  <2>. QED
    BY <1>4, <2>1, <2>2, <2>3 DEF ItemsValid
<1>7. NodesOf(b.items) \subseteq MemoryNodes
  BY <1>5 DEF ItemsValid, NodesOf, Item
<1>8. nodes' \subseteq issued' /\ issued' \subseteq MemoryNodes /\ nodes \subseteq nodes'
  BY <1>1, <1>7 DEF StoreOK
<1>9. NodesOf(items) \subseteq nodes'
  BY <1>1, <1>6 DEF StoreOK
<1>10. /\ References(b) = b.conflicts \cup b.supersessions
       /\ References(ledger) = ledger.conflicts \cup ledger.supersessions
       /\ References(ledger') = ledger'.conflicts \cup ledger'.supersessions
       /\ projection = Projected(b.conflicts, ConflictsWith, items) \cup
                       Projected(b.supersessions, Supersedes, items)
       /\ Projected(ledger.conflicts, ConflictsWith, ledger.items) \subseteq DOMAIN weight
       /\ Projected(ledger.supersessions, Supersedes, ledger.items) \subseteq DOMAIN weight
  BY DEF References, StoreOK, Projection
<1>11. \A p \in References(b) : p.from \in DOMAIN items /\ p.to \in DOMAIN items
  BY <1>1, <1>2, <1>3 DEF BundleValid
<1>12. \A p \in References(ledger') : {p.from, p.to} \subseteq DOMAIN items
  BY <1>3, <1>4, <1>10, <1>11 DEF StoreOK
<1>13. projection \subseteq [source : nodes', target : nodes', name : Nat]
  <2>1. \A p \in References(b) : items[p.from].node \in nodes' /\ items[p.to].node \in nodes'
    BY <1>9, <1>11 DEF NodesOf
  <2>2. ConflictsWith \in Nat /\ Supersedes \in Nat
    BY DEF ConflictsWith, Supersedes
  <2>. QED
    BY <1>10, <2>1, <2>2 DEF Projected
<1>14. IsFiniteSet(projection)
  <2>1. IsFiniteSet(b.conflicts) /\ IsFiniteSet(b.supersessions)
    BY <1>2, <1>10, FS_Subset DEF BundleValid
  <2>. QED
    BY <1>10, <2>1, FiniteProjection, FS_Union
<1>15. Projected(ledger'.conflicts, ConflictsWith, items) \subseteq DOMAIN weight \cup projection
  <2>. SUFFICES ASSUME NEW p \in ledger'.conflicts
                PROVE  [source |-> items[p.from].node, target |-> items[p.to].node, name |-> ConflictsWith]
                         \in DOMAIN weight \cup projection
    BY DEF Projected
  <2>1. CASE p \in b.conflicts
    BY <1>10, <2>1 DEF Projected
  <2>2. CASE p \in ledger.conflicts
    <3>1. {p.from, p.to} \subseteq DOMAIN ledger.items
      BY <1>10, <2>2 DEF StoreOK
    <3>2. items[p.from] = ledger.items[p.from] /\ items[p.to] = ledger.items[p.to]
      BY <1>3, <3>1
    <3>3. [source |-> ledger.items[p.from].node, target |-> ledger.items[p.to].node, name |-> ConflictsWith]
            \in DOMAIN weight
      BY <1>10, <2>2 DEF Projected
    <3>. QED
      BY <3>2, <3>3
  <2>. QED
    BY <1>4, <2>1, <2>2
<1>16. Projected(ledger'.supersessions, Supersedes, items) \subseteq DOMAIN weight \cup projection
  <2>. SUFFICES ASSUME NEW p \in ledger'.supersessions
                PROVE  [source |-> items[p.from].node, target |-> items[p.to].node, name |-> Supersedes]
                         \in DOMAIN weight \cup projection
    BY DEF Projected
  <2>1. CASE p \in b.supersessions
    BY <1>10, <2>1 DEF Projected
  <2>2. CASE p \in ledger.supersessions
    <3>1. {p.from, p.to} \subseteq DOMAIN ledger.items
      BY <1>10, <2>2 DEF StoreOK
    <3>2. items[p.from] = ledger.items[p.from] /\ items[p.to] = ledger.items[p.to]
      BY <1>3, <3>1
    <3>3. [source |-> ledger.items[p.from].node, target |-> ledger.items[p.to].node, name |-> Supersedes]
            \in DOMAIN weight
      BY <1>10, <2>2 DEF Projected
    <3>. QED
      BY <3>2, <3>3
  <2>. QED
    BY <1>4, <2>1, <2>2
<1>17. Projection(ledger', items) \subseteq DOMAIN weight \cup projection
  BY <1>15, <1>16 DEF Projection
<1>. HIDE DEF projection
<1>18. /\ DOMAIN weight' = DOMAIN weight \cup projection
       /\ weight' \in [DOMAIN weight' -> 0 .. Unit]
       /\ IsFiniteSet(DOMAIN weight')
       /\ DOMAIN weight' \subseteq [source : nodes', target : nodes', name : Nat]
  <2>1. DOMAIN weight' = DOMAIN weight \cup projection
    BY <1>1
  <2>2. Unit \in 0 .. Unit
    BY DEF Unit
  <2>3. weight' \in [DOMAIN weight' -> 0 .. Unit]
    BY <1>1, <2>1, <2>2 DEF StoreOK
  <2>4. DOMAIN weight \subseteq [source : nodes', target : nodes', name : Nat]
    BY <1>8 DEF StoreOK
  <2>5. IsFiniteSet(DOMAIN weight \cup projection)
    BY <1>14, FS_Union DEF StoreOK
  <2>. QED
    BY <1>13, <2>1, <2>3, <2>4, <2>5
<1>19. /\ DOMAIN feedback' \subseteq DOMAIN weight'
       /\ \A r \in DOMAIN feedback' : feedback'[r] \subseteq FeedbackEvent /\ IsFiniteSet(feedback'[r])
  BY <1>1, <1>18 DEF StoreOK
<1>20. /\ revision' \in Nat /\ began' \in Nat /\ began' <= revision'
       /\ rolledBack' \in Nat /\ rolledBack' <= revision'
  BY <1>1 DEF StoreOK
<1>. QED
  BY <1>4, <1>6, <1>8, <1>9, <1>12, <1>17, <1>18, <1>19, <1>20 DEF StoreOK

LEMMA UpdateKeepsStore ==
  ASSUME StoreOK, WeightUpdated, revision' = revision + 1, UNCHANGED began
  PROVE  StoreOK' /\ UNCHANGED <<nodes, ledger>>
<1>1. DOMAIN weight' = DOMAIN weight /\ weight' \in [DOMAIN weight -> 0 .. Unit]
  BY NodesValid DEF StoreOK, WeightUpdated
<1>2. UNCHANGED <<nodes, feedback, issued, ledger, rolledBack>>
  BY DEF WeightUpdated
<1>3. /\ revision' \in Nat /\ began' \in Nat /\ began' <= revision'
      /\ rolledBack' \in Nat /\ rolledBack' <= revision'
  BY <1>2 DEF StoreOK
<1>. QED
  BY <1>1, <1>2, <1>3 DEF StoreOK

LEMMA StoreStep ==
  ASSUME StoreOK, [Next]_vars
  PROVE  StoreOK'
<1>1. CASE CallStep
  BY <1>1, CallReads DEF StoreOK, stored
<1>2. CASE OtherConnection
  BY <1>2, RollbackKeepsStore, ApplyKeepsStore, UpdateKeepsStore, Zenon DEF OtherConnection
<1>3. CASE UNCHANGED vars
  BY <1>3 DEF vars, contextVars, activationVars, stored, StoreOK
<1>. QED
  BY <1>1, <1>2, <1>3 DEF Next

LEMMA StoreInit ==
  ASSUME Init
  PROVE  StoreOK
<1>1. PICK case \in Cases : weight = case.weight /\ feedback = case.feedback /\ ledger = case.ledger
  BY DEF Init, ContextInit, ActivationInit
<1>2. RelationsValid(case) /\ EvidenceValid(case)
  BY DatabasesValid, LedgersValid
<1>3. nodes = MemoryNodes \ NewNodes /\ issued = nodes /\ revision = 0 /\ began = 0 /\ rolledBack = 0
  BY DEF Init, ContextInit, ActivationInit
<1>4. DOMAIN weight \subseteq [source : nodes, target : nodes, name : Nat]
  BY <1>1, <1>2, <1>3 DEF RelationsValid, Relation
<1>5. NodesOf(ledger.items) \subseteq nodes
  <2>1. NodesOf(ledger.items) \subseteq MemoryNodes
    BY <1>1, <1>2 DEF EvidenceValid, ItemsValid, NodesOf, Item
  <2>. QED
    BY <1>1, <1>2, <1>3, <2>1 DEF EvidenceValid
<1>. QED
  BY <1>1, <1>2, <1>3, <1>4, <1>5 DEF StoreOK, RelationsValid, EvidenceValid


LEMMA ReasonsApply ==
  ASSUME NEW superseded
  PROVE  /\ Exclusion(superseded) = "none" =>
              /\ conflicted = {} /\ superseded = {}
              /\ ~(bytes + candidate.item.bytes > call.maxBytes)
         /\ Exclusion(superseded) # "none" =>
              \/ ~candidate.item.scope \/ ~candidate.item.accepted
              \/ conflicted # {} \/ superseded # {}
              \/ candidate.score < call.minScore
              \/ bytes + candidate.item.bytes > call.maxBytes
<1>. DEFINE item == candidate.item
            checks == << [reason |-> "ScopeMismatch", applies |-> ~item.scope],
                         [reason |-> "Conflict",      applies |-> conflicted # {}],
                         [reason |-> "Superseded",    applies |-> superseded # {}],
                         [reason |-> "Lifecycle",     applies |-> ~item.accepted],
                         [reason |-> "LowRelevance",  applies |-> candidate.score < call.minScore],
                         [reason |-> "SizeLimit",     applies |-> bytes + item.bytes > call.maxBytes],
                         [reason |-> "none",          applies |-> TRUE] >>
            First(i) == checks[i].applies /\ \A j \in 1 .. i - 1 : ~checks[j].applies
            first == CHOOSE i \in DOMAIN checks : First(i)
<1>1. DOMAIN checks = 1 .. 7
  OBVIOUS
<1>2. /\ checks[1].reason = "ScopeMismatch" /\ checks[2].reason = "Conflict" /\ checks[3].reason = "Superseded"
      /\ checks[4].reason = "Lifecycle" /\ checks[5].reason = "LowRelevance" /\ checks[6].reason = "SizeLimit"
      /\ checks[7].reason = "none"
  OBVIOUS
<1>3. /\ checks[1].applies = (~item.scope)
      /\ checks[2].applies = (conflicted # {}) /\ checks[3].applies = (superseded # {})
      /\ checks[4].applies = (~item.accepted) /\ checks[5].applies = (candidate.score < call.minScore)
      /\ checks[6].applies = (bytes + item.bytes > call.maxBytes) /\ checks[7].applies
  OBVIOUS
<1>4. Exclusion(superseded) = checks[first].reason
  BY Zenon DEF Exclusion
<1>. HIDE DEF checks
<1>5. \E i \in 1 .. 7 : First(i)
  <2>1. CASE checks[1].applies
    BY <2>1
  <2>2. CASE ~checks[1].applies /\ checks[2].applies
    BY <2>2
  <2>3. CASE ~checks[1].applies /\ ~checks[2].applies /\ checks[3].applies
    BY <2>3
  <2>4. CASE ~checks[1].applies /\ ~checks[2].applies /\ ~checks[3].applies /\ checks[4].applies
    BY <2>4
  <2>5. CASE /\ ~checks[1].applies /\ ~checks[2].applies /\ ~checks[3].applies /\ ~checks[4].applies
             /\ checks[5].applies
    BY <2>5
  <2>6. CASE /\ ~checks[1].applies /\ ~checks[2].applies /\ ~checks[3].applies /\ ~checks[4].applies
             /\ ~checks[5].applies /\ checks[6].applies
    BY <2>6
  <2>7. CASE /\ ~checks[1].applies /\ ~checks[2].applies /\ ~checks[3].applies /\ ~checks[4].applies
             /\ ~checks[5].applies /\ ~checks[6].applies
    BY <1>3, <2>7
  <2>. QED
    BY <2>1, <2>2, <2>3, <2>4, <2>5, <2>6, <2>7, Zenon
<1>6. first \in 1 .. 7 /\ First(first)
  BY <1>1, <1>5, Zenon
<1>7. /\ first \in 1 .. 7 /\ checks[first].applies
      /\ \A j \in 1 .. first - 1 : ~checks[j].applies
  BY <1>6, Zenon
<1>. HIDE DEF first
<1>8. Exclusion(superseded) = "none" <=> first = 7
  BY <1>2, <1>4, <1>7
<1>9. first = 7 => ~checks[2].applies /\ ~checks[3].applies /\ ~checks[6].applies
  BY <1>7
<1>10. first # 7 => \/ checks[1].applies \/ checks[2].applies \/ checks[3].applies
                   \/ checks[4].applies \/ checks[5].applies \/ checks[6].applies
  BY <1>7
<1>11. Exclusion(superseded) = "none" =>
         conflicted = {} /\ superseded = {} /\ ~(bytes + item.bytes > call.maxBytes)
  BY <1>3, <1>8, <1>9
<1>12. Exclusion(superseded) # "none" =>
         \/ ~item.scope \/ ~item.accepted \/ conflicted # {} \/ superseded # {}
         \/ candidate.score < call.minScore \/ bytes + item.bytes > call.maxBytes
  BY <1>3, <1>8, <1>10, Zenon
<1>. QED
  BY <1>11, <1>12, Zenon

LEMMA NoExclusion ==
  ASSUME NEW superseded, Exclusion(superseded) = "none"
  PROVE  /\ conflicted = {} /\ superseded = {}
         /\ ~(bytes + candidate.item.bytes > call.maxBytes)
BY ReasonsApply, Zenon

LEMMA PhasesOfActivation ==
  ASSUME ActivationStep
  PROVE  phase' \in {"seed_query", "seed_read", "next", "admit", "candidate", "done"}
<1>1. ASSUME StartWalk PROVE phase' \in {"next", "candidate", "done"}
  BY <1>1 DEF StartWalk, ReportDone, Answer
<1>2. ASSUME NEW edges, Continue(edges) PROVE phase' \in {"next", "admit"}
  BY <1>2 DEF Continue
<1>3. CASE SeedQuery \/ SeedRead \/ SearchFound
  BY <1>3 DEF SeedQuery, SeedRead, SearchFound, Answer
<1>4. CASE SeedsFound \/ RoutingIndex
  BY <1>1, <1>4 DEF SeedsFound, RoutingIndex, Answer
<1>5. CASE NextPath
  BY <1>5 DEF NextPath
<1>6. CASE CycleClosed \/ NodeBudgetSpent \/ TargetVisited \/ TargetRevisited
  BY <1>2, <1>6 DEF CycleClosed, NodeBudgetSpent, TargetVisited, TargetRevisited, Answer
<1>7. CASE FinishActivation
  BY <1>7 DEF FinishActivation, ReportDone, Answer
<1>. QED
  BY <1>3, <1>4, <1>5, <1>6, <1>7, Zenon DEF ActivationStep

-----------------------------------------------------------------------------
(* What a call keeps.                                                      *)
LEMMA CallFields ==
  ASSUME CallOK
  PROVE  /\ call.kind \in CallKinds /\ call.hops \in Nat
         /\ {call.limit, call.seedLimit, call.maxNodes, call.maxEdges, call.scanLimit,
             call.resultLimit, call.candidateScan, call.maxBytes} \subseteq Nat \ {0}
         /\ call.matches \in [MemoryNodes -> Nat]
BY DEF CallOK, Valid, SearchValid, ActivationValid, FeedbackPolicyValid, ContextValid, Positive, MaxHops

LEMMA HitsFound ==
  ASSUME CallOK, NEW limit \in Nat
  PROVE  /\ SearchTerms(limit) \in Seq(MemoryNodes)
         /\ Len(SearchTerms(limit)) <= limit
         /\ \A i \in DOMAIN SearchTerms(limit) : SearchTerms(limit)[i] \in nodes
         /\ \A i, j \in DOMAIN SearchTerms(limit) : SearchTerms(limit)[i] = SearchTerms(limit)[j] => i = j
<1>. DEFINE wanted == {n \in MemoryNodes : Indexed(n) /\ (call.kind = "search" => Kind[n] \in call.filter)}
            sorted == Sorted(wanted, MatchBefore)
<1>1. SearchTerms(limit) = Limited(sorted, limit)
  BY Zenon DEF SearchTerms
<1>2. Arranged(sorted, wanted)
  BY CallFields, MatchesSorted
<1>3. wanted \subseteq nodes /\ wanted \subseteq MemoryNodes
  BY DEF Indexed
<1>. HIDE DEF wanted, sorted
<1>4. sorted \in Seq(wanted)
  BY <1>2 DEF Arranged
<1>5. /\ SearchTerms(limit) \in Seq(wanted)
      /\ Len(SearchTerms(limit)) = Least(limit, Len(sorted))
      /\ \A i \in DOMAIN SearchTerms(limit) : i \in DOMAIN sorted /\ SearchTerms(limit)[i] = sorted[i]
  BY <1>1, <1>4, SelectionArranged
<1>6. Len(SearchTerms(limit)) <= limit
  BY <1>4, <1>5 DEF Least
<1>7. \A i, j \in DOMAIN SearchTerms(limit) : SearchTerms(limit)[i] = SearchTerms(limit)[j] => i = j
  BY <1>2, <1>5, Zenon DEF Arranged
<1>8. \A i \in DOMAIN SearchTerms(limit) : SearchTerms(limit)[i] \in wanted
  BY <1>5
<1>. QED
  BY <1>3, <1>5, <1>6, <1>7, <1>8

(* The row under consideration.                                            *)
LEMMA HeadOfRows ==
  ASSUME CallOK, NEW row \in ElementsOf(rows), Considering(row)
  PROVE  /\ row = Head(rows) /\ row \in Row /\ row.target \in MemoryNodes
         /\ current \in Path /\ rows \in Seq(Row) /\ rows # <<>>
<1>1. current \in Path /\ rows \in Seq(Row) /\ rows # <<>> /\ row = Head(rows)
  BY DEF CallOK, Considering
<1>2. row \in Row
  BY <1>1
<1>3. row.target \in MemoryNodes
  BY <1>2 DEF Row
<1>. QED
  BY <1>1, <1>2, <1>3

LEMMA Extending ==
  ASSUME StoreOK, CallOK, NEW row \in Row, current \in Path, Extend(row, row.target)
  PROVE  /\ Reached(candidates')
         /\ queue' \in Seq(Path) /\ Len(queue') <= Len(queue) + 1
         /\ \A n \in DOMAIN candidates' :
              \/ n \in DOMAIN candidates /\ candidates'[n] = candidates[n]
              \/ candidates'[n].steps = Append(current.steps, row)
<1>. DEFINE prop == Propagated(current.prop, EffectiveWeight(row))
            steps == Append(current.steps, row)
<1>1. EffectiveWeight(row) \in Int
  BY AdjustedTyped DEF EffectiveWeight, Row, Unit
<1>2. prop \in Int
  <2>1. current.prop \in Int
    BY DEF Path
  <2>2. current.prop * EffectiveWeight(row) \in Int
    BY <1>1, <2>1
  <2>. QED
    BY <2>2 DEF Propagated, HopDivisor
<1>3. steps \in Seq(Row) /\ current.seed \in MemoryNodes /\ row.target \in MemoryNodes
  BY DEF Path, Row
<1>4. \/ queue' = queue
      \/ queue' = Append(queue, [node |-> row.target, seed |-> current.seed, prop |-> prop, steps |-> steps])
  BY DEF Extend
<1>5. \/ candidates' = candidates
      \/ candidates' = Put(candidates, row.target, [score |-> prop * ImportanceFactor(row.target),
                                                    seed |-> current.seed, steps |-> steps])
  BY Zenon DEF Extend, ConsiderCandidate
<1>. HIDE DEF prop, steps
<1>6. queue' \in Seq(Path) /\ Len(queue') <= Len(queue) + 1
  <2>1. [node |-> row.target, seed |-> current.seed, prop |-> prop, steps |-> steps] \in Path
    BY <1>2, <1>3 DEF Path
  <2>2. queue \in Seq(Path)
    BY DEF CallOK
  <2>. QED
    BY <1>4, <2>1, <2>2
<1>7. Reached(candidates')
  <2>1. prop * ImportanceFactor(row.target) \in Int
    <3>1. \A n \in MemoryNodes : Importance[n] \in Int
      BY NodesValid
    <3>2. ImportanceFactor(row.target) \in Int
      BY <1>3, <3>1 DEF ImportanceFactor
    <3>. QED
      BY <1>2, <3>2
  <2>2. [score |-> prop * ImportanceFactor(row.target), seed |-> current.seed, steps |-> steps] \in Found
    BY <1>3, <2>1 DEF Found
  <2>3. Reached(candidates)
    BY DEF CallOK
  <2>. QED
    BY <1>3, <1>5, <2>2, <2>3 DEF Reached, Put
<1>8. ASSUME NEW n \in DOMAIN candidates'
      PROVE  \/ n \in DOMAIN candidates /\ candidates'[n] = candidates[n]
             \/ candidates'[n].steps = steps
  BY <1>5 DEF Put
<1>. QED
  BY <1>6, <1>7, <1>8 DEF steps

LEMMA Starting ==
  ASSUME CallOK, StartWalk, reply = "none"
  PROVE  /\ phase' \in {"next", "candidate", "done"}
         /\ phase' = "done" <=> reply' # "none"
         /\ reply' \in {"none", "Report"}
         /\ visited' \subseteq MemoryNodes /\ queue' \in Seq(Path)
         /\ Reached(candidates')
<1>1. CASE seeds = <<>>
  BY <1>1 DEF StartWalk, ReportDone, Answer, walk, CallOK
<1>2. CASE seeds # <<>>
  <2>. DEFINE path(i) == [node |-> seeds[i].node, seed |-> seeds[i].node,
                          prop |-> seeds[i].score, steps |-> <<>>]
  <2>0. seeds \in Seq(Seed)
    BY DEF CallOK
  <2>7. \A i \in DOMAIN seeds : seeds[i].node \in MemoryNodes /\ seeds[i].score \in Int
    <3>1. \A i \in DOMAIN seeds : seeds[i] \in Seed
      BY <2>0
    <3>. QED
      BY <3>1 DEF Seed
  <2>1. SeedNodes \subseteq MemoryNodes
    BY <2>7 DEF SeedNodes
  <2>2. \A i \in DOMAIN seeds : path(i) \in Path
    <3>1. <<>> \in Seq(Row)
      OBVIOUS
    <3>. QED
      BY <2>7, <3>1 DEF Path
  <2>8. queue' = [i \in DOMAIN seeds |-> path(i)]
    BY <1>2, Zenon DEF StartWalk
  <2>. HIDE DEF path
  <2>3. queue' \in Seq(Path)
    BY <2>0, <2>2, <2>8
  <2>4. visited' \subseteq MemoryNodes
    BY <1>2, <2>1 DEF StartWalk
  <2>5. Reached(candidates')
    <3>. DEFINE at(n) == CHOOSE j \in DOMAIN seeds : seeds[j].node = n
                first(n) == [score |-> seeds[at(n)].score * ImportanceFactor(n), seed |-> n, steps |-> <<>>]
    <3>1. candidates' = Nothing \/ candidates' = [n \in SeedNodes |-> first(n)]
      BY <1>2, Zenon DEF StartWalk
    <3>2. ASSUME NEW n \in SeedNodes PROVE first(n) \in Found
      <4>1. at(n) \in DOMAIN seeds
        BY DEF SeedNodes
      <4>2. seeds[at(n)].score \in Int
        BY <2>7, <4>1
      <4>. HIDE DEF at
      <4>3. Importance[n] \in Int
        BY <2>1, NodesValid
      <4>4. ImportanceFactor(n) \in Int
        BY <4>3 DEF ImportanceFactor
      <4>5. seeds[at(n)].score * ImportanceFactor(n) \in Int
        BY <4>2, <4>4
      <4>6. <<>> \in Seq(Row)
        OBVIOUS
      <4>. QED
        BY <2>1, <4>5, <4>6 DEF Found
    <3>. HIDE DEF first
    <3>. QED
      BY <2>1, <3>1, <3>2 DEF Reached, Nothing
  <2>6. phase' = "next" /\ reply' = reply
    BY <1>2 DEF StartWalk
  <2>. QED
    BY <2>3, <2>4, <2>5, <2>6
<1>. QED
  BY <1>1, <1>2


LEMMA SeedingKeepsCall ==
  ASSUME StoreOK, CallOK, SeedQuery \/ SeedRead \/ SearchFound \/ SeedsFound \/ RoutingIndex,
         UNCHANGED package
  PROVE  CallOK'
<1>1. Valid(call)' /\ candidate' = candidate
  BY DEF CallOK, SeedQuery, SeedRead, SearchFound, SeedsFound, RoutingIndex, package
<1>2. reply = "none"
  BY DEF CallOK, SeedQuery, SeedRead, SearchFound, SeedsFound, RoutingIndex
<1>3. CASE SeedQuery
  <2>. DEFINE limit == IF call.kind = "search" THEN call.limit ELSE Least(call.seedLimit, call.maxNodes)
  <2>1. limit \in Nat
    BY CallFields DEF Least
  <2>2. hits' = SearchTerms(limit) /\ phase' = "seed_read"
    BY <1>3 DEF SeedQuery
  <2>. HIDE DEF limit
  <2>3. hits' \in Seq(MemoryNodes)
    BY <2>1, <2>2, HitsFound
  <2>. QED
    BY <1>1, <1>2, <1>3, <2>2, <2>3 DEF SeedQuery, CallOK, walk, Phases
<1>4. CASE SeedRead
  <2>1. CASE Head(hits) \in nodes
    <3>1. hits \in Seq(MemoryNodes) /\ hits # <<>> /\ seeds \in Seq(Seed)
      BY <1>4 DEF SeedRead, CallOK
    <3>2. Head(hits) \in MemoryNodes /\ Tail(hits) \in Seq(MemoryNodes)
      BY <3>1
    <3>3. call.matches[Head(hits)] * Scale \in Int
      <4>1. call.matches[Head(hits)] \in Nat
        BY <3>2, CallFields
      <4>. QED
        BY <4>1 DEF Scale, HopDivisor
    <3>4. [node |-> Head(hits), score |-> call.matches[Head(hits)] * Scale] \in Seed
      BY <3>2, <3>3 DEF Seed
    <3>6. /\ hits' = Tail(hits)
          /\ seeds' = Append(seeds, [node |-> Head(hits), score |-> call.matches[Head(hits)] * Scale])
      BY <1>4, <2>1, Zenon DEF SeedRead
    <3>5. hits' \in Seq(MemoryNodes) /\ seeds' \in Seq(Seed)
      BY <3>1, <3>2, <3>4, <3>6
    <3>. QED
      BY <1>1, <1>4, <2>1, <3>5 DEF SeedRead, CallOK, walk
  <2>2. CASE Head(hits) \notin nodes
    BY <1>1, <1>4, <2>2 DEF SeedRead, CallOK, walk, Answer, Phases, Answers
  <2>. QED
    BY <2>1, <2>2
<1>5. CASE SearchFound
  BY <1>1, <1>5 DEF SearchFound, CallOK, walk, Answer, Phases, Answers
<1>6. ASSUME StartWalk, UNCHANGED <<call, hits, seeds>>, phase = "seed_read"
      PROVE  CallOK'
  <2>1. /\ phase' \in {"next", "candidate", "done"}
        /\ phase' = "done" <=> reply' # "none"
        /\ reply' \in {"none", "Report"}
        /\ visited' \subseteq MemoryNodes /\ queue' \in Seq(Path)
        /\ Reached(candidates')
    BY <1>2, <1>6, Starting
  <2>. QED
    BY <1>1, <1>6, <2>1 DEF CallOK, Phases, Answers
<1>7. CASE SeedsFound
  BY <1>6, <1>7 DEF SeedsFound
<1>8. CASE RoutingIndex
  <2>1. CASE revision # 0
    BY <1>1, <1>8, <2>1 DEF RoutingIndex, CallOK, walk, Answer, Phases, Answers
  <2>2. CASE revision = 0
    BY <1>6, <1>8, <2>2 DEF RoutingIndex
  <2>. QED
    BY <2>1, <2>2
<1>. QED
  BY <1>3, <1>4, <1>5, <1>7, <1>8

LEMMA Continuing ==
  ASSUME rows \in Seq(Row), rows # <<>>, NEW edges, Continue(edges)
  PROVE  /\ phase' \in {"next", "admit"} /\ rows' \in Seq(Row)
         /\ phase' = "admit" => rows' # <<>> /\ EdgeLeft(edges) /\ rows' = Tail(rows)
BY DEF Continue

LEMMA WalkingKeepsCall ==
  ASSUME StoreOK, CallOK, stats.visitedEdges \in Nat, stats.visitedEdges <= call.maxEdges,
         NextPath \/ CycleClosed \/ NodeBudgetSpent \/ TargetVisited \/ TargetRevisited
           \/ FinishActivation,
         UNCHANGED package
  PROVE  CallOK'
<1>1. Valid(call)' /\ UNCHANGED <<candidate, hits, seeds>>
  BY DEF CallOK, NextPath, CycleClosed, NodeBudgetSpent, TargetVisited, TargetRevisited,
     FinishActivation, Considering, package
<1>2. reply = "none"
  BY DEF CallOK, NextPath, CycleClosed, NodeBudgetSpent, TargetVisited, TargetRevisited,
     FinishActivation, Considering
<1>3. CASE NextPath
  <2>1. queue \in Seq(Path) /\ queue # <<>>
    BY <1>3 DEF NextPath, CallOK
  <2>2. Head(queue) \in Path /\ queue' \in Seq(Path) /\ current' = Head(queue)
    BY <1>3, <2>1 DEF NextPath
  <2>3. CASE Exhausted(Head(queue))
    BY <1>1, <1>3, <2>2, <2>3 DEF NextPath, CallOK
  <2>4. CASE ~Exhausted(Head(queue))
    <3>1. Head(queue).node \in MemoryNodes
      BY <2>2 DEF Path
    <3>2. rows' \in Seq(RowsOf(Head(queue).node))
      BY <1>3, <2>4, <3>1, RowsOrdered DEF NextPath
    <3>3. rows' \in Seq(Row)
      BY <3>1, <3>2, RowsTyped
    <3>4. phase' \in {"next", "admit"} /\ (phase' = "admit" => rows' # <<>>)
      BY <1>3, <2>4 DEF NextPath
    <3>. QED
      BY <1>1, <1>2, <1>3, <2>2, <3>3, <3>4 DEF NextPath, CallOK, Phases
  <2>. QED
    BY <2>3, <2>4
<1>4. CASE CycleClosed
  <2>1. PICK row \in ElementsOf(rows) : Considering(row) /\ Continue(Edges)
    BY <1>4 DEF CycleClosed
  <2>2. phase' \in {"next", "admit"} /\ rows' \in Seq(Row) /\ (phase' = "admit" => rows' # <<>>)
    BY <2>1, HeadOfRows, Continuing
  <2>3. current' = current /\ current \in Path
    BY <2>1, HeadOfRows DEF Considering
  <2>. QED
    BY <1>1, <1>2, <1>4, <2>2, <2>3 DEF CycleClosed, CallOK, Phases
<1>5. CASE NodeBudgetSpent
  BY <1>1, <1>5 DEF NodeBudgetSpent, CallOK, Phases, Considering
<1>6. CASE TargetVisited
  <2>1. PICK row \in ElementsOf(rows) :
          /\ Considering(row)
          /\ visited' = visited \cup {row.target}
          /\ IF row.target \in nodes
             THEN Continue(Edges) /\ Extend(row, row.target) /\ UNCHANGED reply
             ELSE Answer("InvalidDatabase") /\ UNCHANGED <<rows, queue, best, candidates>>
    BY <1>6, Zenon DEF TargetVisited
  <2>2. row \in Row /\ row.target \in MemoryNodes /\ current \in Path /\ rows \in Seq(Row) /\ rows # <<>>
    BY <2>1, HeadOfRows
  <2>3. current' = current /\ visited' \subseteq MemoryNodes
    BY <2>1, <2>2 DEF Considering, CallOK
  <2>4. CASE row.target \in nodes
    <3>1. phase' \in {"next", "admit"} /\ rows' \in Seq(Row) /\ (phase' = "admit" => rows' # <<>>)
      BY <2>1, <2>2, <2>4, Continuing
    <3>2. Reached(candidates') /\ queue' \in Seq(Path)
      BY <2>1, <2>2, <2>4, Extending
    <3>. QED
      BY <1>1, <1>2, <2>1, <2>2, <2>3, <2>4, <3>1, <3>2 DEF CallOK, Phases
  <2>5. CASE row.target \notin nodes
    BY <1>1, <2>1, <2>2, <2>3, <2>5 DEF CallOK, Phases, Answer, Answers
  <2>. QED
    BY <2>4, <2>5
<1>7. CASE TargetRevisited
  <2>1. PICK row \in ElementsOf(rows) :
          Considering(row) /\ Continue(Edges) /\ Extend(row, row.target) /\ UNCHANGED <<visited, reply>>
    BY <1>7, Zenon DEF TargetRevisited
  <2>2. row \in Row /\ row.target \in MemoryNodes /\ current \in Path /\ rows \in Seq(Row) /\ rows # <<>>
    BY <2>1, HeadOfRows
  <2>3. phase' \in {"next", "admit"} /\ rows' \in Seq(Row) /\ (phase' = "admit" => rows' # <<>>)
    BY <2>1, <2>2, Continuing
  <2>4. Reached(candidates') /\ queue' \in Seq(Path)
    BY <2>1, <2>2, Extending
  <2>5. current' = current
    BY <2>1 DEF Considering
  <2>. QED
    BY <1>1, <1>2, <2>1, <2>2, <2>3, <2>4, <2>5 DEF CallOK, Phases
<1>8. CASE FinishActivation
  BY <1>1, <1>2, <1>8 DEF FinishActivation, CallOK, walk, ReportDone, Answer, Phases, Answers
<1>. QED
  BY <1>3, <1>4, <1>5, <1>6, <1>7, <1>8

LEMMA AssemblyKeepsCall ==
  ASSUME StoreOK, CallOK, ContextStep
  PROVE  CallOK'
<1>1. Valid(call)' /\ UNCHANGED <<hits, seeds, walk>>
  BY Assembles DEF CallOK
<1>2. reply = "none" /\ phase' # "admit"
  BY Assembles DEF CallOK, Read
<1>3. ASSUME phase' \in Phases, phase' = "done" <=> reply' # "none", reply' \in Answers,
             DOMAIN candidate' = DOMAIN candidate, candidate'.item \in Item \cup {NoItem}
      PROVE  CallOK'
  BY <1>1, <1>2, <1>3 DEF CallOK, walk
<1>4. CASE NextCandidate
  <2>1. DOMAIN candidate' = DOMAIN candidate /\ candidate'.item \in Item \cup {NoItem}
    BY <1>4 DEF NextCandidate, Candidate, CallOK
  <2>. QED
    BY <1>2, <1>3, <1>4, <2>1 DEF NextCandidate, Skip, Phases, Answers
<1>5. CASE ReadItem
  <2>1. DOMAIN candidate' = DOMAIN candidate /\ candidate'.item \in Item \cup {NoItem}
    BY <1>5 DEF ReadItem, CallOK, StoreOK, ItemsValid
  <2>. QED
    BY <1>2, <1>3, <1>5, <2>1 DEF ReadItem, Skip, Phases, Answers
<1>6. CASE DecodeItem
  <2>1. DOMAIN candidate' = DOMAIN candidate /\ candidate'.item \in Item \cup {NoItem}
    BY <1>6 DEF DecodeItem, CallOK
  <2>. QED
    BY <1>2, <1>3, <1>6, <2>1 DEF DecodeItem, Answer, Phases, Answers
<1>8. CASE ReadConflictsWith \/ ReadSupersedes
  <2>1. DOMAIN candidate' = DOMAIN candidate /\ candidate'.item \in Item \cup {NoItem}
    BY <1>8 DEF ReadConflictsWith, ReadSupersedes, ReadReferences, CallOK
  <2>. QED
    BY <1>2, <1>3, <1>8, <2>1 DEF ReadConflictsWith, ReadSupersedes, ReadReferences, Phases, Answers
<1>7. CASE ReadConflicts \/ Judge \/ ScanEnds
  <2>1. DOMAIN candidate' = DOMAIN candidate /\ candidate'.item \in Item \cup {NoItem}
    BY <1>7 DEF ReadConflicts, Judge, ScanEnds, CallOK
  <2>. QED
    BY <1>2, <1>3, <1>7, <2>1 DEF ReadConflicts, Judge, ScanEnds, Answer, Phases, Answers
<1>. QED
  BY <1>4, <1>5, <1>6, <1>7, <1>8 DEF ContextStep

LEMMA CallStepTyped ==
  ASSUME StoreOK, CallOK, stats.visitedEdges \in Nat, stats.visitedEdges <= call.maxEdges,
         [Next]_vars
  PROVE  CallOK'
<1>1. CASE BuildStarts \/ BuildContinues \/ BuildEnds
  <2>1. UNCHANGED <<call, hits, seeds, walk, reply, package>>
    BY <1>1, Zenon DEF BuildStarts, BuildContinues, BuildEnds, BuildUnchanged
  <2>2. phase' = phase \/ (phase = "build" /\ phase' = "seed_query")
    BY <1>1, Zenon DEF BuildStarts, BuildContinues, BuildEnds
  <2>. QED
    BY <2>1, <2>2 DEF CallOK, walk, package, Phases
<1>2. CASE ActivationStep /\ UNCHANGED <<build, package>>
  BY <1>2, SeedingKeepsCall, WalkingKeepsCall DEF ActivationStep
<1>3. CASE ContextStep
  BY <1>3, AssemblyKeepsCall
<1>4. CASE OtherConnection /\ UNCHANGED <<build, package>>
  <2>1. UNCHANGED <<call, phase, hits, seeds, walk, reply, package>>
    BY <1>4, Zenon DEF OtherConnection
  <2>. QED
    BY <2>1 DEF CallOK, walk, package
<1>5. CASE UNCHANGED vars
  BY <1>5 DEF vars, contextVars, activationVars, walk, package, CallOK
<1>. QED
  BY <1>1, <1>2, <1>3, <1>4, <1>5, Zenon DEF Next, CallStep


-----------------------------------------------------------------------------
(* Races.                                                                  *)
LEMMA OthersRace ==
  ASSUME StoreOK, OtherConnection
  PROVE  /\ Gone => Gone'
         /\ ~Gone' => nodes \subseteq nodes'
         /\ began' = began /\ feedback' = feedback
<1>1. began' = began /\ revision + 1 > began
  BY DEF OtherConnection, StoreOK
<1>2. ASSUME NEW key, BundleRolledBack(key)
      PROVE  Gone' /\ feedback' = feedback
  <2>1. rolledBack' = revision + 1 /\ feedback' = feedback
    BY <1>2, Zenon DEF BundleRolledBack
  <2>. QED
    BY <1>1, <2>1 DEF Gone
<1>3. ASSUME NEW b, BundleApplied(b)
      PROVE  rolledBack' = rolledBack /\ nodes \subseteq nodes' /\ feedback' = feedback
  <2>1. UNCHANGED <<feedback, rolledBack>> /\ nodes' = nodes \cup NodesOf(b.items)
    BY <1>3, Zenon DEF BundleApplied
  <2>. QED
    BY <2>1
<1>4. CASE WeightUpdated
  BY <1>1, <1>4 DEF WeightUpdated, Gone
<1>. QED
  BY <1>1, <1>2, <1>3, <1>4 DEF OtherConnection, Gone

LEMMA RaceStep ==
  ASSUME StoreOK, CallOK, RaceOK, stats.visitedEdges \in Nat, stats.visitedEdges <= call.maxEdges,
         [Next]_vars
  PROVE  RaceOK'
<1>1. CASE BuildStarts \/ BuildContinues \/ BuildEnds
  <2>1. UNCHANGED <<stored, began, hits, rows, candidate, reply>>
    BY <1>1, Zenon DEF BuildStarts, BuildContinues, BuildEnds, BuildUnchanged, walk, package
  <2>2. phase' = phase \/ (phase = "build" /\ phase' = "seed_query")
    BY <1>1, Zenon DEF BuildStarts, BuildContinues, BuildEnds
  <2>. QED
    BY <2>1, <2>2 DEF RaceOK, Gone, stored, ElementsOf
<1>2. CASE SeedQuery
  <2>. DEFINE limit == IF call.kind = "search" THEN call.limit ELSE Least(call.seedLimit, call.maxNodes)
  <2>1. limit \in Nat
    BY CallFields DEF Least
  <2>2. hits' = SearchTerms(limit) /\ phase' = "seed_read"
    BY <1>2 DEF SeedQuery
  <2>. HIDE DEF limit
  <2>3. ElementsOf(hits)' \subseteq nodes
    BY <2>1, <2>2, HitsFound DEF ElementsOf
  <2>4. UNCHANGED <<nodes, reply>> /\ reply = "none"
    BY <1>2 DEF SeedQuery, stored, CallOK
  <2>. QED
    BY <2>2, <2>3, <2>4 DEF RaceOK
<1>3. CASE SeedRead
  <2>1. UNCHANGED <<nodes, rolledBack, began, rows>>
    BY <1>3 DEF SeedRead, stored, walk
  <2>2. Gone' <=> Gone
    BY <2>1 DEF Gone
  <2>3. hits \in Seq(MemoryNodes) /\ hits # <<>> /\ reply = "none" /\ phase = "seed_read"
    BY <1>3 DEF SeedRead, CallOK
  <2>4. CASE Head(hits) \in nodes
    <3>1. hits' = Tail(hits) /\ UNCHANGED <<phase, reply>>
      BY <1>3, <2>4 DEF SeedRead
    <3>2. ElementsOf(hits)' \subseteq ElementsOf(hits)
      BY <2>3, <3>1 DEF ElementsOf
    <3>. QED
      BY <2>1, <2>2, <2>3, <3>1, <3>2 DEF RaceOK
  <2>5. CASE Head(hits) \notin nodes
    <3>1. Gone
      BY <2>3, <2>5 DEF RaceOK, ElementsOf
    <3>. QED
      BY <1>3, <2>2, <2>3, <2>5, <3>1 DEF RaceOK, SeedRead, Answer
  <2>. QED
    BY <2>4, <2>5
<1>4. ASSUME UNCHANGED <<nodes, rolledBack, began, hits>>,
             phase' \in {"next", "candidate", "item", "conflicts_with", "supersedes", "conflicts",
                        "superseded", "done"},
             reply' # "InvalidDatabase" \/ Gone
      PROVE  RaceOK'
  <2>1. Gone' <=> Gone
    BY <1>4 DEF Gone
  <2>. QED
    BY <1>4, <2>1 DEF RaceOK, ElementsOf
<1>5. CASE SearchFound \/ SeedsFound \/ RoutingIndex \/ FinishActivation
  <2>1. reply = "none"
    BY <1>5 DEF CallOK, SearchFound, SeedsFound, RoutingIndex, FinishActivation
  <2>. QED
    BY <1>4, <1>5, <2>1 DEF SearchFound, SeedsFound, RoutingIndex, FinishActivation, StartWalk,
       ReportDone, Answer, stored
<1>6. ASSUME UNCHANGED <<nodes, rolledBack, began, hits, reply>>, reply = "none", phase' \in {"next", "admit"},
             phase' = "admit" => Gone \/ \A row \in ElementsOf(rows)' : row.target \in nodes
      PROVE  RaceOK'
  <2>1. Gone' <=> Gone
    BY <1>6 DEF Gone
  <2>. QED
    BY <1>6, <2>1 DEF RaceOK, ElementsOf
<1>7. CASE NextPath
  <2>1. UNCHANGED <<nodes, rolledBack, began, hits, reply>> /\ reply = "none" /\ phase = "next"
    BY <1>7 DEF NextPath, stored, CallOK
  <2>2. CASE Exhausted(Head(queue))
    BY <1>6, <1>7, <2>1, <2>2 DEF NextPath
  <2>3. CASE ~Exhausted(Head(queue))
    <3>1. rows' = OrderedRelations(Head(queue).node) /\ phase' \in {"next", "admit"}
      BY <1>7, <2>3 DEF NextPath
    <3>2. Head(queue) \in Path
      BY <1>7 DEF NextPath, CallOK
    <3>3. Head(queue).node \in MemoryNodes
      BY <3>2 DEF Path
    <3>4. rows' \in Seq(RowsOf(Head(queue).node))
      BY <3>1, <3>3, RowsOrdered
    <3>5. \A row \in ElementsOf(rows)' : row.target \in nodes
      BY <3>3, <3>4, RowsTyped DEF ElementsOf
    <3>. QED
      BY <1>6, <2>1, <3>1, <3>5
  <2>. QED
    BY <2>2, <2>3
<1>8. CASE CycleClosed \/ NodeBudgetSpent \/ TargetVisited \/ TargetRevisited
  <2>1. PICK row \in ElementsOf(rows) : Considering(row)
    BY <1>8 DEF CycleClosed, NodeBudgetSpent, TargetVisited, TargetRevisited
  <2>2. /\ UNCHANGED <<nodes, rolledBack, began, hits>> /\ reply = "none" /\ phase = "admit"
        /\ rows \in Seq(Row) /\ rows # <<>>
    BY <2>1, HeadOfRows DEF Considering, stored, CallOK
  <2>3. Gone \/ \A q \in ElementsOf(rows) : q.target \in nodes
    BY <2>2 DEF RaceOK
  <2>4. ASSUME NEW edges, Continue(edges), UNCHANGED reply
        PROVE  RaceOK'
    <3>1. /\ phase' \in {"next", "admit"} /\ rows' \in Seq(Row)
          /\ phase' = "admit" => rows' = Tail(rows)
      BY <2>2, <2>4, Continuing
    <3>2. phase' = "admit" => ElementsOf(rows)' \subseteq ElementsOf(rows)
      BY <2>2, <3>1 DEF ElementsOf
    <3>. QED
      BY <1>6, <2>2, <2>3, <2>4, <3>1, <3>2
  <2>5. CASE CycleClosed \/ TargetRevisited
    <3>1. Continue(Edges) /\ UNCHANGED reply
      BY <2>5, Zenon DEF CycleClosed, TargetRevisited
    <3>. QED
      BY <2>4, <3>1
  <2>6. CASE NodeBudgetSpent
    BY <1>6, <2>2, <2>6 DEF NodeBudgetSpent
  <2>7. CASE TargetVisited
    <3>1. PICK q \in ElementsOf(rows) :
            IF q.target \in nodes
            THEN Continue(Edges) /\ Extend(q, q.target) /\ UNCHANGED reply
            ELSE Answer("InvalidDatabase") /\ UNCHANGED <<rows, queue, best, candidates>>
      BY <2>7, Zenon DEF TargetVisited
    <3>2. CASE q.target \in nodes
      BY <2>4, <3>1, <3>2
    <3>3. CASE q.target \notin nodes
      <4>1. Gone
        BY <2>3, <3>3
      <4>. QED
        BY <1>4, <2>2, <3>1, <3>3, <4>1 DEF Answer
    <3>. QED
      BY <3>2, <3>3
  <2>. QED
    BY <1>8, <2>5, <2>6, <2>7
<1>9. CASE ContextStep
  <2>1. UNCHANGED <<nodes, ledger, rolledBack, began, hits>> /\ reply = "none"
    BY <1>9, Assembles DEF stored, CallOK, Read
  <2>2. CASE NextCandidate \/ ReadConflictsWith \/ ReadSupersedes \/ ReadConflicts \/ Judge \/ ScanEnds
    BY <1>4, <2>1, <2>2 DEF NextCandidate, ReadConflictsWith, ReadSupersedes, ReadReferences,
       ReadConflicts, Judge, ScanEnds, Skip, Answer
  <2>3. CASE ReadItem
    <3>1. CASE candidate.id \notin DOMAIN ledger.items
      BY <1>4, <2>1, <2>3, <3>1 DEF ReadItem, Skip
    <3>2. CASE candidate.id \in DOMAIN ledger.items
      <4>1. candidate'.item = ledger.items[candidate.id] /\ phase' = "decode" /\ UNCHANGED reply
        BY <2>3, <3>2 DEF ReadItem, CallOK
      <4>2. ledger.items[candidate.id].node \in nodes
        BY <3>2 DEF StoreOK, NodesOf
      <4>3. Gone' <=> Gone
        BY <2>1 DEF Gone
      <4>. QED
        BY <2>1, <4>1, <4>2, <4>3 DEF RaceOK, ElementsOf
    <3>. QED
      BY <3>1, <3>2
  <2>4. CASE DecodeItem
    <3>1. CASE candidate.item.node \in nodes
      BY <1>4, <2>1, <2>4, <3>1 DEF DecodeItem
    <3>2. CASE candidate.item.node \notin nodes
      <4>1. Gone
        BY <2>4, <3>2 DEF DecodeItem, Reading, RaceOK
      <4>. QED
        BY <1>4, <2>1, <2>4, <3>2, <4>1 DEF DecodeItem, Answer
    <3>. QED
      BY <3>1, <3>2
  <2>. QED
    BY <1>9, <2>2, <2>3, <2>4 DEF ContextStep
<1>10. CASE OtherConnection /\ UNCHANGED <<build, package>>
  <2>1. UNCHANGED <<phase, hits, rows, candidate, reply>>
    BY <1>10, Zenon DEF OtherConnection, package, walk
  <2>2. (Gone => Gone') /\ (~Gone' => nodes \subseteq nodes')
    BY <1>10, OthersRace
  <2>. QED
    BY <2>1, <2>2 DEF RaceOK, ElementsOf
<1>11. CASE UNCHANGED vars
  BY <1>11 DEF vars, contextVars, activationVars, stored, package, walk, RaceOK, Gone, ElementsOf
<1>. QED
  BY <1>1, <1>2, <1>3, <1>5, <1>7, <1>8, <1>9, <1>10, <1>11, Zenon DEF Next, CallStep, ActivationStep


-----------------------------------------------------------------------------
(* The forest.                                                             *)
LEMMA SameCardinality ==
  \A S : Build!Cardinality(S) = Cardinality(S)
BY Zenon DEF Build!Cardinality, Cardinality

LEMMA PositionTyped ==
  ASSUME graph.nodes \subseteq MemoryNodes, NEW n \in graph.nodes
  PROVE  Build!Position(n) \in Build!Positions
<1>. DEFINE earlier == {m \in graph.nodes : Build!Precedes(m, n)}
<1>1. IsFiniteSet(graph.nodes)
  BY NodesValid, FS_Subset, Zenon
<1>2. earlier \in SUBSET graph.nodes /\ n \notin earlier
  <2>1. Content[n] \in Nat /\ n \in Nat
    BY NodesValid
  <2>. QED
    BY <2>1 DEF Build!Precedes
<1>3. /\ IsFiniteSet(earlier) /\ Cardinality(earlier) <= Cardinality(graph.nodes)
      /\ Cardinality(graph.nodes) = Cardinality(earlier) => graph.nodes = earlier
  BY <1>1, <1>2, FS_Subset, Zenon
<1>4. Cardinality(earlier) \in Nat /\ Cardinality(graph.nodes) \in Nat
  BY <1>1, <1>3, FS_CardinalityType, Zenon
<1>5. Cardinality(earlier) # Cardinality(graph.nodes)
  BY <1>2, <1>3, Zenon
<1>6. Build!Position(n) = Cardinality(earlier) + 1
  BY SameCardinality, Zenon DEF Build!Position
<1>7. Build!Positions = 1 .. Cardinality(graph.nodes)
  BY SameCardinality, Zenon DEF Build!Positions
<1>. HIDE DEF earlier
<1>. QED
  BY <1>3, <1>4, <1>5, <1>6, <1>7

LEMMA PositionsNumbers ==
  ASSUME graph.nodes \subseteq MemoryNodes
  PROVE  Build!Positions \subseteq Nat
<1>1. IsFiniteSet(graph.nodes)
  BY NodesValid, FS_Subset, Zenon
<1>2. Cardinality(graph.nodes) \in Nat
  BY <1>1, FS_CardinalityType, Zenon
<1>3. Build!Positions = 1 .. Cardinality(graph.nodes)
  BY SameCardinality, Zenon DEF Build!Positions
<1>. QED
  BY <1>2, <1>3

LEMMA PositionsFromOne ==
  ASSUME graph.nodes \subseteq MemoryNodes, Build!Positions # {}
  PROVE  1 \in Build!Positions
<1>1. IsFiniteSet(graph.nodes)
  BY NodesValid, FS_Subset, Zenon
<1>2. Cardinality(graph.nodes) \in Nat
  BY <1>1, FS_CardinalityType, Zenon
<1>3. Build!Positions = 1 .. Cardinality(graph.nodes)
  BY SameCardinality, Zenon DEF Build!Positions
<1>. QED
  BY <1>2, <1>3

LEMMA LeadsDown ==
  ASSUME graph.nodes \subseteq MemoryNodes, parents \in [Build!Positions -> Build!Positions],
         ParentsDescend, NEW i \in Build!Positions, NEW j, Leads(i, j)
  PROVE  j \in Build!Positions /\ j <= i
<1>. DEFINE S == {k \in Build!Positions : k <= i}
<1>1. Build!Positions \subseteq Nat
  BY PositionsNumbers
<1>2. \A k \in S : parents[k] \in S
  <2>. SUFFICES ASSUME NEW k \in S PROVE parents[k] \in S
    OBVIOUS
  <2>1. parents[k] \in Build!Positions /\ parents[k] <= k
    BY DEF ParentsDescend, Build!ParentsDescend
  <2>2. i \in Nat /\ k \in Nat /\ parents[k] \in Nat
    BY <1>1, <2>1
  <2>3. parents[k] <= i
    BY <2>1, <2>2
  <2>. QED
    BY <2>1, <2>3
<1>3. i \in S
  BY <1>1
<1>4. S \in SUBSET Build!Positions
  OBVIOUS
<1>5. j \in S
  BY <1>2, <1>3, <1>4 DEF Leads
<1>. QED
  BY <1>5

(* Compression takes the path away behind the current position, never the   *)
(* rest of it.                                                             *)
LEMMA LeadsOn ==
  ASSUME parents \in [Build!Positions -> Build!Positions],
         NEW i \in Build!Positions, NEW j \in Build!Positions,
         Leads(i, j), parents[j] = j, parents[i] # i,
         UNCHANGED graph, parents' = [parents EXCEPT ![i] = j]
  PROVE  \A S \in SUBSET Build!Positions :
           parents[i] \in S /\ (\A k \in S : parents'[k] \in S) => j \in S
<1>. SUFFICES ASSUME NEW S \in SUBSET Build!Positions, parents[i] \in S,
                     \A k \in S : parents'[k] \in S
              PROVE  j \in S
  OBVIOUS
<1>. DEFINE T == S \cup {i}
<1>1. ASSUME NEW k \in T PROVE parents[k] \in T
  <2>1. CASE k = i
    BY <2>1
  <2>2. CASE k # i
    BY <2>2
  <2>. QED
    BY <2>1, <2>2
<1>2. j \in T
  <2>1. T \in SUBSET Build!Positions /\ i \in T
    OBVIOUS
  <2>2. \A k \in T : parents[k] \in T
    BY <1>1
  <2>. HIDE DEF T
  <2>. QED
    BY <2>1, <2>2, Zenon DEF Leads
<1>3. j # i
  OBVIOUS
<1>. QED
  BY <1>2, <1>3

LEMMA GraphKept ==
  ASSUME UNCHANGED graph
  PROVE  Build!Positions' = Build!Positions /\ \A n : Build!Position(n)' = Build!Position(n)
BY Zenon DEF Build!Positions, Build!Position, Build!Precedes


LEMMA FindStarts ==
  ASSUME UNCHANGED <<graph, parents>>, graph.nodes \subseteq MemoryNodes,
         NEW node \in Build!Positions, NEW for \in {"left", "right", "member"}, NEW relation,
         for \in {"left", "right"} => relation \in DOMAIN graph.weight,
         for = "right" => keptRoot' \in Build!Positions,
         Build!Find(node, for, relation)
  PROVE  /\ step' = "root" /\ climbing' = goal'.node
         /\ ({goal.node, root, climbing} \subseteq Build!Positions)'
         /\ goal'.for \in {"left", "right", "member"}
         /\ goal'.for \in {"left", "right"} => goal'.relation \in DOMAIN graph'.weight
         /\ goal'.for = "right" => keptRoot' \in Build!Positions'
         /\ Leads(climbing, root)'
<1>1. /\ step' = "root" /\ root' = node /\ climbing' = node
      /\ goal'.node = node /\ goal'.for = for /\ goal'.relation = relation
  BY DEF Build!Find
<1>2. Build!Positions' = Build!Positions
  BY GraphKept
<1>3. Leads(climbing, root)'
  BY <1>1, <1>2 DEF Leads
<1>. QED
  BY <1>1, <1>2, <1>3

LEMMA FindsKeepForest ==
  ASSUME ForestOK, Build!ClimbToRoot \/ Build!Compress
  PROVE  ForestOK'
<1>1. /\ UNCHANGED <<graph, resolution, todo, goal, keptRoot, roots>>
      /\ Finding /\ Finding' /\ step' # "idle" /\ step # "idle"
  BY DEF Build!ClimbToRoot, Build!Compress, Finding
<1>2. Build!Positions' = Build!Positions
  BY <1>1, GraphKept
<1>3. /\ {goal.node, root, climbing} \subseteq Build!Positions
      /\ parents \in [Build!Positions -> Build!Positions]
  BY <1>1 DEF ForestOK
<1>4. CASE Build!ClimbToRoot
  <2>1. UNCHANGED <<parents, climbing>> /\ step = "root"
    BY <1>4 DEF Build!ClimbToRoot
  <2>2. Leads(climbing, root) /\ climbing = goal.node
    BY <2>1 DEF ForestOK
  <2>3. CASE parents[root] # root
    <3>1. root' = parents[root] /\ step' = "root"
      BY <1>4, <2>1, <2>3 DEF Build!ClimbToRoot
    <3>2. root' \in Build!Positions
      BY <1>3, <3>1
    <3>3. Leads(climbing, root)'
      BY <1>2, <2>1, <2>2, <3>1, Zenon DEF Leads
    <3>. QED
      BY <1>1, <1>2, <2>1, <2>2, <3>1, <3>2, <3>3 DEF ForestOK, Finding, ParentsDescend, Build!ParentsDescend
  <2>4. CASE parents[root] = root
    <3>1. root' = root /\ step' = "compress"
      BY <1>4, <2>4 DEF Build!ClimbToRoot
    <3>2. Leads(climbing, root)'
      BY <1>2, <2>1, <2>2, <3>1, Zenon DEF Leads
    <3>. QED
      BY <1>1, <1>2, <2>1, <2>4, <3>1, <3>2 DEF ForestOK, Finding, ParentsDescend, Build!ParentsDescend
  <2>. QED
    BY <2>3, <2>4
<1>5. CASE Build!Compress
  <2>1. root' = root /\ step = "compress"
    BY <1>5 DEF Build!Compress
  <2>2. Leads(climbing, root) /\ parents[root] = root
    BY <2>1 DEF ForestOK
  <2>3. CASE parents[climbing] # climbing
    <3>1. /\ parents' = [parents EXCEPT ![climbing] = root] /\ climbing' = parents[climbing]
          /\ step' = "compress"
      BY <1>5, <2>1, <2>3 DEF Build!Compress
    <3>2. root <= climbing
      BY <1>3, <2>2, LeadsDown DEF ForestOK
    <3>3. parents' \in [Build!Positions -> Build!Positions] /\ climbing' \in Build!Positions
      BY <1>3, <3>1
    <3>4. ParentsDescend'
      BY <1>3, <3>1, <3>2 DEF ForestOK, ParentsDescend, Build!ParentsDescend
    <3>5. Leads(climbing, root)'
      <4>1. \A S \in SUBSET Build!Positions :
              parents[climbing] \in S /\ (\A k \in S : parents'[k] \in S) => root \in S
        BY <1>1, <1>3, <2>2, <2>3, <3>1, LeadsOn
      <4>. QED
        BY <1>2, <2>1, <3>1, <4>1, Zenon DEF Leads
    <3>6. parents'[root'] = root'
      BY <1>3, <2>1, <2>2, <3>1
    <3>. QED
      BY <1>1, <1>2, <1>3, <2>1, <3>1, <3>3, <3>4, <3>5, <3>6 DEF ForestOK, Finding
  <2>4. CASE parents[climbing] = climbing
    <3>1. UNCHANGED <<parents, climbing>> /\ step' = "found"
      BY <1>5, <2>4 DEF Build!Compress
    <3>. QED
      BY <1>1, <1>2, <2>1, <3>1 DEF ForestOK, Finding, ParentsDescend, Build!ParentsDescend
  <2>. QED
    BY <2>3, <2>4
<1>. QED
  BY <1>4, <1>5

LEMMA LoopsKeepForest ==
  ASSUME ForestOK,
         \/ \E r \in todo : Build!NextRelation(r)
         \/ Build!GroupPositions \/ Build!LeftFound \/ Build!MemberFound
  PROVE  ForestOK'
<1>1. /\ UNCHANGED <<graph, resolution, parents>> /\ step # "idle"
      /\ todo' \subseteq todo
  BY DEF Build!NextRelation, Build!GroupPositions, Build!LeftFound, Build!MemberFound
<1>2. Build!Positions' = Build!Positions
  BY <1>1, GraphKept
<1>3. graph.nodes \subseteq MemoryNodes /\ parents \in [Build!Positions -> Build!Positions]
  BY <1>1 DEF ForestOK
<1>4. ParentsDescend'
  BY <1>1 DEF ForestOK, ParentsDescend, Build!ParentsDescend
<1>5. ASSUME roots' \in [DOMAIN roots' -> Build!Positions],
             NEW node \in Build!Positions, NEW for \in {"left", "right", "member"}, NEW relation,
             for \in {"left", "right"} => relation \in DOMAIN graph.weight,
             for = "right" => keptRoot' \in Build!Positions,
             Build!Find(node, for, relation)
      PROVE  ForestOK'
  <2>1. /\ step' = "root" /\ climbing' = goal'.node
        /\ ({goal.node, root, climbing} \subseteq Build!Positions)'
        /\ goal'.for \in {"left", "right", "member"}
        /\ goal'.for \in {"left", "right"} => goal'.relation \in DOMAIN graph'.weight
        /\ goal'.for = "right" => keptRoot' \in Build!Positions'
        /\ Leads(climbing, root)'
    BY <1>1, <1>3, <1>5, FindStarts
  <2>. QED
    BY <1>1, <1>2, <1>4, <1>5, <2>1 DEF ForestOK, Finding
<1>6. ASSUME roots' \in [DOMAIN roots' -> Build!Positions], step' \in {"relation", "number"}
      PROVE  ForestOK'
  BY <1>1, <1>2, <1>4, <1>6 DEF ForestOK, Finding
<1>7. ASSUME NEW r \in todo, Build!NextRelation(r)
      PROVE  ForestOK'
  <2>1. roots' \in [DOMAIN roots' -> Build!Positions]
    BY <1>7 DEF Build!NextRelation, ForestOK
  <2>2. CASE Build!Joins(r, resolution)
    <3>1. Build!Find(Build!Position(r.source), "left", r)
      BY <1>7, <2>2, Zenon DEF Build!NextRelation
    <3>2. r \in DOMAIN graph.weight /\ r.source \in graph.nodes
      BY DEF ForestOK
    <3>3. Build!Position(r.source) \in Build!Positions
      BY <1>3, <3>2, PositionTyped
    <3>. QED
      BY <1>5, <2>1, <3>1, <3>2, <3>3
  <2>3. CASE ~Build!Joins(r, resolution)
    <3>1. step' = "relation"
      BY <1>7, <2>3 DEF Build!NextRelation
    <3>. QED
      BY <1>6, <2>1, <3>1
  <2>. QED
    BY <2>2, <2>3
<1>8. CASE Build!GroupPositions
  <2>1. roots' \in [DOMAIN roots' -> Build!Positions]
    BY <1>8 DEF Build!GroupPositions, ForestOK
  <2>2. CASE Build!Positions = {}
    BY <1>6, <1>8, <2>1, <2>2 DEF Build!GroupPositions
  <2>3. CASE Build!Positions # {}
    <3>1. Build!Find(1, "member", Build!NoRelation)
      BY <1>8, <2>3, Zenon DEF Build!GroupPositions
    <3>2. 1 \in Build!Positions
      BY <1>3, <2>3, PositionsFromOne
    <3>. QED
      BY <1>5, <2>1, <3>1, <3>2
  <2>. QED
    BY <2>2, <2>3
<1>9. CASE Build!LeftFound
  <2>1. roots' \in [DOMAIN roots' -> Build!Positions]
    BY <1>9 DEF Build!LeftFound, ForestOK
  <2>2. /\ step = "found" /\ goal.for = "left" /\ keptRoot' = root
        /\ Build!Find(Build!Position(goal.relation.target), "right", goal.relation)
    BY <1>9, Zenon DEF Build!LeftFound
  <2>3. goal.relation \in DOMAIN graph.weight /\ root \in Build!Positions
    BY <2>2 DEF ForestOK, Finding
  <2>4. goal.relation.target \in graph.nodes
    BY <2>3 DEF ForestOK
  <2>5. Build!Position(goal.relation.target) \in Build!Positions
    BY <1>3, <2>4, PositionTyped
  <2>. QED
    BY <1>5, <2>1, <2>2, <2>3, <2>5
<1>10. CASE Build!MemberFound
  <2>1. step = "found" /\ root \in Build!Positions
    BY <1>10 DEF Build!MemberFound, ForestOK, Finding
  <2>2. roots' \in [DOMAIN roots' -> Build!Positions]
    BY <1>10, <2>1 DEF Build!MemberFound, ForestOK
  <2>3. CASE goal.node + 1 \in Build!Positions
    <3>1. Build!Find(goal.node + 1, "member", Build!NoRelation)
      BY <1>10, <2>3, Zenon DEF Build!MemberFound
    <3>. QED
      BY <1>5, <2>2, <2>3, <3>1
  <2>4. CASE goal.node + 1 \notin Build!Positions
    BY <1>6, <1>10, <2>2, <2>4 DEF Build!MemberFound
  <2>. QED
    BY <2>3, <2>4
<1>. QED
  BY <1>7, <1>8, <1>9, <1>10

LEMMA MergeKeepsForest ==
  ASSUME ForestOK, Build!RightFound
  PROVE  ForestOK'
<1>1. /\ UNCHANGED <<graph, resolution, todo, goal, root, climbing, keptRoot, roots>>
      /\ step = "found" /\ step' = "relation" /\ goal.for = "right"
      /\ parents' = Build!Merged(keptRoot, root)
  BY DEF Build!RightFound
<1>2. Build!Positions' = Build!Positions
  BY <1>1, GraphKept
<1>3. /\ keptRoot \in Build!Positions /\ root \in Build!Positions
      /\ parents \in [Build!Positions -> Build!Positions]
      /\ graph.nodes \subseteq MemoryNodes
  BY <1>1 DEF ForestOK, Finding
<1>4. keptRoot \in Nat /\ root \in Nat
  BY <1>3, PositionsNumbers
<1>5. parents' \in [Build!Positions -> Build!Positions]
  BY <1>1, <1>3 DEF Build!Merged
<1>6. ParentsDescend'
  <2>1. CASE keptRoot < root
    BY <1>1, <1>3, <1>4, <2>1 DEF Build!Merged, ForestOK, ParentsDescend, Build!ParentsDescend
  <2>2. CASE ~(keptRoot < root)
    BY <1>1, <1>3, <1>4, <2>2 DEF Build!Merged, ForestOK, ParentsDescend, Build!ParentsDescend
  <2>. QED
    BY <2>1, <2>2
<1>. QED
  BY <1>1, <1>2, <1>5, <1>6 DEF ForestOK, Finding

LEMMA BeginKeepsForest ==
  ASSUME NEW kind \in {"fine", "coarse"}, Build!Begin(kind), (graph.nodes \subseteq MemoryNodes)',
         (\A r \in DOMAIN graph.weight : {r.source, r.target} \subseteq graph.nodes)'
  PROVE  ForestOK'
<1>1. parents' = [i \in Build!Positions' |-> i]
  BY Zenon DEF Build!Begin, Build!Positions
<1>2. Build!Positions' \subseteq Nat
  <2>1. IsFiniteSet(graph'.nodes)
    BY NodesValid, FS_Subset
  <2>2. Cardinality(graph'.nodes) \in Nat
    BY <2>1, FS_CardinalityType, Zenon
  <2>3. Build!Positions' = 1 .. Cardinality(graph'.nodes)
    BY SameCardinality, Zenon DEF Build!Positions
  <2>. QED
    BY <2>2, <2>3
<1>3. ParentsDescend'
  BY <1>1, <1>2 DEF ParentsDescend, Build!ParentsDescend
<1>4. step' = "relation" /\ resolution' = kind /\ todo' = DOMAIN graph'.weight /\ roots' = <<>>
  BY DEF Build!Begin
<1>5. roots' \in [DOMAIN roots' -> Build!Positions']
  BY <1>4
<1>. QED
  BY <1>1, <1>3, <1>4, <1>5 DEF ForestOK, Finding

LEMMA ForestStep ==
  ASSUME StoreOK, ForestOK, [Next]_vars
  PROVE  ForestOK'
<1>1. ASSUME UNCHANGED build PROVE ForestOK'
  <2>1. UNCHANGED <<graph, resolution, step, todo, parents, goal, root, climbing, keptRoot, roots>>
    BY <1>1 DEF build
  <2>2. Build!Positions' = Build!Positions
    BY <2>1, GraphKept
  <2>3. Leads(climbing, root)' <=> Leads(climbing, root)
    BY <2>1, <2>2, Zenon DEF Leads
  <2>. QED
    BY <2>1, <2>2, <2>3 DEF ForestOK, Finding, ParentsDescend, Build!ParentsDescend
<1>2. CASE BuildStarts
  <2>1. graph' = [nodes |-> nodes, weight |-> weight] /\ Build!Begin("fine")
    BY <1>2, Zenon DEF BuildStarts, Build!Build
  <2>2. \A r \in DOMAIN weight : r.source \in nodes /\ r.target \in nodes
    BY DEF StoreOK
  <2>3. graph'.nodes = nodes /\ graph'.weight = weight
    BY <2>1
  <2>. QED
    BY <2>1, <2>2, <2>3, BeginKeepsForest DEF StoreOK
<1>3. CASE BuildContinues
  <2>1. CASE Build!NumberGroups
    <3>1. graph' = graph
      BY <2>1, Zenon DEF Build!NumberGroups
    <3>2. CASE resolution = "fine"
      <4>1. Build!Begin("coarse")
        BY <2>1, <3>2, Zenon DEF Build!NumberGroups
      <4>. QED
        BY <3>1, <4>1, BeginKeepsForest DEF ForestOK
    <3>3. CASE resolution # "fine"
      <4>1. /\ step' = "idle" /\ resolution' = "none"
            /\ UNCHANGED <<todo, parents, goal, root, climbing, keptRoot, roots>>
        BY <2>1, <3>3, Zenon DEF Build!NumberGroups, Build!forest
      <4>2. Build!Positions' = Build!Positions
        BY <3>1, GraphKept
      <4>. QED
        BY <3>1, <4>1, <4>2 DEF ForestOK, Finding, ParentsDescend, Build!ParentsDescend
    <3>. QED
      BY <3>2, <3>3
  <2>. QED
    BY <1>3, <2>1, FindsKeepForest, LoopsKeepForest, MergeKeepsForest, Zenon DEF BuildContinues, Build!Step
<1>4. CASE BuildEnds
  BY <1>1, <1>4 DEF BuildEnds
<1>5. CASE UNCHANGED vars
  BY <1>1, <1>5 DEF vars
<1>. QED
  BY <1>1, <1>2, <1>3, <1>4, <1>5, Zenon DEF Next, CallStep

LEMMA ForestInit ==
  ASSUME Init
  PROVE  ForestOK
<1>1. /\ graph = Build!NoGraph /\ resolution = "none" /\ step = "idle" /\ todo = {}
      /\ parents = <<>> /\ roots = <<>>
  BY Zenon DEF Init, Build!Init
<1>2. graph.nodes = {} /\ DOMAIN graph.weight = {}
  BY <1>1 DEF Build!NoGraph
<1>3. ParentsDescend
  BY <1>1 DEF ParentsDescend, Build!ParentsDescend
<1>4. roots \in [DOMAIN roots -> Build!Positions]
  BY <1>1
<1>. QED
  BY <1>1, <1>2, <1>3, <1>4 DEF ForestOK, Finding



-----------------------------------------------------------------------------
(* Budgets.                                                                *)
LEMMA SeedsCounted ==
  ASSUME seeds \in Seq(Seed), \A i, j \in DOMAIN seeds : seeds[i].node = seeds[j].node => i = j
  PROVE  IsFiniteSet(SeedNodes) /\ Cardinality(SeedNodes) = Len(seeds)
<1>. DEFINE f == [i \in 1 .. Len(seeds) |-> seeds[i].node]
<1>1. Len(seeds) \in Nat /\ DOMAIN seeds = 1 .. Len(seeds)
  OBVIOUS
<1>2. \A n \in Nat : IsFiniteSet(1 .. n) /\ Cardinality(1 .. n) = n
  <2>. SUFFICES ASSUME NEW n \in Nat PROVE IsFiniteSet(1 .. n) /\ Cardinality(1 .. n) = n
    OBVIOUS
  <2>. QED
    BY FS_Interval
<1>3. f \in [1 .. Len(seeds) -> SeedNodes]
  BY <1>1 DEF SeedNodes
<1>4. f \in Surjection(1 .. Len(seeds), SeedNodes)
  BY <1>1, <1>3 DEF Surjection, SeedNodes
<1>5. f \in Injection(1 .. Len(seeds), SeedNodes)
  <2>1. \A i, j \in 1 .. Len(seeds) : f[i] = f[j] => i = j
    BY <1>1
  <2>. QED
    BY <1>3, <2>1 DEF Injection, IsInjective
<1>6. IsFiniteSet(1 .. Len(seeds)) /\ Cardinality(1 .. Len(seeds)) = Len(seeds)
  BY <1>1, <1>2, Zenon
<1>. HIDE DEF f
<1>7. /\ IsFiniteSet(SeedNodes)
      /\ Cardinality(SeedNodes) = Cardinality(1 .. Len(seeds)) <=> f \in Injection(1 .. Len(seeds), SeedNodes)
  BY <1>4, <1>6, FS_Surjection
<1>. QED
  BY <1>5, <1>6, <1>7

LEMMA CountsKept ==
  ASSUME NEW s \in Counts
  PROVE  /\ [s EXCEPT !.visitedEdges = s.visitedEdges + 1] \in Counts
         /\ [s EXCEPT !.adjacencyQueries = @ + 1] \in Counts
         /\ [s EXCEPT !.seedReads = @ + 1, !.visitedNodes = @ + 1] \in Counts
         /\ [s EXCEPT !.visitedEdges = s.visitedEdges + 1, !.visitedNodes = @ + 1, !.nodeReads = @ + 1] \in Counts
<1>1. \A n \in Nat, t \in Counts :
        /\ [t EXCEPT !.visitedNodes = n] \in Counts /\ [t EXCEPT !.visitedEdges = n] \in Counts
        /\ [t EXCEPT !.adjacencyQueries = n] \in Counts /\ [t EXCEPT !.nodeReads = n] \in Counts
        /\ [t EXCEPT !.seedReads = n] \in Counts
  BY DEF Counts
<1>2. /\ s.visitedNodes + 1 \in Nat /\ s.visitedEdges + 1 \in Nat /\ s.adjacencyQueries + 1 \in Nat
      /\ s.seedReads + 1 \in Nat /\ s.nodeReads + 1 \in Nat
  BY DEF Counts
<1>. QED
  BY <1>1, <1>2, Zenon

(* What does not touch the walk.                                           *)
LEMMA BudgetKept ==
  ASSUME BudgetOK, UNCHANGED <<call, stats, hits, seeds, walk>>,
         \/ phase' = phase
         \/ phase = "build" /\ phase' = "seed_query"
         \/ phase' \in {"candidate", "item", "decode", "conflicts_with", "supersedes", "conflicts",
                         "superseded", "done"}
  PROVE  BudgetOK'
BY DEF BudgetOK, SeedLimit, walk

LEMMA SeedingKeepsBudget ==
  ASSUME StoreOK, CallOK, BudgetOK, SeedQuery \/ SeedRead
  PROVE  BudgetOK'
<1>1. /\ UNCHANGED <<call, walk>> /\ visited = {} /\ queue = <<>> /\ candidates = Nothing
      /\ visited' = {} /\ queue' = <<>> /\ candidates' = Nothing
      /\ stats.visitedEdges = 0 /\ stats.adjacencyQueries = 0 /\ stats.nodeReads = 0
      /\ stats.visitedNodes = Len(seeds) /\ stats \in Counts
  BY DEF SeedQuery, SeedRead, walk, BudgetOK
<1>2. SeedLimit' = SeedLimit /\ SeedLimit \in Nat
      /\ (call.kind # "search" => SeedLimit <= call.maxNodes)
      /\ call.maxEdges \in Nat /\ call.maxEdges > 0
  <2>1. /\ {call.limit, call.seedLimit, call.maxNodes, call.maxEdges} \subseteq Nat \ {0}
        /\ call' = call
    BY <1>1, CallFields
  <2>. QED
    BY <2>1 DEF SeedLimit, Least
<1>3. hits \in Seq(MemoryNodes) /\ seeds \in Seq(Seed)
  BY DEF CallOK
<1>4. CASE SeedQuery
  <2>1. hits' = SearchTerms(SeedLimit) /\ phase' = "seed_read" /\ UNCHANGED <<seeds, stats>>
    BY <1>4 DEF SeedQuery, SeedLimit
  <2>2. seeds = <<>> /\ stats = NoStats
    BY <1>4 DEF SeedQuery, BudgetOK
  <2>3. /\ hits' \in Seq(MemoryNodes) /\ Len(hits') <= SeedLimit
        /\ \A i, j \in DOMAIN hits' : hits'[i] = hits'[j] => i = j
    BY <1>2, <2>1, HitsFound, Zenon
  <2>. QED
    BY <1>1, <1>2, <2>1, <2>2, <2>3 DEF BudgetOK, Nothing, Counts
<1>5. CASE SeedRead
  <2>1. CASE Head(hits) \in nodes
    <3>. DEFINE seed == [node |-> Head(hits), score |-> call.matches[Head(hits)] * Scale]
    <3>1. /\ seeds' = Append(seeds, seed) /\ hits' = Tail(hits) /\ hits # <<>>
          /\ stats' = [stats EXCEPT !.seedReads = @ + 1, !.visitedNodes = @ + 1]
          /\ phase' = "seed_read" /\ phase = "seed_read"
      BY <1>5, <2>1, Zenon DEF SeedRead
    <3>2. seed.node = hits[1]
      BY <1>3, <3>1
    <3>. HIDE DEF seed
    <3>3. /\ Len(seeds') = Len(seeds) + 1 /\ Len(hits') = Len(hits) - 1 /\ Len(hits) \in Nat \ {0}
          /\ \A i \in DOMAIN seeds' :
               \/ i \in DOMAIN seeds /\ seeds'[i] = seeds[i]
               \/ i = Len(seeds) + 1 /\ seeds'[i] = seed
          /\ \A j \in DOMAIN hits' : j + 1 \in DOMAIN hits /\ hits'[j] = hits[j + 1] /\ j + 1 # 1 /\ j \in Nat
          /\ 1 \in DOMAIN hits
      BY <1>3, <3>1
    <3>4. \A i, j \in DOMAIN hits' : hits'[i] = hits'[j] => i = j
      <4>1. \A i, j \in DOMAIN hits : hits[i] = hits[j] => i = j
        BY DEF BudgetOK
      <4>. QED
        BY <3>3, <4>1
    <3>5. \A i, j \in DOMAIN seeds' : seeds'[i].node = seeds'[j].node => i = j
      <4>1. /\ \A i, j \in DOMAIN seeds : seeds[i].node = seeds[j].node => i = j
            /\ \A i \in DOMAIN seeds, j \in DOMAIN hits : seeds[i].node # hits[j]
        BY DEF BudgetOK
      <4>2. \A i \in DOMAIN seeds : seeds[i].node # seed.node
        BY <3>2, <3>3, <4>1
      <4>. QED
        BY <3>3, <4>1, <4>2, Zenon
    <3>6. \A i \in DOMAIN seeds', j \in DOMAIN hits' : seeds'[i].node # hits'[j]
      <4>1. /\ \A i, j \in DOMAIN hits : hits[i] = hits[j] => i = j
            /\ \A i \in DOMAIN seeds, j \in DOMAIN hits : seeds[i].node # hits[j]
        BY DEF BudgetOK
      <4>2. \A j \in DOMAIN hits' : seed.node # hits'[j]
        BY <3>2, <3>3, <4>1
      <4>3. ASSUME NEW i \in DOMAIN seeds, NEW j \in DOMAIN hits'
            PROVE  seeds[i].node # hits'[j]
        BY <3>3, <4>1
      <4>. QED
        BY <3>3, <4>2, <4>3, Zenon
    <3>7. Len(seeds) + Len(hits) <= SeedLimit /\ Len(seeds) \in Nat
      BY <1>3, <3>1 DEF BudgetOK
    <3>8. Len(seeds') + Len(hits') <= SeedLimit /\ Len(seeds') <= SeedLimit
      BY <1>2, <3>3, <3>7
    <3>9. /\ stats' \in Counts /\ stats'.visitedEdges = 0 /\ stats'.adjacencyQueries = 0
          /\ stats'.nodeReads = 0 /\ stats'.visitedNodes = Len(seeds')
      <4>1. stats' \in Counts
        BY <1>1, <3>1, CountsKept, Zenon
      <4>2. /\ stats'.visitedNodes = stats.visitedNodes + 1 /\ stats'.visitedEdges = stats.visitedEdges
            /\ stats'.adjacencyQueries = stats.adjacencyQueries /\ stats'.nodeReads = stats.nodeReads
        BY <1>1, <3>1 DEF Counts
      <4>. QED
        BY <1>1, <3>3, <4>1, <4>2
    <3>10. call.kind # "search" => stats'.visitedNodes <= call.maxNodes
      BY <1>2, <3>8, <3>9, CallFields
    <3>. QED
      BY <1>1, <1>2, <3>1, <3>4, <3>5, <3>6, <3>7, <3>8, <3>9, <3>10, <3>3 DEF BudgetOK, Nothing
  <2>2. CASE Head(hits) \notin nodes
    BY <1>1, <1>5, <2>2, BudgetKept DEF SeedRead, Answer
  <2>. QED
    BY <2>1, <2>2
<1>. QED
  BY <1>4, <1>5

LEMMA StartKeepsBudget ==
  ASSUME StoreOK, CallOK, BudgetOK, StartWalk, phase = "seed_read", call.kind # "search",
         UNCHANGED <<call, hits, seeds, stats>>
  PROVE  BudgetOK'
<1>1. seeds \in Seq(Seed)
  BY DEF CallOK
<1>2. CASE seeds = <<>>
  BY <1>2, BudgetKept DEF StartWalk, ReportDone, Answer
<1>3. CASE seeds # <<>>
  <2>. DEFINE path(i) == [node |-> seeds[i].node, seed |-> seeds[i].node,
                          prop |-> seeds[i].score, steps |-> <<>>]
              first(n) == [score |-> seeds[CHOOSE j \in DOMAIN seeds : seeds[j].node = n].score * ImportanceFactor(n),
                           seed |-> n, steps |-> <<>>]
  <2>1. /\ phase' = "next" /\ visited' = SeedNodes
        /\ queue' = [i \in DOMAIN seeds |-> path(i)]
        /\ candidates' = Nothing \/ candidates' = [n \in SeedNodes |-> first(n)]
    BY <1>3, Zenon DEF StartWalk
  <2>2. \A n : first(n).steps = <<>>
    OBVIOUS
  <2>. HIDE DEF path, first
  <2>3. Len(queue') = Len(seeds) /\ Len(seeds) \in Nat
    BY <1>1, <2>1
  <2>4. \A n \in DOMAIN candidates' : Len(candidates'[n].steps) = 0
    BY <2>1, <2>2 DEF Nothing
  <2>5. IsFiniteSet(SeedNodes) /\ Cardinality(SeedNodes) = Len(seeds)
    BY <1>1, SeedsCounted DEF BudgetOK
  <2>6. visited' # {}
    <3>1. seeds[1].node \in SeedNodes
      BY <1>1, <1>3 DEF SeedNodes
    <3>. QED
      BY <2>1, <3>1
  <2>7. /\ stats.visitedNodes = Len(seeds) /\ stats.visitedEdges = 0
        /\ stats.adjacencyQueries = 0 /\ stats.nodeReads = 0
    BY DEF BudgetOK
  <2>8. IsFiniteSet(visited') /\ Cardinality(visited') = Len(seeds)
    BY <2>1, <2>5
  <2>9. call.hops \in Nat
    BY CallFields
  <2>10. SeedLimit' = SeedLimit
    BY DEF SeedLimit
  <2>. QED
    BY <2>1, <2>3, <2>4, <2>6, <2>7, <2>8, <2>9, <2>10 DEF BudgetOK
<1>. QED
  BY <1>2, <1>3


(* A relation that is considered counts as one edge, and extends the queue  *)
(* and the paths by at most one.                                            *)
LEMMA EdgeKeepsBudget ==
  ASSUME CallOK, BudgetOK, phase = "admit", NEW row,
         UNCHANGED <<call, hits, seeds, current>>,
         stats' \in Counts, stats'.visitedEdges = stats.visitedEdges + 1,
         stats'.adjacencyQueries = stats.adjacencyQueries,
         phase' \in {"next", "admit", "done"}, phase' = "admit" => EdgeLeft(Edges),
         queue' \in Seq(Path), Len(queue') <= Len(queue) + 1,
         \A n \in DOMAIN candidates' :
           \/ n \in DOMAIN candidates /\ candidates'[n] = candidates[n]
           \/ candidates'[n].steps = Append(current.steps, row),
         \/ UNCHANGED visited /\ stats'.visitedNodes = stats.visitedNodes
              /\ stats'.nodeReads = stats.nodeReads
         \/ /\ visited' = visited \cup {row.target} /\ row.target \notin visited
            /\ stats.visitedNodes # call.maxNodes
            /\ stats'.visitedNodes = stats.visitedNodes + 1
            /\ stats'.nodeReads = stats.nodeReads + 1
  PROVE  BudgetOK'
<1>1. /\ stats.visitedEdges < call.maxEdges /\ Len(current.steps) < call.hops
      /\ visited # {} /\ call.kind # "search" /\ stats.visitedNodes <= call.maxNodes
      /\ IsFiniteSet(visited) /\ Cardinality(visited) = stats.visitedNodes
      /\ stats.nodeReads = stats.visitedNodes - Len(seeds)
  BY DEF BudgetOK
<1>2. /\ stats.visitedEdges \in Nat /\ stats.visitedNodes \in Nat /\ stats.adjacencyQueries \in Nat
      /\ stats.nodeReads \in Nat
  BY DEF BudgetOK, Counts
<1>3. call.hops \in Nat /\ call.maxEdges \in Nat /\ call.maxNodes \in Nat
  BY CallFields
<1>4. current.steps \in Seq(Row) /\ Len(queue) \in Nat /\ Len(queue') \in Nat /\ Len(seeds) \in Nat
  BY DEF CallOK, Path
<1>5. \A n \in DOMAIN candidates' : Len(candidates'[n].steps) <= call.hops
  <2>1. Len(Append(current.steps, row)) = Len(current.steps) + 1 /\ Len(current.steps) \in Nat
    BY <1>4
  <2>2. \A n \in DOMAIN candidates : Len(candidates[n].steps) <= call.hops
    BY DEF BudgetOK
  <2>. QED
    BY <1>1, <1>3, <2>1, <2>2
<1>6. /\ visited' # {} /\ IsFiniteSet(visited') /\ Cardinality(visited') = stats'.visitedNodes
      /\ stats'.nodeReads = stats'.visitedNodes - Len(seeds)
      /\ stats'.visitedNodes <= call.maxNodes
  <2>1. CASE UNCHANGED visited /\ stats'.visitedNodes = stats.visitedNodes
               /\ stats'.nodeReads = stats.nodeReads
    BY <1>1, <2>1
  <2>2. CASE /\ visited' = visited \cup {row.target} /\ row.target \notin visited
             /\ stats.visitedNodes # call.maxNodes
             /\ stats'.visitedNodes = stats.visitedNodes + 1
             /\ stats'.nodeReads = stats.nodeReads + 1
    <3>1. IsFiniteSet(visited') /\ Cardinality(visited') = Cardinality(visited) + 1
      BY <1>1, <2>2, FS_AddElement
    <3>2. visited' # {} /\ Cardinality(visited') = stats'.visitedNodes
      BY <1>1, <2>2, <3>1
    <3>3. stats'.nodeReads = stats'.visitedNodes - Len(seeds)
      BY <1>1, <1>2, <1>4, <2>2
    <3>4. stats'.visitedNodes <= call.maxNodes
      BY <1>1, <1>2, <1>3, <2>2
    <3>. QED
      BY <3>1, <3>2, <3>3, <3>4
  <2>. QED
    BY <2>1, <2>2
<1>7. stats'.adjacencyQueries + Len(queue') <= Len(seeds) + stats'.visitedEdges
  <2>1. stats.adjacencyQueries + Len(queue) <= Len(seeds) + stats.visitedEdges
    BY DEF BudgetOK
  <2>2. \A a, e, q, p, d \in Nat : a + q <= d + e /\ p <= q + 1 => a + p <= d + (e + 1)
    OBVIOUS
  <2>. QED
    BY <1>2, <1>4, <2>1, <2>2, Zenon
<1>8. stats'.visitedEdges <= call.maxEdges
  <2>1. \A e, m \in Nat : e < m => e + 1 <= m
    OBVIOUS
  <2>. QED
    BY <1>1, <1>2, <1>3, <2>1, Zenon
<1>9. phase' = "admit" => stats'.visitedEdges < call.maxEdges
  BY DEF EdgeLeft, Edges
<1>10. SeedLimit' = SeedLimit
  BY DEF SeedLimit
<1>. QED
  BY <1>1, <1>5, <1>6, <1>7, <1>8, <1>9, <1>10 DEF BudgetOK

LEMMA WalkingKeepsBudget ==
  ASSUME StoreOK, CallOK, BudgetOK,
         NextPath \/ CycleClosed \/ NodeBudgetSpent \/ TargetVisited \/ TargetRevisited
  PROVE  BudgetOK'
<1>1. /\ stats.visitedEdges \in Nat /\ stats.visitedNodes \in Nat /\ stats.adjacencyQueries \in Nat
      /\ stats.nodeReads \in Nat /\ stats \in Counts
  BY DEF BudgetOK, Counts
<1>2. queue \in Seq(Path)
  BY DEF CallOK
<1>3. CASE NextPath
  <2>1. /\ UNCHANGED <<call, hits, seeds, visited, candidates>> /\ phase = "next"
        /\ queue' = Tail(queue) /\ current' = Head(queue) /\ queue # <<>>
    BY <1>3 DEF NextPath
  <2>2. /\ visited # {} /\ call.kind # "search" /\ SeedLimit' = SeedLimit
        /\ stats.adjacencyQueries + Len(queue) <= Len(seeds) + stats.visitedEdges
        /\ Len(queue') = Len(queue) - 1 /\ Len(queue) \in Nat /\ Len(seeds) \in Nat
    BY <1>2, <2>1 DEF BudgetOK, SeedLimit, CallOK
  <2>3. CASE Exhausted(Head(queue))
    <3>1. UNCHANGED <<phase, stats>>
      BY <1>3, <2>3 DEF NextPath
    <3>2. stats.adjacencyQueries + Len(queue') <= Len(seeds) + stats.visitedEdges
      <4>1. \A a, e, q, d \in Nat : a + q <= d + e => a + (q - 1) <= d + e
        OBVIOUS
      <4>. QED
        BY <1>1, <2>2, <4>1, Zenon
    <3>. QED
      BY <2>1, <2>2, <3>1, <3>2 DEF BudgetOK
  <2>4. CASE ~Exhausted(Head(queue))
    <3>1. phase' \in {"next", "admit"} /\ stats' = [stats EXCEPT !.adjacencyQueries = @ + 1]
      BY <1>3, <2>4 DEF NextPath
    <3>2. stats' \in Counts
      BY <1>1, <3>1, CountsKept, Zenon
    <3>3. /\ stats'.visitedNodes = stats.visitedNodes /\ stats'.visitedEdges = stats.visitedEdges
          /\ stats'.adjacencyQueries = stats.adjacencyQueries + 1 /\ stats'.nodeReads = stats.nodeReads
      BY <1>1, <3>1 DEF Counts
    <3>4. stats.visitedEdges < call.maxEdges /\ Len(Head(queue).steps) < call.hops
      <4>1. Head(queue).steps \in Seq(Row)
        <5>1. Head(queue) \in Path
          BY <1>2, <2>1
        <5>. QED
          BY <5>1 DEF Path
      <4>2. Len(Head(queue).steps) \in Nat /\ call.hops \in Nat /\ call.maxEdges \in Nat
        BY <4>1, CallFields
      <4>. QED
        BY <1>1, <2>4, <4>2 DEF Exhausted
    <3>5. stats'.adjacencyQueries + Len(queue') <= Len(seeds) + stats'.visitedEdges
      BY <1>1, <2>2, <3>3
    <3>. QED
      BY <2>1, <2>2, <3>1, <3>2, <3>3, <3>4, <3>5 DEF BudgetOK
  <2>. QED
    BY <2>3, <2>4
<1>4. ASSUME stats' = [stats EXCEPT !.visitedEdges = Edges]
      PROVE  /\ stats' \in Counts /\ stats'.visitedEdges = stats.visitedEdges + 1
             /\ stats'.adjacencyQueries = stats.adjacencyQueries
             /\ stats'.visitedNodes = stats.visitedNodes /\ stats'.nodeReads = stats.nodeReads
  <2>1. stats' \in Counts
    BY <1>1, <1>4, CountsKept, Zenon DEF Edges
  <2>. QED
    BY <1>1, <1>4, <2>1 DEF Counts, Edges
<1>5. CASE CycleClosed
  <2>1. PICK row \in ElementsOf(rows) : Considering(row) /\ Continue(Edges)
    BY <1>5 DEF CycleClosed
  <2>2. row \in Row /\ rows \in Seq(Row) /\ rows # <<>>
    BY <2>1, HeadOfRows
  <2>3. phase' \in {"next", "admit"} /\ (phase' = "admit" => EdgeLeft(Edges))
    BY <2>1, <2>2, Continuing
  <2>4. phase = "admit" /\ UNCHANGED <<call, hits, seeds, current, visited, queue, candidates>>
        /\ stats' = [stats EXCEPT !.visitedEdges = Edges]
    BY <1>5, <2>1 DEF CycleClosed, Considering
  <2>. QED
    BY <1>2, <1>4, <2>3, <2>4, EdgeKeepsBudget
<1>6. CASE NodeBudgetSpent
  <2>1. phase = "admit" /\ UNCHANGED <<call, hits, seeds, current, visited, queue, candidates>>
        /\ stats' = [stats EXCEPT !.visitedEdges = Edges] /\ phase' = "next"
    BY <1>6 DEF NodeBudgetSpent, Considering
  <2>. QED
    BY <1>2, <1>4, <2>1, EdgeKeepsBudget
<1>7. CASE TargetRevisited
  <2>1. PICK row \in ElementsOf(rows) :
          /\ Considering(row) /\ Continue(Edges) /\ Extend(row, row.target)
          /\ stats' = [stats EXCEPT !.visitedEdges = Edges] /\ UNCHANGED visited
    BY <1>7, Zenon DEF TargetRevisited
  <2>2. row \in Row /\ rows \in Seq(Row) /\ rows # <<>> /\ current \in Path
    BY <2>1, HeadOfRows
  <2>3. phase' \in {"next", "admit"} /\ (phase' = "admit" => EdgeLeft(Edges))
    BY <2>1, <2>2, Continuing
  <2>4. phase = "admit" /\ UNCHANGED <<call, hits, seeds, current, visited>>
    BY <2>1 DEF Considering
  <2>5. /\ queue' \in Seq(Path) /\ Len(queue') <= Len(queue) + 1
        /\ \A n \in DOMAIN candidates' :
             \/ n \in DOMAIN candidates /\ candidates'[n] = candidates[n]
             \/ candidates'[n].steps = Append(current.steps, row)
    BY <2>1, <2>2, Extending
  <2>. QED
    BY <1>4, <2>1, <2>3, <2>4, <2>5, EdgeKeepsBudget
<1>8. CASE TargetVisited
  <2>1. PICK row \in ElementsOf(rows) :
          /\ Considering(row) /\ row.target \notin visited /\ stats.visitedNodes # call.maxNodes
          /\ visited' = visited \cup {row.target}
          /\ stats' = [stats EXCEPT !.visitedEdges = Edges, !.visitedNodes = @ + 1, !.nodeReads = @ + 1]
          /\ IF row.target \in nodes
             THEN Continue(Edges) /\ Extend(row, row.target) /\ UNCHANGED reply
             ELSE Answer("InvalidDatabase") /\ UNCHANGED <<rows, queue, best, candidates>>
    BY <1>8, Zenon DEF TargetVisited
  <2>2. row \in Row /\ rows \in Seq(Row) /\ rows # <<>> /\ current \in Path
    BY <2>1, HeadOfRows
  <2>3. phase = "admit" /\ UNCHANGED <<call, hits, seeds, current>>
    BY <2>1 DEF Considering
  <2>4. stats' \in Counts
    BY <1>1, <2>1, CountsKept, Zenon DEF Edges
  <2>5. /\ stats'.visitedEdges = stats.visitedEdges + 1
        /\ stats'.adjacencyQueries = stats.adjacencyQueries
        /\ stats'.visitedNodes = stats.visitedNodes + 1 /\ stats'.nodeReads = stats.nodeReads + 1
    BY <1>1, <2>1 DEF Counts, Edges
  <2>6. /\ phase' \in {"next", "admit", "done"} /\ (phase' = "admit" => EdgeLeft(Edges))
        /\ queue' \in Seq(Path) /\ Len(queue') <= Len(queue) + 1
        /\ \A n \in DOMAIN candidates' :
             \/ n \in DOMAIN candidates /\ candidates'[n] = candidates[n]
             \/ candidates'[n].steps = Append(current.steps, row)
    <3>1. CASE row.target \in nodes
      <4>1. phase' \in {"next", "admit"} /\ (phase' = "admit" => EdgeLeft(Edges))
        BY <2>1, <2>2, <3>1, Continuing
      <4>2. /\ queue' \in Seq(Path) /\ Len(queue') <= Len(queue) + 1
            /\ \A n \in DOMAIN candidates' :
                 \/ n \in DOMAIN candidates /\ candidates'[n] = candidates[n]
                 \/ candidates'[n].steps = Append(current.steps, row)
        BY <2>1, <2>2, <3>1, Extending
      <4>. QED
        BY <4>1, <4>2
    <3>2. CASE row.target \notin nodes
      BY <1>2, <2>1, <3>2 DEF Answer
    <3>. QED
      BY <3>1, <3>2
  <2>. QED
    BY <2>1, <2>3, <2>4, <2>5, <2>6, EdgeKeepsBudget
<1>. QED
  BY <1>3, <1>5, <1>6, <1>7, <1>8

LEMMA BudgetStep ==
  ASSUME StoreOK, CallOK, BudgetOK, [Next]_vars
  PROVE  BudgetOK'
<1>1. CASE BuildStarts \/ BuildContinues \/ BuildEnds
  BY <1>1, BudgetKept DEF BuildStarts, BuildContinues, BuildEnds, BuildUnchanged
<1>2. CASE SeedQuery \/ SeedRead
  BY <1>2, SeedingKeepsBudget
<1>3. CASE SearchFound
  BY <1>3, BudgetKept DEF SearchFound, Answer
<1>4. CASE SeedsFound
  BY <1>4, StartKeepsBudget DEF SeedsFound
<1>5. CASE RoutingIndex
  <2>1. CASE revision # 0
    BY <1>5, <2>1, BudgetKept DEF RoutingIndex, Answer
  <2>2. CASE revision = 0
    BY <1>5, <2>2, StartKeepsBudget DEF RoutingIndex
  <2>. QED
    BY <2>1, <2>2
<1>6. CASE NextPath \/ CycleClosed \/ NodeBudgetSpent \/ TargetVisited \/ TargetRevisited
  BY <1>6, WalkingKeepsBudget
<1>7. CASE FinishActivation
  BY <1>7, BudgetKept DEF FinishActivation, ReportDone, Answer
<1>8. CASE ContextStep
  <2>1. UNCHANGED <<call, stats, hits, seeds, walk>>
    BY <1>8, Assembles DEF Read
  <2>2. phase' \in {"candidate", "item", "decode", "conflicts_with", "supersedes", "conflicts",
                         "superseded", "done"}
    BY <1>8, Assembles DEF Read
  <2>. QED
    BY <2>1, <2>2, BudgetKept
<1>9. CASE OtherConnection
  BY <1>9, BudgetKept, Zenon DEF OtherConnection
<1>10. CASE UNCHANGED vars
  <2>1. UNCHANGED <<call, stats, hits, seeds, walk>> /\ phase' = phase
    BY <1>10, Zenon DEF vars, contextVars, activationVars
  <2>. QED
    BY <2>1, BudgetKept
<1>. QED
  BY <1>1, <1>2, <1>3, <1>4, <1>5, <1>6, <1>7, <1>8, <1>9, <1>10, Zenon DEF Next, CallStep, ActivationStep



-----------------------------------------------------------------------------
(* The invariant, and what it comes to.                                    *)
LEMMA InvariantInit ==
  ASSUME Init
  PROVE  RetrievalInv
<1>1. /\ phase = IF call.kind = "community" THEN "build" ELSE "seed_query"
      /\ revision = 0 /\ began = 0 /\ rolledBack = 0 /\ hits = <<>> /\ seeds = <<>> /\ stats = NoStats
      /\ visited = {} /\ queue = <<>> /\ candidates = Nothing /\ reply = "none"
      /\ candidate = NoCandidate /\ admitted = <<>>
  BY Zenon DEF Init, ContextInit, ActivationInit
<1>2. phase \in {"build", "seed_query"}
  BY <1>1
<1>3. Valid(call)
  BY CallsValid, Zenon DEF Init, ContextInit, ActivationInit
<1>4. CallOK
  BY <1>1, <1>2, <1>3 DEF CallOK, Phases, Answers, Reached, Nothing, NoCandidate, Candidate
<1>5. RaceOK
  BY <1>1, <1>2 DEF RaceOK, ElementsOf
<1>7. BudgetOK
  <2>1. call.maxEdges \in Nat /\ call.maxNodes \in Nat /\ SeedLimit \in Nat
    <3>1. {call.limit, call.seedLimit, call.maxNodes, call.maxEdges} \subseteq Nat
      BY <1>4, CallFields
    <3>. QED
      BY <3>1 DEF SeedLimit, Least
  <2>2. stats \in Counts
    BY <1>1 DEF NoStats, Counts
  <2>. QED
    BY <1>1, <1>2, <2>1, <2>2 DEF BudgetOK, NoStats, Nothing
<1>. QED
  BY <1>4, <1>5, <1>7, StoreInit, ForestInit DEF RetrievalInv

(* The parts of the invariant hold together: what a call keeps is typed,   *)
(* the rows it is going to read are there unless a bundle was rolled back, *)
(* and its counts are those of its seeds, queue and visited nodes.         *)
THEOREM RetrievalInvariant == Spec => []RetrievalInv
<1>1. Init => RetrievalInv
  BY InvariantInit
<1>2. RetrievalInv /\ [Next]_vars => RetrievalInv'
  <2>. SUFFICES ASSUME StoreOK, CallOK, ForestOK, RaceOK, BudgetOK, [Next]_vars
                PROVE  RetrievalInv'
    BY DEF RetrievalInv
  <2>1. stats.visitedEdges \in Nat /\ stats.visitedEdges <= call.maxEdges
    BY DEF BudgetOK, Counts
  <2>2. StoreOK' /\ ForestOK'
    BY StoreStep, ForestStep
  <2>3. CallOK' /\ RaceOK'
    BY <2>1, CallStepTyped, RaceStep
  <2>4. BudgetOK'
    BY BudgetStep
  <2>. QED
    BY <2>2, <2>3, <2>4 DEF RetrievalInv
<1>. QED
  BY <1>1, <1>2, PTL DEF Spec

(* What is stored, what a call keeps and where it stands have their types,  *)
(* for every database, call and interleaving: the foreign keys hold, seeds  *)
(* and candidates are nodes, and a call is done exactly when it answers.    *)
THEOREM RetrievalTyped == Spec => []TypeOK
<1>1. RetrievalInv => TypeOK
  <2>. SUFFICES ASSUME StoreOK, CallOK, ForestOK PROVE TypeOK
    BY DEF RetrievalInv
  <2>1. Build!TypeOK
    BY Zenon DEF ForestOK, Build!TypeOK
  <2>2. \A r \in DOMAIN weight : {r.source, r.target} \subseteq nodes /\ weight[r] \in 0 .. Unit
    BY DEF StoreOK
  <2>3. SeedNodes \subseteq MemoryNodes
    <3>1. \A i \in DOMAIN seeds : seeds[i] \in Seed
      BY DEF CallOK
    <3>. QED
      BY <3>1 DEF SeedNodes, Seed
  <2>4. nodes \subseteq MemoryNodes /\ candidate.item \in Item \cup {NoItem}
    BY DEF StoreOK, CallOK
  <2>. QED
    BY <2>1, <2>2, <2>3, <2>4 DEF StoreOK, CallOK, Reached, Phases, TypeOK
<1>. QED
  BY <1>1, RetrievalInvariant, PTL

(* A call reports an invalid database only if another connection rolled a   *)
(* bundle back after the call's first read.                                 *)
THEOREM CorruptionIsARace == Spec => []OnlyRacesLookCorrupt
<1>1. RetrievalInv => OnlyRacesLookCorrupt
  BY DEF RetrievalInv, RaceOK, Gone, OnlyRacesLookCorrupt
<1>. QED
  BY <1>1, RetrievalInvariant, PTL

(* In every forest no parent comes after its child, so that both loops of   *)
(* find end.                                                                *)
THEOREM ForestsDescend == Spec => []ParentsDescend
<1>1. RetrievalInv => ParentsDescend
  BY DEF RetrievalInv, ForestOK
<1>. QED
  BY <1>1, RetrievalInvariant, PTL

(* No call passes its edge, node, hop or seed budget, however they interact *)
(* and whatever is committed meanwhile, and its statistics count the nodes  *)
(* it visited and read.                                                     *)
THEOREM BudgetsKept == Spec => []WorkWithinBudgets
<1>1. RetrievalInv => WorkWithinBudgets
  <2>. SUFFICES ASSUME CallOK, BudgetOK PROVE WorkWithinBudgets
    BY DEF RetrievalInv
  <2>1. seeds \in Seq(Seed) /\ queue \in Seq(Path)
    BY DEF CallOK
  <2>2. Len(seeds) \in Nat /\ Len(queue) \in Nat
    BY <2>1
  <2>3. call.kind # "search" => Len(seeds) <= call.seedLimit
    <3>1. call.seedLimit \in Nat /\ call.maxNodes \in Nat
      BY CallFields
    <3>. QED
      BY <2>2, <3>1 DEF BudgetOK, SeedLimit, Least
  <2>4. stats.adjacencyQueries <= Len(seeds) + stats.visitedEdges
    <3>1. stats.adjacencyQueries \in Nat /\ stats.visitedEdges \in Nat
      BY DEF BudgetOK, Counts
    <3>2. stats.adjacencyQueries + Len(queue) <= Len(seeds) + stats.visitedEdges
      BY DEF BudgetOK
    <3>3. \A a, q, d, e \in Nat : a + q <= d + e => a <= d + e
      OBVIOUS
    <3>. QED
      BY <2>2, <3>1, <3>2, <3>3, Zenon
  <2>. QED
    BY <2>3, <2>4 DEF BudgetOK, WorkWithinBudgets
<1>. QED
  BY <1>1, RetrievalInvariant, PTL



-----------------------------------------------------------------------------
(* Counting up.  A set of numbers below a bound has a least element, since *)
(* its places are filled: what holds of 0 and passes from each number to   *)
(* the next holds up to the bound.                                         *)
Counted(n, S) == 0 \in S /\ \A i \in 1 .. n : i - 1 \in S => i \in S

LEMMA CountingUp ==
  ASSUME NEW n \in Nat, NEW S, Counted(n, S)
  PROVE  0 .. n \subseteq S
<1>. DEFINE D == (0 .. n) \ S
            R == {p \in D \X D : p[1] < p[2]}
<1>. SUFFICES ASSUME D # {} PROVE FALSE
  OBVIOUS
<1>1. IsFiniteSet(D)
  <2>1. IsFiniteSet(0 .. n)
    BY FS_Interval
  <2>. QED
    BY <2>1, FS_Subset
<1>2. Cardinality(D) \in Nat /\ Cardinality(D) # 0
  BY <1>1, FS_CardinalityType, FS_EmptySet
<1>3. StrictOrder(R, D)
  BY DEF StrictOrder
<1>4. D \subseteq Nat
  OBVIOUS
<1>5. \A x \in D : Preceding(R, D, x) = {y \in D : y < x}
  BY DEF Preceding
<1>. HIDE DEF R, D
<1>6. PICK d \in D : Cardinality(Preceding(R, D, d)) = 0
  <2>1. \A i \in 1 .. Cardinality(D) : \E x \in D : Cardinality(Preceding(R, D, x)) = i - 1
    BY <1>1, <1>3, PlacesFilled
  <2>2. 1 \in 1 .. Cardinality(D) /\ 1 - 1 = 0
    BY <1>2
  <2>. QED
    BY <2>1, <2>2
<1>7. {y \in D : y < d} = {}
  <2>1. {y \in D : y < d} \in SUBSET D
    OBVIOUS
  <2>2. IsFiniteSet({y \in D : y < d})
    BY <1>1, <2>1, FS_Subset
  <2>3. Cardinality({y \in D : y < d}) = 0
    BY <1>5, <1>6, Zenon
  <2>. QED
    BY <2>2, <2>3, FS_EmptySet, Zenon
<1>. USE DEF D
<1>8. d \in 1 .. n /\ d \notin S
  BY DEF Counted
<1>9. d - 1 \in S
  BY <1>7, <1>8
<1>. QED
  BY <1>8, <1>9 DEF Counted

(* Two functions that start alike and go on alike end alike.               *)
Alike(n, f, g) == f[0] = g[0] /\ \A i \in 1 .. n : f[i - 1] = g[i - 1] => f[i] = g[i]

LEMMA EndAlike ==
  ASSUME NEW n \in Nat, NEW f, NEW g, Alike(n, f, g)
  PROVE  f[n] = g[n]
<1>. DEFINE S == {i \in 0 .. n : f[i] = g[i]}
<1>1. Counted(n, S)
  BY DEF Counted, Alike
<1>2. n \in S
  <2>1. 0 .. n \subseteq S
    <3>. HIDE DEF S
    <3>. QED
      BY <1>1, CountingUp
  <2>. QED
    BY <2>1
<1>. QED
  BY <1>2



-----------------------------------------------------------------------------
(* The package of a context.                                               *)
LEMMA CandidatesSorted ==
  ASSUME Reached(candidates)
  PROVE  /\ IsFiniteSet(DOMAIN candidates)
         /\ Arranged(Sorted(DOMAIN candidates, CandidateBefore), DOMAIN candidates)
<1>. DEFINE S == DOMAIN candidates
            R == {p \in S \X S : CandidateBefore(p[1], p[2])}
<1>1. IsFiniteSet(S) /\ S \subseteq MemoryNodes
  BY NodesValid, FS_Subset DEF Reached
<1>2. StrictOrder(R, S)
  <2>1. S \subseteq Nat /\ \A n \in S : Importance[n] \in Nat /\ Content[n] \in Nat
    <3>1. \A n \in MemoryNodes : n \in Nat /\ Importance[n] \in Nat /\ Content[n] \in Nat
      BY NodesValid
    <3>. QED
      BY <1>1, <3>1
  <2>2. \A n \in S : candidates[n].score \in Int
    BY DEF Reached, Found
  <2>. QED
    BY <2>1, <2>2 DEF StrictOrder, CandidateBefore, NodeBefore
<1>3. \A x \in S : Preceding(R, S, x) = {y \in S : CandidateBefore(y, x)}
  BY DEF Preceding
<1>. HIDE DEF R, S
<1>4. \A i \in 1 .. Cardinality(S) : \E x \in S : Cardinality(Preceding(R, S, x)) = i - 1
  BY <1>1, <1>2, PlacesFilled
<1>5. \A i \in 1 .. Cardinality(S) :
        \E x \in S : Cardinality({y \in S : CandidateBefore(y, x)}) = i - 1
  BY <1>3, <1>4, Zenon
<1>6. Placed(Sorted(S, CandidateBefore), R, S)
  BY <1>3, <1>5 DEF Placed, Sorted
<1>7. Arranged(Sorted(S, CandidateBefore), S)
  BY <1>1, <1>6, PlacesArranged, Zenon
<1>. QED
  BY <1>1, <1>7 DEF S

(* The results of an activation rank all of its candidates.                *)
Result == [node : MemoryNodes, score : Int, seed : MemoryNodes, steps : Seq(Row)]

Ranking ==
  /\ results \in Seq(Result)
  /\ Len(results) = Cardinality(DOMAIN candidates)
  /\ DOMAIN candidates = {results[i].node : i \in DOMAIN results}
  /\ \A i \in DOMAIN results : results[i].score = candidates[results[i].node].score

LEMMA ActivationRanks ==
  ASSUME CallOK, FinishActivation
  PROVE  Ranking'
<1>. DEFINE ranked == Sorted(DOMAIN candidates, CandidateBefore)
            result(i) == [node |-> ranked[i], score |-> candidates[ranked[i]].score,
                          seed |-> candidates[ranked[i]].seed,
                          steps |-> candidates[ranked[i]].steps]
<1>1. Reached(candidates)
  BY DEF CallOK
<1>2. IsFiniteSet(DOMAIN candidates) /\ Arranged(ranked, DOMAIN candidates)
  BY <1>1, CandidatesSorted
<1>3. results' = [i \in DOMAIN ranked |-> result(i)] /\ candidates' = candidates
  BY Zenon DEF FinishActivation, walk
<1>. HIDE DEF ranked
<1>4. ElementsOf(ranked) = DOMAIN candidates
  BY <1>2, ArrangedWhole, Zenon
<1>5. ranked \in Seq(DOMAIN candidates) /\ Len(ranked) = Cardinality(DOMAIN candidates)
  BY <1>2 DEF Arranged
<1>6. \A i \in DOMAIN ranked : result(i) \in Result
  <2>. SUFFICES ASSUME NEW i \in DOMAIN ranked PROVE result(i) \in Result
    OBVIOUS
  <2>1. ranked[i] \in DOMAIN candidates
    BY <1>5
  <2>2. ranked[i] \in MemoryNodes /\ candidates[ranked[i]] \in Found
    BY <1>1, <2>1 DEF Reached
  <2>. QED
    BY <2>2 DEF Found, Result
<1>7. \A i \in DOMAIN ranked : result(i).node = ranked[i] /\ result(i).score = candidates[ranked[i]].score
  OBVIOUS
<1>. HIDE DEF result
<1>8. results' \in Seq(Result) /\ Len(results') = Len(ranked) /\ DOMAIN results' = DOMAIN ranked
  BY <1>3, <1>5, <1>6
<1>9. \A i \in DOMAIN ranked : results'[i].node = ranked[i] /\ results'[i].score = candidates[ranked[i]].score
  BY <1>3, <1>7
<1>10. DOMAIN candidates = {results'[i].node : i \in DOMAIN results'}
  BY <1>4, <1>8, <1>9 DEF ElementsOf
<1>11. \A i \in DOMAIN results' : results'[i].score = candidates[results'[i].node].score
  BY <1>8, <1>9
<1>. QED
  BY <1>3, <1>5, <1>8, <1>10, <1>11 DEF Ranking


(* The sizes of a sequence of items add up to a number.                    *)
Sums(f, s) == f[0] = 0 /\ \A i \in DOMAIN s : f[i] = f[i - 1] + s[i].item.bytes

Sized(s, total) == \E f \in [0 .. Len(s) -> Nat] : Sums(f, s) /\ f[Len(s)] = total

LEMMA SizeGrows ==
  ASSUME NEW S, NEW s \in Seq(S), NEW total \in Nat, Sized(s, total), NEW x, x.item.bytes \in Nat
  PROVE  Sized(Append(s, x), total + x.item.bytes)
<1>1. PICK f \in [0 .. Len(s) -> Nat] : Sums(f, s) /\ f[Len(s)] = total
  BY DEF Sized
<1>. DEFINE n == Len(s)
            t == Append(s, x)
            g == [i \in 0 .. n + 1 |-> IF i = n + 1 THEN total + x.item.bytes ELSE f[i]]
<1>2. /\ n \in Nat /\ DOMAIN s = 1 .. n /\ Len(t) = n + 1 /\ DOMAIN t = 1 .. n + 1
      /\ \A i \in 1 .. n : t[i] = s[i]
      /\ t[n + 1] = x
  OBVIOUS
<1>3. g \in [0 .. n + 1 -> Nat]
  <2>1. \A i \in 0 .. n + 1 : i # n + 1 => i \in 0 .. n
    BY <1>2
  <2>. QED
    BY <1>1, <2>1
<1>. HIDE DEF n, t
<1>4. g[n + 1] = total + x.item.bytes /\ (\A i \in 0 .. n : g[i] = f[i])
  BY <1>2
<1>. HIDE DEF g
<1>5. \A i \in 1 .. n + 1 : g[i] = g[i - 1] + t[i].item.bytes
  <2>1. ASSUME NEW i \in 1 .. n PROVE g[i] = g[i - 1] + t[i].item.bytes
    <3>1. i \in 0 .. n /\ i - 1 \in 0 .. n /\ f[i] = f[i - 1] + s[i].item.bytes
      BY <1>1, <1>2 DEF Sums
    <3>. QED
      BY <1>2, <1>4, <3>1
  <2>2. g[n + 1] = g[(n + 1) - 1] + t[n + 1].item.bytes
    <3>1. (n + 1) - 1 = n /\ n \in 0 .. n
      BY <1>2
    <3>2. f[n] = total
      BY <1>1 DEF n
    <3>. QED
      BY <1>2, <1>4, <3>1, <3>2
  <2>3. \A i \in 1 .. n + 1 : i = n + 1 \/ i \in 1 .. n
    BY <1>2
  <2>. QED
    BY <2>1, <2>2, <2>3, Zenon
<1>6. g[0] = 0
  <2>1. 0 \in 0 .. n
    BY <1>2
  <2>. QED
    BY <1>1, <1>4, <2>1 DEF Sums
<1>7. Sums(g, t)
  BY <1>2, <1>5, <1>6 DEF Sums
<1>. QED
  BY <1>2, <1>3, <1>4, <1>7 DEF Sized, t

Before == {"build", "seed_query", "seed_read", "next", "admit"}
Inspecting == phase \in {"item"} \cup Read
Assembling == Inspecting \/ phase = "candidate"

(* What a package counts, at every statement of its assembly.              *)
PackageOK ==
  /\ scanned \in Nat /\ skipped \in Nat /\ bytes \in Nat
  /\ admitted \in Seq(ElementsOf(admitted)) /\ excluded \in Seq(ElementsOf(excluded))
  /\ Sized(admitted, bytes)
  /\ bytes <= call.maxBytes /\ Len(admitted) <= call.resultLimit /\ scanned <= call.candidateScan
  /\ phase \in Before =>
       results = <<>> /\ scanned = 0 /\ skipped = 0 /\ admitted = <<>> /\ excluded = <<>>
  /\ Assembling \/ reply = "Context" => Ranking /\ scanned <= Len(results)
  /\ Assembling => Len(admitted) < call.resultLimit
  /\ Inspecting =>
       /\ scanned = skipped + Len(admitted) + Len(excluded) + 1
       /\ scanned \in DOMAIN results
       /\ candidate.node = results[scanned].node /\ candidate.score = results[scanned].score
  /\ phase = "candidate" \/ (phase = "done" /\ reply # "InvalidDatabase") =>
       scanned = skipped + Len(admitted) + Len(excluded)
  /\ reply = "Context" =>
       /\ stopReason = "Exhausted" => scanned = Len(results)
       /\ stopReason = "ScanLimit" => scanned < Len(results)
       /\ stopReason = "ByteLimit" => bytes = call.maxBytes

(* Why an item is in the package, or left out.                             *)
Settled(e) ==
  LET item == ledger.items[e] IN
  \/ e \in AdmittedIds
  \/ ~item.scope \/ ~item.accepted
  \/ VisibleConflicts(e) # {} \/ SupersededBy(e) # {}
  \/ candidates[item.node].score < call.minScore
  \/ bytes + item.bytes > call.maxBytes

Seen(e) == \E i \in 1 .. scanned : results[i].node = ledger.items[e].node

CompleteOK ==
  Quiet =>
    /\ Inspecting => candidate.id \in EvidenceAt(candidate.node)
    /\ phase \in Read => candidate.item = ledger.items[candidate.id]
    /\ phase = "superseded" => conflicted = VisibleConflicts(candidate.id)
    /\ Assembling \/ reply = "Context" =>
         \A e \in DOMAIN ledger.items :
           Seen(e) => Settled(e) \/ (Inspecting /\ e = candidate.id)


LEMMA RankingKept ==
  ASSUME UNCHANGED <<results, candidates>>
  PROVE  Ranking' <=> Ranking
BY DEF Ranking

(* Steps outside of an assembly.                                           *)
LEMMA OutsideKeepsPackage ==
  ASSUME CallOK, PackageOK, UNCHANGED <<call, package>>,
         \/ UNCHANGED <<reply, phase, results, candidates>>
         \/ /\ phase \in Before
            /\ \/ phase' \in Before /\ reply' = "none" /\ UNCHANGED results
               \/ phase' = "done" /\ reply' # "Context"
               \/ phase' = "candidate" /\ reply' = "none" /\ Ranking'
  PROVE  PackageOK'
<1>1. UNCHANGED <<scanned, skipped, candidate, conflicted, admitted, excluded, bytes, stopReason>>
  BY DEF package
<1>2. Sized(admitted, bytes)' <=> Sized(admitted, bytes)
  BY <1>1, Zenon DEF Sized, Sums
<1>3. CASE UNCHANGED <<reply, phase, results, candidates>>
  <2>1. Ranking' <=> Ranking
    BY <1>3, RankingKept
  <2>. QED
    BY <1>1, <1>2, <1>3, <2>1 DEF PackageOK, Assembling, Inspecting, Read, ElementsOf
<1>4. CASE /\ phase \in Before
           /\ \/ phase' \in Before /\ reply' = "none" /\ UNCHANGED results
              \/ phase' = "done" /\ reply' # "Context"
              \/ phase' = "candidate" /\ reply' = "none" /\ Ranking'
  <2>1. /\ results = <<>> /\ scanned = 0 /\ skipped = 0 /\ admitted = <<>> /\ excluded = <<>>
        /\ call.resultLimit \in Nat \ {0}
    BY <1>4, CallFields DEF PackageOK
  <2>2. phase' = "candidate" => Len(results') \in Nat
    BY <1>4 DEF Ranking, Before
  <2>3. /\ ~Inspecting'
        /\ phase' \in Before => results' = <<>> /\ ~Assembling'
        /\ Assembling' \/ reply' = "Context" => phase' = "candidate" /\ Ranking'
    BY <1>4, <2>1 DEF Before, Inspecting, Read, Assembling
  <2>. QED
    BY <1>1, <1>2, <1>4, <2>1, <2>2, <2>3 DEF PackageOK, ElementsOf
<1>. QED
  BY <1>3, <1>4

LEMMA ActivationKeepsPackage ==
  ASSUME StoreOK, CallOK, BudgetOK, PackageOK, ActivationStep, UNCHANGED package
  PROVE  PackageOK'
<1>1. /\ call' = call /\ phase \in Before /\ reply = "none"
      /\ FinishActivation \/ SearchFound \/ UNCHANGED results
  BY DEF ActivationStep, SeedQuery, SeedRead, SearchFound, SeedsFound, RoutingIndex,
     NextPath, CycleClosed, NodeBudgetSpent, TargetVisited, TargetRevisited, FinishActivation,
     Considering, Before, CallOK
<1>2. ASSUME phase' = "candidate" PROVE Ranking'
  <2>1. CASE FinishActivation
    BY <2>1, ActivationRanks
  <2>2. CASE StartWalk /\ phase = "seed_read" /\ UNCHANGED results
    <3>1. candidates' = candidates
      BY <1>2, <2>2 DEF StartWalk, walk
    <3>2. candidates = Nothing /\ results = <<>>
      BY <2>2 DEF BudgetOK, PackageOK, Before
    <3>3. DOMAIN candidates = {} /\ Cardinality({}) = 0
      BY <3>2, FS_EmptySet DEF Nothing
    <3>. QED
      BY <2>2, <3>1, <3>2, <3>3 DEF Ranking
  <2>3. FinishActivation \/ (StartWalk /\ phase = "seed_read" /\ UNCHANGED results)
    <3>1. \A edges : Continue(edges) => phase' # "candidate"
      BY DEF Continue
    <3>. QED
      BY <1>2, <3>1 DEF ActivationStep, SeedQuery, SeedRead, SearchFound, SeedsFound, RoutingIndex,
         NextPath, CycleClosed, NodeBudgetSpent, TargetVisited, TargetRevisited, Considering, Answer
  <2>. QED
    BY <2>1, <2>2, <2>3
<1>3. phase' \in Before \cup {"candidate", "done"}
  BY PhasesOfActivation DEF Before
<1>4. phase' \in Before => reply' = "none" /\ UNCHANGED results
  <2>1. \A edges : Continue(edges) => phase' \in {"next", "admit"}
    BY DEF Continue
  <2>2. StartWalk => phase' \in {"candidate", "done"} \/ reply' = reply
    BY DEF StartWalk, ReportDone, Answer
  <2>. QED
    BY <1>1, <2>1, <2>2 DEF ActivationStep, SeedQuery, SeedRead, SearchFound, SeedsFound, RoutingIndex,
       NextPath, CycleClosed, NodeBudgetSpent, TargetVisited, TargetRevisited, FinishActivation,
       Considering, Answer, ReportDone, Before
<1>5. reply' # "Context" /\ (phase' = "candidate" => reply' = "none")
  <2>1. StartWalk => reply' \in {reply, "Report"} /\ (phase' = "candidate" => reply' = reply)
    BY DEF StartWalk, ReportDone, Answer
  <2>. QED
    BY <1>1, <2>1 DEF ActivationStep, SeedQuery, SeedRead, SearchFound, SeedsFound, RoutingIndex,
       NextPath, CycleClosed, NodeBudgetSpent, TargetVisited, TargetRevisited, FinishActivation,
       Considering, Answer, ReportDone
<1>. QED
  BY <1>1, <1>2, <1>3, <1>4, <1>5, OutsideKeepsPackage


LEMMA RankedAre ==
  ASSUME CallOK, Ranking
  PROVE  /\ Len(results) \in Nat /\ DOMAIN results = 1 .. Len(results)
         /\ Len(RankedCandidates) = Least(call.candidateScan, Len(results))
         /\ \A i \in 1 .. Len(RankedCandidates) : RankedCandidates[i] = results[i]
<1>1. results \in Seq(Result) /\ call.candidateScan \in Nat
  BY CallFields DEF Ranking
<1>2. /\ RankedCandidates \in Seq(Result)
      /\ Len(RankedCandidates) = Least(call.candidateScan, Len(results))
      /\ \A i \in DOMAIN RankedCandidates : RankedCandidates[i] = results[i]
  BY <1>1, SelectionArranged, Zenon DEF RankedCandidates
<1>. QED
  BY <1>1, <1>2

LEMMA AssemblyKeepsPackage ==
  ASSUME StoreOK, CallOK, PackageOK, ContextStep
  PROVE  PackageOK'
<1>1. UNCHANGED <<call, results, candidates>> /\ Assembling /\ reply = "none"
  BY Assembles DEF walk, Assembling, Inspecting, Read, CallOK
<1>2. Ranking /\ Ranking' /\ scanned <= Len(results) /\ Len(admitted) < call.resultLimit
  BY <1>1, RankingKept DEF PackageOK
<1>3. /\ Len(results) \in Nat /\ DOMAIN results = 1 .. Len(results)
      /\ Len(RankedCandidates) = Least(call.candidateScan, Len(results))
      /\ \A i \in 1 .. Len(RankedCandidates) : RankedCandidates[i] = results[i]
  BY <1>2, RankedAre
<1>4. /\ scanned \in Nat /\ skipped \in Nat /\ bytes \in Nat /\ call.candidateScan \in Nat
      /\ Len(admitted) \in Nat /\ Len(excluded) \in Nat
      /\ admitted \in Seq(ElementsOf(admitted)) /\ excluded \in Seq(ElementsOf(excluded))
      /\ Sized(admitted, bytes) /\ scanned <= call.candidateScan
      /\ bytes <= call.maxBytes /\ call.maxBytes \in Nat /\ call.resultLimit \in Nat
  BY CallFields DEF PackageOK
<1>5. CASE NextCandidate
  <2>1. /\ phase = "candidate" /\ scanned < Len(RankedCandidates) /\ scanned' = scanned + 1
        /\ \/ phase' = "item" /\ skipped' = skipped
           \/ phase' = "candidate" /\ skipped' = skipped + 1
        /\ UNCHANGED <<reply, admitted, excluded, bytes>>
    BY <1>5 DEF NextCandidate, Reading, Skip
  <2>2. phase' = "item" => /\ candidate'.node = RankedCandidates[scanned + 1].node
                           /\ candidate'.score = RankedCandidates[scanned + 1].score
    BY <1>5 DEF NextCandidate, Candidate, Skip
  <2>3. /\ scanned + 1 \in DOMAIN results /\ scanned + 1 <= call.candidateScan
        /\ phase' = "item" => /\ candidate'.node = results[scanned + 1].node
                              /\ candidate'.score = results[scanned + 1].score
    <3>1. scanned + 1 <= Least(call.candidateScan, Len(results))
      BY <1>3, <1>4, <2>1 DEF Least
    <3>2. scanned + 1 <= call.candidateScan /\ scanned + 1 <= Len(results)
      BY <1>3, <1>4, <3>1 DEF Least
    <3>3. scanned + 1 \in 1 .. Len(RankedCandidates)
      BY <1>3, <1>4, <3>1
    <3>4. RankedCandidates[scanned + 1] = results[scanned + 1]
      BY <1>3, <3>3
    <3>5. scanned + 1 \in DOMAIN results
      BY <1>3, <1>4, <3>2
    <3>. QED
      BY <2>2, <3>2, <3>4, <3>5, Zenon
  <2>4. scanned = skipped + Len(admitted) + Len(excluded)
    BY <2>1 DEF PackageOK
  <2>5. Sized(admitted, bytes)'
    BY <1>4, <2>1, Zenon DEF Sized, Sums
  <2>6. /\ phase' \notin Before /\ phase' # "done" /\ Assembling'
        /\ Inspecting' => phase' = "item"
    BY <2>1 DEF Before, Assembling, Inspecting, Read
  <2>7. scanned + 1 <= Len(results)
    BY <1>3, <2>3
  <2>8. /\ Inspecting' => scanned' = skipped' + Len(admitted') + Len(excluded') + 1
        /\ phase' = "candidate" => scanned' = skipped' + Len(admitted') + Len(excluded')
        /\ scanned' \in Nat /\ skipped' \in Nat
    <3>1. \A s, k, a, x \in Nat :
            s = k + a + x => s + 1 = k + a + x + 1 /\ s + 1 = (k + 1) + a + x /\ s + 1 \in Nat /\ k + 1 \in Nat
      OBVIOUS
    <3>. QED
      BY <1>4, <2>1, <2>4, <2>6, <3>1
  <2>9. ElementsOf(admitted)' = ElementsOf(admitted) /\ ElementsOf(excluded)' = ElementsOf(excluded)
    BY <2>1 DEF ElementsOf
  <2>. QED
    BY <1>1, <1>2, <1>4, <2>1, <2>3, <2>5, <2>6, <2>7, <2>8, <2>9 DEF PackageOK
<1>6. ASSUME UNCHANGED <<scanned, admitted, excluded, bytes>>, Inspecting, candidate'.node = candidate.node,
             candidate'.score = candidate.score,
             \/ UNCHANGED <<skipped, reply>> /\ phase' \in Read
             \/ skipped' = skipped + 1 /\ phase' = "candidate" /\ UNCHANGED reply
             \/ UNCHANGED skipped /\ phase' = "done" /\ reply' = "InvalidDatabase"
      PROVE  PackageOK'
  <2>1. Sized(admitted, bytes)'
    BY <1>4, <1>6, Zenon DEF Sized, Sums
  <2>2. /\ scanned = skipped + Len(admitted) + Len(excluded) + 1
        /\ scanned \in DOMAIN results
        /\ candidate.node = results[scanned].node /\ candidate.score = results[scanned].score
    BY <1>6 DEF PackageOK
  <2>3. skipped' \in Nat
    BY <1>4, <1>6
  <2>4. phase' = "candidate" => scanned' = skipped' + Len(admitted') + Len(excluded')
    BY <1>4, <1>6, <2>2 DEF Read
  <2>. QED
    BY <1>1, <1>2, <1>4, <1>6, <2>1, <2>2, <2>3, <2>4
       DEF PackageOK, Assembling, Inspecting, Read, Before, ElementsOf
<1>7. DOMAIN candidate = {"node", "score", "id", "item", "rivals"}
  BY DEF CallOK
<1>8. CASE ReadItem
  BY <1>6, <1>7, <1>8 DEF ReadItem, Reading, Skip, Inspecting, Read
<1>9. CASE DecodeItem
  BY <1>6, <1>9 DEF DecodeItem, Reading, Answer, Inspecting, Read
<1>10. CASE ReadConflictsWith \/ ReadSupersedes \/ ReadConflicts
  BY <1>6, <1>7, <1>10 DEF ReadConflictsWith, ReadSupersedes, ReadReferences, ReadConflicts, Reading,
     Inspecting, Read
<1>11. CASE Judge
  <2>1. /\ phase = "superseded" /\ Inspecting /\ UNCHANGED <<scanned, skipped, candidate>>
    BY <1>11 DEF Judge, Reading, Inspecting, Read
  <2>2. /\ scanned = skipped + Len(admitted) + Len(excluded) + 1
        /\ scanned \in DOMAIN results
    BY <2>1 DEF PackageOK
  <2>3. candidate.item.bytes \in Nat
    BY DEF CallOK, Item, NoItem
  <2>4. \/ /\ admitted' = Append(admitted, candidate) /\ bytes' = bytes + candidate.item.bytes
           /\ excluded' = excluded /\ ~(bytes + candidate.item.bytes > call.maxBytes)
        \/ /\ \E x : excluded' = Append(excluded, x)
           /\ UNCHANGED <<admitted, bytes>>
    BY <1>11, NoExclusion DEF Judge
  <2>5. /\ bytes' \in Nat /\ bytes' <= call.maxBytes /\ Sized(admitted', bytes')
        /\ admitted' \in Seq(ElementsOf(admitted')) /\ excluded' \in Seq(ElementsOf(excluded'))
        /\ Len(admitted') \in Nat /\ Len(excluded') \in Nat
        /\ Len(admitted') + Len(excluded') = Len(admitted) + Len(excluded) + 1
        /\ Len(admitted') <= call.resultLimit
    <3>1. CASE /\ admitted' = Append(admitted, candidate) /\ bytes' = bytes + candidate.item.bytes
               /\ excluded' = excluded /\ ~(bytes + candidate.item.bytes > call.maxBytes)
      <4>1. Sized(admitted', bytes')
        BY <1>4, <2>3, <3>1, SizeGrows, Zenon
      <4>2. Len(admitted') = Len(admitted) + 1
        BY <1>4, <3>1
      <4>3. bytes' \in Nat /\ bytes' <= call.maxBytes
        <5>1. \A b, c, m \in Nat : ~(b + c > m) => b + c \in Nat /\ b + c <= m
          OBVIOUS
        <5>. QED
          BY <1>4, <2>3, <3>1, <5>1, Zenon
      <4>4. admitted' \in Seq(ElementsOf(admitted'))
        <5>1. admitted' \in Seq(ElementsOf(admitted) \cup {candidate})
          BY <1>4, <3>1
        <5>. QED
          BY <5>1 DEF ElementsOf
      <4>. QED
        BY <1>2, <1>4, <3>1, <4>1, <4>2, <4>3, <4>4
    <3>2. CASE (\E x : excluded' = Append(excluded, x)) /\ UNCHANGED <<admitted, bytes>>
      <4>1. PICK x : excluded' = Append(excluded, x)
        BY <3>2
      <4>2. /\ Len(excluded') = Len(excluded) + 1 /\ DOMAIN excluded' = 1 .. Len(excluded) + 1
            /\ \E S : excluded' \in Seq(S)
        <5>1. excluded' \in Seq(ElementsOf(excluded) \cup {x})
          BY <1>4, <4>1
        <5>. QED
          BY <1>4, <4>1, <5>1
      <4>3. excluded' \in Seq(ElementsOf(excluded'))
        BY <4>2 DEF ElementsOf
      <4>4. Sized(admitted', bytes')
        BY <1>4, <3>2
      <4>. QED
        BY <1>2, <1>4, <3>2, <4>2, <4>3, <4>4
    <3>. QED
      BY <2>4, <3>1, <3>2
  <2>6. /\ \/ phase' = "candidate" /\ Len(admitted') # call.resultLimit /\ UNCHANGED reply
           \/ phase' = "done" /\ reply' = "Context"
        /\ stopReason' \in {"ResultLimit", "ByteLimit", "none"}
        /\ stopReason' = "ByteLimit" => bytes' = call.maxBytes
    BY <1>11 DEF Judge, Answer
  <2>7. scanned' = skipped' + Len(admitted') + Len(excluded')
    <3>1. scanned = skipped + (Len(admitted) + Len(excluded) + 1)
      BY <1>4, <2>2
    <3>2. scanned = skipped + (Len(admitted') + Len(excluded'))
      BY <2>5, <3>1, Zenon
    <3>3. skipped \in Nat /\ Len(admitted') \in Nat /\ Len(excluded') \in Nat
      BY <1>4, <2>5
    <3>4. scanned' = scanned /\ skipped' = skipped
      BY <2>1
    <3>. QED
      BY <3>2, <3>3, <3>4
  <2>8. phase' = "candidate" => Len(admitted') < call.resultLimit
    BY <1>4, <2>5, <2>6
  <2>9. Sized(admitted, bytes)'
    BY <2>5, Zenon DEF Sized, Sums
  <2>10. phase' \notin Before /\ ~Inspecting' /\ (Assembling' <=> phase' = "candidate")
    BY <2>6 DEF Before, Assembling, Inspecting, Read
  <2>11. ElementsOf(admitted)' = ElementsOf(admitted') /\ ElementsOf(excluded)' = ElementsOf(excluded')
    BY DEF ElementsOf
  <2>. QED
    BY <1>1, <1>2, <1>4, <2>1, <2>5, <2>6, <2>7, <2>8, <2>9, <2>10, <2>11 DEF PackageOK
<1>12. CASE ScanEnds
  <2>1. /\ phase = "candidate" /\ scanned = Len(RankedCandidates) /\ stopReason' = ScanEnd
        /\ phase' = "done" /\ reply' = "Context"
        /\ UNCHANGED <<scanned, skipped, admitted, excluded, bytes>>
    BY <1>12 DEF ScanEnds, Reading, Answer
  <2>2. scanned = skipped + Len(admitted) + Len(excluded)
    BY <2>1 DEF PackageOK
  <2>3. /\ stopReason' \in {"ScanLimit", "Exhausted"}
        /\ stopReason' = "Exhausted" => scanned = Len(results)
        /\ stopReason' = "ScanLimit" => scanned < Len(results)
    <3>1. \A n, m, k \in Nat : n = Least(m, k) => n <= k /\ (n = m \/ n = k)
      BY DEF Least
    <3>3. scanned = Least(call.candidateScan, Len(results))
      BY <1>3, <2>1
    <3>2. scanned <= Len(results) /\ (scanned = call.candidateScan \/ scanned = Len(results))
      BY <1>3, <1>4, <3>1, <3>3, Zenon
    <3>. QED
      BY <1>3, <1>4, <2>1, <3>2 DEF ScanEnd
  <2>4. Sized(admitted, bytes)'
    BY <1>4, <2>1, Zenon DEF Sized, Sums
  <2>. QED
    BY <1>1, <1>2, <1>4, <2>1, <2>2, <2>3, <2>4
       DEF PackageOK, Assembling, Inspecting, Read, Before, ElementsOf
<1>. QED
  BY <1>5, <1>8, <1>9, <1>10, <1>11, <1>12 DEF ContextStep


LEMMA SettledStays ==
  ASSUME StoreOK, UNCHANGED <<ledger, candidates, call>>, AdmittedIds \subseteq AdmittedIds',
         bytes \in Nat, bytes' \in Nat, bytes <= bytes', call.maxBytes \in Nat,
         NEW e \in DOMAIN ledger.items, Settled(e)
  PROVE  Settled(e)'
<1>1. VisibleConflicts(e)' = VisibleConflicts(e) /\ SupersededBy(e)' = SupersededBy(e)
  BY DEF VisibleConflicts, SupersededBy, Targets, Sources
<1>2. bytes + ledger.items[e].bytes > call.maxBytes => bytes' + ledger.items[e].bytes > call.maxBytes
  <2>1. ledger.items[e].bytes \in Nat
    BY DEF StoreOK, ItemsValid, Item
  <2>2. \A b, c, k, m \in Nat : b <= c /\ b + k > m => c + k > m
    OBVIOUS
  <2>. QED
    BY <2>1, <2>2, Zenon
<1>. QED
  BY <1>1, <1>2, Zenon DEF Settled

LEMMA AssemblyKeepsComplete ==
  ASSUME StoreOK, CallOK, PackageOK, CompleteOK, ContextStep
  PROVE  CompleteOK'
<1>1. UNCHANGED <<call, results, candidates, ledger, revision>> /\ Assembling /\ reply = "none"
  BY Assembles DEF walk, stored, Assembling, Inspecting, Read, CallOK
<1>. SUFFICES ASSUME Quiet' PROVE CompleteOK'
  BY DEF CompleteOK
<1>2. Quiet
  BY <1>1 DEF Quiet
<1>3. /\ Inspecting => candidate.id \in EvidenceAt(candidate.node)
      /\ phase \in Read => candidate.item = ledger.items[candidate.id]
      /\ phase = "superseded" => conflicted = VisibleConflicts(candidate.id)
      /\ \A e \in DOMAIN ledger.items :
           Seen(e) => Settled(e) \/ (Inspecting /\ e = candidate.id)
  BY <1>1, <1>2, Zenon DEF CompleteOK
<1>4. /\ Ranking /\ bytes \in Nat /\ call.maxBytes \in Nat /\ scanned \in Nat /\ Len(admitted) \in Nat
      /\ admitted \in Seq(ElementsOf(admitted))
  BY <1>1, CallFields DEF PackageOK
<1>5. DOMAIN candidate = {"node", "score", "id", "item", "rivals"}
  BY DEF CallOK
<1>6. ASSUME UNCHANGED <<admitted, bytes>> PROVE \A e \in DOMAIN ledger.items : Settled(e) => Settled(e)'
  <2>1. AdmittedIds' = AdmittedIds
    BY <1>6 DEF AdmittedIds
  <2>. QED
    BY <1>1, <1>4, <1>6, <2>1, SettledStays
<1>7. ASSUME UNCHANGED scanned PROVE \A n : Seen(n)' => Seen(n)
  BY <1>1, <1>7 DEF Seen
<1>8. CASE NextCandidate
  <2>. DEFINE n0 == results[scanned + 1].node
  <2>1. /\ phase = "candidate" /\ scanned < Len(RankedCandidates) /\ scanned' = scanned + 1
        /\ UNCHANGED <<admitted, bytes>> /\ phase' \in {"item", "candidate"}
    BY <1>8 DEF NextCandidate, Reading, Skip
  <2>2. RankedCandidates[scanned + 1] = results[scanned + 1]
    <3>1. scanned + 1 \in 1 .. Len(RankedCandidates)
      <4>1. Len(RankedCandidates) \in Nat
        <5>1. Len(results) \in Nat /\ call.candidateScan \in Nat
          BY <1>4, CallFields, RankedAre
        <5>. QED
          BY <1>4, <5>1, RankedAre DEF Least
      <4>. QED
        BY <1>4, <2>1, <4>1
    <3>. QED
      BY <1>4, <3>1, RankedAre
  <2>3. \/ \E e \in EvidenceAt(n0) : phase' = "item" /\ candidate'.node = n0 /\ candidate'.id = e
        \/ EvidenceAt(n0) = {} /\ phase' = "candidate"
    BY <1>8, <2>2 DEF NextCandidate, Candidate, Skip
  <2>4. phase' = "item" => candidate'.id \in EvidenceAt(candidate'.node)
    BY <2>3
  <2>5. ASSUME NEW e \in DOMAIN ledger.items, Seen(e)'
        PROVE  Settled(e)' \/ (Inspecting' /\ e = candidate'.id)
    <3>1. Seen(e) \/ ledger.items[e].node = n0
      BY <1>1, <1>4, <2>1, <2>5 DEF Seen
    <3>2. CASE Seen(e)
      BY <1>3, <1>6, <2>1, <3>2 DEF Inspecting, Read
    <3>3. CASE ledger.items[e].node = n0
      <4>1. e \in EvidenceAt(n0) /\ \A d \in EvidenceAt(n0) : d = e
        BY <3>3 DEF EvidenceAt, StoreOK, ItemsValid
      <4>. QED
        BY <2>3, <4>1 DEF Inspecting
    <3>. QED
      BY <3>1, <3>2, <3>3
  <2>6. EvidenceAt(candidate'.node) = (EvidenceAt(candidate.node))'
    BY <1>1 DEF EvidenceAt
  <2>. QED
    BY <1>1, <2>1, <2>4, <2>5, <2>6 DEF CompleteOK, Inspecting, Read
<1>9. ASSUME UNCHANGED <<scanned, admitted, bytes>>, phase' \in Read, Inspecting,
             candidate'.node = candidate.node, candidate'.id = candidate.id,
             candidate'.item = ledger.items[candidate.id],
             phase' = "superseded" => conflicted' = VisibleConflicts(candidate.id)
      PROVE  CompleteOK'
  <2>1. Inspecting'
    BY <1>9 DEF Inspecting
  <2>2. \A e \in DOMAIN ledger.items :
          Seen(e)' => Settled(e)' \/ (Inspecting' /\ e = candidate'.id)
    BY <1>3, <1>6, <1>7, <1>9, <2>1
  <2>3. candidate'.id \in (EvidenceAt(candidate.node))'
    BY <1>1, <1>3, <1>9 DEF EvidenceAt
  <2>4. (VisibleConflicts(candidate.id))' = VisibleConflicts(candidate.id)
    BY <1>1, <1>9 DEF VisibleConflicts, Targets, Sources
  <2>. QED
    BY <1>1, <1>9, <2>2, <2>3, <2>4 DEF CompleteOK
<1>10. CASE ReadItem
  <2>1. UNCHANGED <<scanned, admitted, bytes, reply>> /\ phase = "item" /\ Inspecting
    BY <1>10 DEF ReadItem, Reading, Inspecting
  <2>2. candidate.id \in DOMAIN ledger.items
    BY <1>3, <2>1 DEF EvidenceAt
  <2>3. /\ phase' = "decode" /\ candidate'.node = candidate.node /\ candidate'.id = candidate.id
        /\ candidate'.item = ledger.items[candidate.id]
    BY <1>5, <1>10, <2>2 DEF ReadItem
  <2>. QED
    BY <1>9, <2>1, <2>3 DEF Read
<1>11. CASE DecodeItem
  <2>1. /\ UNCHANGED <<scanned, admitted, bytes, candidate>> /\ phase = "decode" /\ Inspecting
    BY <1>11 DEF DecodeItem, Reading, Inspecting, Read
  <2>2. CASE candidate.item.node \in nodes
    <3>1. phase' = "conflicts_with"
      BY <1>11, <2>2 DEF DecodeItem
    <3>. QED
      BY <1>3, <1>9, <2>1, <3>1 DEF Read
  <2>3. CASE candidate.item.node \notin nodes
    BY <1>11, <2>3 DEF DecodeItem, Answer, CompleteOK, Assembling, Inspecting, Read
  <2>. QED
    BY <2>2, <2>3
<1>15. CASE ReadConflictsWith \/ ReadSupersedes
  <2>1. /\ UNCHANGED <<scanned, admitted, bytes>> /\ phase \in Read /\ phase' \in {"supersedes", "conflicts"}
        /\ candidate'.node = candidate.node /\ candidate'.id = candidate.id
        /\ candidate'.item = candidate.item
    BY <1>5, <1>15 DEF ReadConflictsWith, ReadSupersedes, ReadReferences, Reading, Read
  <2>. QED
    BY <1>3, <1>9, <2>1 DEF Inspecting, Read
<1>12. CASE ReadConflicts
  <2>1. /\ UNCHANGED <<scanned, admitted, bytes, candidate>> /\ phase = "conflicts"
        /\ phase' = "superseded" /\ conflicted' = VisibleConflicts(candidate.id)
    BY <1>12 DEF ReadConflicts, Reading
  <2>. QED
    BY <1>3, <1>9, <2>1 DEF Inspecting, Read
<1>13. CASE Judge
  <2>. DEFINE e0 == candidate.id
              reason == Exclusion(SupersededBy(candidate.id))
  <2>1. /\ phase = "superseded" /\ Inspecting /\ UNCHANGED <<scanned, candidate>>
        /\ phase' \in {"candidate", "done"}
    BY <1>13 DEF Judge, Reading, Inspecting, Read, Answer
  <2>2. /\ e0 \in DOMAIN ledger.items /\ candidate.item = ledger.items[e0]
        /\ conflicted = VisibleConflicts(e0)
        /\ candidate.score = candidates[ledger.items[e0].node].score
    <3>1. /\ scanned \in DOMAIN results /\ candidate.node = results[scanned].node
          /\ candidate.score = results[scanned].score
      BY <2>1 DEF PackageOK
    <3>2. candidate.score = candidates[candidate.node].score
      BY <1>4, <3>1 DEF Ranking
    <3>3. e0 \in DOMAIN ledger.items /\ ledger.items[e0].node = candidate.node
      BY <1>3, <2>1 DEF EvidenceAt
    <3>. QED
      BY <1>3, <2>1, <3>2, <3>3 DEF Read
  <2>3. \/ reason = "none" /\ admitted' = Append(admitted, candidate) /\ bytes' = bytes + candidate.item.bytes
        \/ reason # "none" /\ UNCHANGED <<admitted, bytes>>
    BY <1>13 DEF Judge
  <2>4. candidate.item.bytes \in Nat
    BY DEF CallOK, Item, NoItem
  <2>5. /\ bytes' \in Nat /\ bytes <= bytes' /\ AdmittedIds \subseteq AdmittedIds'
        /\ reason = "none" => e0 \in AdmittedIds'
    <3>1. CASE /\ reason = "none" /\ admitted' = Append(admitted, candidate)
               /\ bytes' = bytes + candidate.item.bytes
      <4>1. /\ DOMAIN admitted' = 1 .. Len(admitted) + 1 /\ DOMAIN admitted = 1 .. Len(admitted)
            /\ admitted'[Len(admitted) + 1] = candidate
            /\ \A i \in DOMAIN admitted : i \in DOMAIN admitted' /\ admitted'[i] = admitted[i]
        BY <1>4, <3>1
      <4>2. AdmittedIds \subseteq AdmittedIds'
        BY <4>1, Zenon DEF AdmittedIds
      <4>3. e0 \in AdmittedIds'
        <5>1. Len(admitted) + 1 \in DOMAIN admitted'
          BY <1>4, <4>1
        <5>. QED
          BY <4>1, <5>1 DEF AdmittedIds
      <4>4. \A b, c \in Nat : b + c \in Nat /\ b <= b + c
        OBVIOUS
      <4>. QED
        BY <1>4, <2>4, <3>1, <4>2, <4>3, <4>4, Zenon
    <3>2. CASE reason # "none" /\ UNCHANGED <<admitted, bytes>>
      BY <1>4, <3>2 DEF AdmittedIds
    <3>. QED
      BY <2>3, <3>1, <3>2
  <2>6. reason # "none" => Settled(e0)
    BY <2>2, ReasonsApply, Zenon DEF Settled
  <2>7. \A e \in DOMAIN ledger.items : Settled(e) => Settled(e)'
    BY <1>1, <1>4, <2>5, SettledStays
  <2>8. \A e : e = e0 => Settled(e)'
    <3>1. \A e : e \in AdmittedIds' => Settled(e)'
      BY DEF Settled
    <3>. QED
      BY <2>2, <2>5, <2>6, <2>7, <3>1, Zenon
  <2>9. ASSUME NEW e \in DOMAIN ledger.items, Seen(e)'
        PROVE  Settled(e)'
    <3>1. Settled(e) \/ e = e0
      BY <1>3, <1>7, <2>1, <2>9
    <3>. QED
      BY <2>7, <2>8, <3>1, Zenon
  <2>. QED
    BY <1>1, <2>1, <2>9 DEF CompleteOK, Inspecting, Read
<1>14. CASE ScanEnds
  <2>1. /\ UNCHANGED <<scanned, admitted, bytes>> /\ phase = "candidate" /\ phase' = "done"
    BY <1>14 DEF ScanEnds, Reading, Answer
  <2>2. \A e \in DOMAIN ledger.items : Seen(e)' => Settled(e)'
    BY <1>3, <1>6, <1>7, <2>1 DEF Inspecting, Read
  <2>. QED
    BY <1>1, <2>1, <2>2 DEF CompleteOK, Inspecting, Read
<1>. QED
  BY <1>8, <1>10, <1>11, <1>12, <1>13, <1>14, <1>15 DEF ContextStep



(* Every other step keeps the package too.                                 *)
LEMMA BuildOutside ==
  ASSUME BuildStarts \/ BuildContinues \/ BuildEnds
  PROVE  /\ UNCHANGED <<call, package, reply, results, candidates, stored>>
         /\ phase' = phase \/ (phase = "build" /\ phase' = "seed_query")
BY Zenon DEF BuildStarts, BuildContinues, BuildEnds, BuildUnchanged, walk

LEMMA PackageStep ==
  ASSUME StoreOK, CallOK, BudgetOK, PackageOK, [Next]_vars
  PROVE  PackageOK'
<1>1. CASE BuildStarts \/ BuildContinues \/ BuildEnds
  <2>1. /\ UNCHANGED <<call, package, reply, results, candidates, stored>>
        /\ phase' = phase \/ (phase = "build" /\ phase' = "seed_query")
    BY <1>1, BuildOutside
  <2>2. phase = "build" => reply = "none"
    BY DEF CallOK
  <2>. QED
    BY <2>1, <2>2, OutsideKeepsPackage DEF Before
<1>2. CASE ActivationStep /\ UNCHANGED package
  BY <1>2, ActivationKeepsPackage
<1>3. CASE ContextStep
  BY <1>3, AssemblyKeepsPackage
<1>4. CASE OtherConnection /\ UNCHANGED package
  <2>1. UNCHANGED <<call, package, reply, phase, results, candidates>>
    BY <1>4, Zenon DEF OtherConnection, walk
  <2>. QED
    BY <2>1, OutsideKeepsPackage
<1>5. CASE UNCHANGED vars
  <2>1. UNCHANGED <<call, package, reply, phase, results, candidates>>
    BY <1>5, Zenon DEF vars, contextVars, activationVars, walk
  <2>. QED
    BY <2>1, OutsideKeepsPackage
<1>. QED
  BY <1>1, <1>2, <1>3, <1>4, <1>5, Zenon DEF Next, CallStep

LEMMA NothingSeen ==
  ASSUME CallOK, PackageOK, phase \in Before
  PROVE  scanned = 0 /\ ~Inspecting /\ reply = "none" /\ (\A n : ~Seen(n))
<1>1. scanned = 0 /\ reply = "none" /\ ~Inspecting
  BY DEF PackageOK, CallOK, Before, Inspecting, Read
<1>. QED
  BY <1>1 DEF Seen

LEMMA CompleteStep ==
  ASSUME StoreOK, CallOK, BudgetOK, PackageOK, CompleteOK, [Next]_vars
  PROVE  CompleteOK'
<1>1. ASSUME UNCHANGED <<call, package, reply, phase, results, candidates, stored>> PROVE CompleteOK'
  <2>1. \A n : (Settled(n)' <=> Settled(n)) /\ (Seen(n)' <=> Seen(n))
    BY <1>1 DEF Settled, Seen, package, stored, AdmittedIds, VisibleConflicts, SupersededBy, Targets, Sources
  <2>2. \A n : VisibleConflicts(n)' = VisibleConflicts(n) /\ EvidenceAt(n)' = EvidenceAt(n)
    BY <1>1 DEF stored, VisibleConflicts, Targets, Sources, EvidenceAt
  <2>3. UNCHANGED <<candidate, conflicted, ledger, revision>>
    BY <1>1 DEF package, stored
  <2>. QED
    BY <1>1, <2>1, <2>2, <2>3 DEF CompleteOK, Quiet, Assembling, Inspecting
<1>2. ASSUME phase \in Before, scanned' = scanned,
             ~Inspecting'
      PROVE  CompleteOK'
  <2>1. scanned' = 0
    BY <1>2, NothingSeen
  <2>2. \A n : ~Seen(n)'
    BY <2>1 DEF Seen
  <2>. QED
    BY <1>2, <2>2 DEF CompleteOK, Inspecting, Read
<1>3. CASE BuildStarts \/ BuildContinues \/ BuildEnds
  <2>1. /\ UNCHANGED <<call, package, reply, results, candidates, stored>>
        /\ phase' = phase \/ (phase = "build" /\ phase' = "seed_query")
    BY <1>3, BuildOutside
  <2>2. scanned' = scanned
    BY <2>1 DEF package
  <2>. QED
    BY <1>1, <1>2, <2>1, <2>2 DEF Before, Inspecting, Read
<1>4. CASE ActivationStep /\ UNCHANGED package
  <2>1. phase \in Before
    BY <1>4 DEF ActivationStep, SeedQuery, SeedRead, SearchFound, SeedsFound, RoutingIndex,
       NextPath, CycleClosed, NodeBudgetSpent, TargetVisited, TargetRevisited, FinishActivation,
       Considering, Before
  <2>2. scanned' = scanned
    BY <1>4 DEF package
  <2>. QED
    BY <1>2, <1>4, <2>1, <2>2, PhasesOfActivation DEF Inspecting, Read
<1>5. CASE ContextStep
  BY <1>5, AssemblyKeepsComplete
<1>6. CASE OtherConnection
  <2>1. revision' = revision + 1 /\ revision \in Nat
    BY <1>6 DEF OtherConnection, StoreOK
  <2>. QED
    BY <2>1 DEF CompleteOK, Quiet
<1>7. CASE UNCHANGED vars
  <2>1. UNCHANGED <<call, package, reply, phase, results, candidates, stored>>
    BY <1>7, Zenon DEF vars, contextVars, activationVars, walk
  <2>. QED
    BY <1>1, <2>1
<1>. QED
  BY <1>3, <1>4, <1>5, <1>6, <1>7, Zenon DEF Next, CallStep

(* At every statement of an assembly its counts add up, its limits hold, and *)
(* what it has seen and not admitted has a reason that still applies.        *)
THEOREM ContextInvariant == Spec => [](PackageOK /\ CompleteOK)
<1>1. Init => PackageOK /\ CompleteOK
  <2>. SUFFICES ASSUME Init PROVE PackageOK /\ CompleteOK
    OBVIOUS
  <2>1. CallOK
    BY InvariantInit DEF RetrievalInv
  <2>2. /\ phase \in {"build", "seed_query"} /\ reply = "none" /\ results = <<>>
        /\ scanned = 0 /\ skipped = 0 /\ admitted = <<>> /\ excluded = <<>> /\ bytes = 0
    BY Zenon DEF Init, ContextInit, ActivationInit
  <2>3. Sized(<<>>, 0)
    <3>1. Sums([i \in 0 .. Len(<<>>) |-> 0], <<>>) /\ [i \in 0 .. Len(<<>>) |-> 0] \in [0 .. Len(<<>>) -> Nat]
      BY DEF Sums
    <3>2. [i \in 0 .. Len(<<>>) |-> 0][Len(<<>>)] = 0
      OBVIOUS
    <3>. QED
      BY <3>1, <3>2, Zenon DEF Sized
  <2>4. call.maxBytes \in Nat /\ call.resultLimit \in Nat /\ call.candidateScan \in Nat
    BY <2>1, CallFields
  <2>5. Sized(admitted, bytes)
    BY <2>2, <2>3
  <2>6. PackageOK
    BY <2>2, <2>4, <2>5 DEF PackageOK, Before, Assembling, Inspecting, Read, ElementsOf
  <2>7. CompleteOK
    BY <2>2 DEF CompleteOK, Assembling, Inspecting, Read
  <2>. QED
    BY <2>6, <2>7
<1>2. RetrievalInv /\ PackageOK /\ CompleteOK /\ [Next]_vars => PackageOK' /\ CompleteOK'
  BY PackageStep, CompleteStep DEF RetrievalInv
<1>. QED
  BY <1>1, <1>2, RetrievalInvariant, PTL DEF Spec



(* The items of a package add up to its bytes.                             *)
LEMMA SizesAddUp ==
  ASSUME NEW S, admitted \in Seq(S), Sized(admitted, bytes)
  PROVE  LET size[i \in 0 .. Len(admitted)] ==
               IF i = 0 THEN 0 ELSE size[i - 1] + admitted[i].item.bytes
         IN bytes = size[Len(admitted)]
<1>. DEFINE n == Len(admitted)
            Recurrence(f) == f = [i \in 0 .. n |-> IF i = 0 THEN 0 ELSE f[i - 1] + admitted[i].item.bytes]
            size[i \in 0 .. n] == IF i = 0 THEN 0 ELSE size[i - 1] + admitted[i].item.bytes
<1>0. n \in Nat /\ DOMAIN admitted = 1 .. n
  OBVIOUS
<1>1. PICK f \in [0 .. n -> Nat] : Sums(f, admitted) /\ f[n] = bytes
  BY DEF Sized
<1>2. Recurrence(f)
  <2>1. \A i \in 0 .. n : f[i] = IF i = 0 THEN 0 ELSE f[i - 1] + admitted[i].item.bytes
    <3>1. \A i \in 0 .. n : i = 0 \/ i \in 1 .. n
      BY <1>0
    <3>. QED
      BY <1>0, <1>1, <3>1 DEF Sums
  <2>. QED
    BY <1>1, <2>1
<1>3. Recurrence(size)
  <2>1. size = CHOOSE g : Recurrence(g)
    BY Zenon
  <2>. HIDE DEF Recurrence, size
  <2>. QED
    BY <1>2, <2>1, Zenon
<1>4. Sums(size, admitted)
  <2>. HIDE DEF size
  <2>1. \A i \in 0 .. n : size[i] = IF i = 0 THEN 0 ELSE size[i - 1] + admitted[i].item.bytes
    BY <1>3, Zenon
  <2>2. 0 \in 0 .. n /\ \A i \in 1 .. n : i \in 0 .. n /\ i # 0
    BY <1>0
  <2>. QED
    BY <1>0, <2>1, <2>2 DEF Sums
<1>5. f[n] = size[n]
  <2>. HIDE DEF size
  <2>1. f[0] = size[0]
    BY <1>1, <1>4 DEF Sums
  <2>2. \A i \in 1 .. n : f[i - 1] = size[i - 1] => f[i] = size[i]
    BY <1>0, <1>1, <1>4 DEF Sums
  <2>. QED
    BY <1>0, <2>1, <2>2, EndAlike DEF Alike
<1>6. bytes = size[n]
  BY <1>1, <1>5, Zenon
<1>. QED
  BY <1>6, Zenon


(* The bytes of a package are the sizes of its items, its counts add up,   *)
(* every limit holds, and the reason it gives for its end is the true one. *)
THEOREM ContextAccountedFor == Spec => []ContextAccounted
<1>1. RetrievalInv /\ PackageOK => ContextAccounted
  <2>. SUFFICES ASSUME CallOK, PackageOK PROVE ContextAccounted
    BY DEF RetrievalInv
  <2>1. admitted \in Seq(ElementsOf(admitted)) /\ Sized(admitted, bytes)
    BY DEF PackageOK
  <2>2. LET size[i \in 0 .. Len(admitted)] ==
              IF i = 0 THEN 0 ELSE size[i - 1] + admitted[i].item.bytes
        IN bytes = size[Len(admitted)]
    BY <2>1, SizesAddUp, Zenon
  <2>3. /\ bytes <= call.maxBytes /\ Len(admitted) <= call.resultLimit /\ scanned <= call.candidateScan
        /\ phase \in {"candidate", "done"} /\ reply # "InvalidDatabase" =>
             scanned = skipped + Len(admitted) + Len(excluded)
    <3>1. phase = "candidate" => reply # "InvalidDatabase"
      BY DEF CallOK
    <3>. QED
      BY <3>1 DEF PackageOK
  <2>4. reply = "Context" =>
          /\ stopReason = "Exhausted" => scanned = Cardinality(DOMAIN candidates)
          /\ stopReason = "ScanLimit" => scanned < Cardinality(DOMAIN candidates)
          /\ stopReason = "ByteLimit" => bytes = call.maxBytes
    BY DEF PackageOK, Ranking
  <2>. QED
    BY <2>2, <2>3, <2>4, Zenon DEF ContextAccounted
<1>. QED
  BY <1>1, RetrievalInvariant, ContextInvariant, PTL

(* With one connection, what an exhausted package leaves out has a reason: *)
(* an admissible item that a walk reached, and that fits, is in it.        *)
THEOREM ContextsComplete == Spec => []ContextComplete
<1>1. RetrievalInv /\ PackageOK /\ CompleteOK => ContextComplete
  <2>. SUFFICES ASSUME CallOK, PackageOK, CompleteOK, reply = "Context", stopReason = "Exhausted", Quiet,
                       NEW e \in DOMAIN ledger.items, ledger.items[e].node \in DOMAIN candidates
                PROVE  Settled(e)
    BY DEF RetrievalInv, ContextComplete, Settled
  <2>1. Ranking /\ scanned = Len(results)
    BY DEF PackageOK
  <2>2. results \in Seq(Result) /\ DOMAIN candidates = {results[i].node : i \in DOMAIN results}
    BY <2>1 DEF Ranking
  <2>3. DOMAIN results = 1 .. scanned
    BY <2>1, <2>2
  <2>4. Seen(e)
    BY <2>2, <2>3 DEF Seen
  <2>5. ~Inspecting
    BY DEF CallOK, Inspecting, Read
  <2>. QED
    BY <2>4, <2>5 DEF CompleteOK
<1>. QED
  BY <1>1, RetrievalInvariant, ContextInvariant, PTL



-----------------------------------------------------------------------------
(* Rivals.  The nodes of a walk have been given out, so that an item that   *)
(* is applied later has another node.                                      *)
KnownOK ==
  /\ SeedNodes \cup DOMAIN candidates \subseteq issued
  /\ phase = "admit" => \A row \in ElementsOf(rows) : row.target \in issued

LEMMA OthersIssue ==
  ASSUME OtherConnection
  PROVE  issued \subseteq issued'
<1>1. ASSUME NEW key, BundleRolledBack(key) PROVE issued' = issued
  BY <1>1, Zenon DEF BundleRolledBack
<1>2. ASSUME NEW b, BundleApplied(b) PROVE issued \subseteq issued'
  <2>1. issued' = issued \cup NodesOf(b.items)
    BY <1>2, Zenon DEF BundleApplied
  <2>. QED
    BY <2>1
<1>3. CASE WeightUpdated
  BY <1>3 DEF WeightUpdated
<1>. QED
  BY <1>1, <1>2, <1>3 DEF OtherConnection

LEMMA KnownStep ==
  ASSUME StoreOK, CallOK, KnownOK, stats.visitedEdges \in Nat, stats.visitedEdges <= call.maxEdges,
         [Next]_vars
  PROVE  KnownOK'
<1>1. ASSUME issued \subseteq issued', UNCHANGED <<seeds, candidates>>,
             phase' = "admit" => phase = "admit" /\ UNCHANGED rows
      PROVE  KnownOK'
  BY <1>1 DEF KnownOK, SeedNodes, ElementsOf
<1>2. CASE BuildStarts \/ BuildContinues \/ BuildEnds
  <2>1. UNCHANGED <<stored, seeds, rows, candidates>>
    BY <1>2, Zenon DEF BuildStarts, BuildContinues, BuildEnds, BuildUnchanged, walk
  <2>2. phase' = phase \/ phase' = "seed_query"
    BY <1>2, Zenon DEF BuildStarts, BuildContinues, BuildEnds
  <2>. QED
    BY <1>1, <2>1, <2>2 DEF stored
<1>3. CASE SeedQuery \/ SearchFound \/ FinishActivation
  BY <1>1, <1>3 DEF SeedQuery, SearchFound, FinishActivation, ReportDone, Answer, stored, walk
<1>4. CASE SeedRead
  <2>1. UNCHANGED <<issued, candidates>> /\ phase' # "admit"
    BY <1>4 DEF SeedRead, Answer, stored, walk
  <2>2. CASE Head(hits) \in nodes
    <3>1. seeds' = Append(seeds, [node |-> Head(hits), score |-> call.matches[Head(hits)] * Scale])
      BY <1>4, <2>2 DEF SeedRead
    <3>2. seeds \in Seq(Seed) /\ Head(hits) \in issued
      BY <2>2 DEF CallOK, StoreOK
    <3>3. \A i \in DOMAIN seeds' : seeds'[i].node \in SeedNodes \cup {Head(hits)}
      <4>. DEFINE new == [node |-> Head(hits), score |-> call.matches[Head(hits)] * Scale]
      <4>1. new.node = Head(hits)
        OBVIOUS
      <4>. HIDE DEF new
      <4>2. seeds' = Append(seeds, new)
        BY <3>1 DEF new
      <4>3. \A i \in DOMAIN seeds' : (i \in DOMAIN seeds /\ seeds'[i] = seeds[i]) \/ seeds'[i] = new
        BY <3>2, <4>2
      <4>. QED
        BY <4>1, <4>3 DEF SeedNodes
    <3>4. SeedNodes' \subseteq SeedNodes \cup {Head(hits)}
      BY <3>3 DEF SeedNodes
    <3>. QED
      BY <2>1, <3>2, <3>4 DEF KnownOK
  <2>3. CASE Head(hits) \notin nodes
    <3>1. UNCHANGED seeds
      BY <1>4, <2>3 DEF SeedRead
    <3>. QED
      BY <1>1, <2>1, <3>1
  <2>. QED
    BY <2>2, <2>3
<1>5. CASE SeedsFound \/ RoutingIndex
  <2>1. UNCHANGED <<issued, seeds>> /\ phase' # "admit" /\ DOMAIN candidates' \subseteq DOMAIN candidates \cup SeedNodes
    <3>1. StartWalk => phase' # "admit" /\ DOMAIN candidates' \subseteq DOMAIN candidates \cup SeedNodes
      BY DEF StartWalk, ReportDone, Answer, walk, Nothing
    <3>. QED
      BY <1>5, <3>1 DEF SeedsFound, RoutingIndex, Answer, stored, walk
  <2>2. SeedNodes' = SeedNodes
    BY <2>1 DEF SeedNodes
  <2>. QED
    BY <2>1, <2>2 DEF KnownOK
<1>6. CASE NextPath
  <2>1. UNCHANGED <<issued, seeds, candidates>> /\ phase = "next"
    BY <1>6 DEF NextPath, stored
  <2>2. CASE Exhausted(Head(queue))
    BY <1>1, <1>6, <2>1, <2>2 DEF NextPath
  <2>3. CASE ~Exhausted(Head(queue))
    <3>1. rows' = OrderedRelations(Head(queue).node)
      BY <1>6, <2>3 DEF NextPath
    <3>2. Head(queue) \in Path
      BY <1>6 DEF NextPath, CallOK
    <3>3. Head(queue).node \in MemoryNodes
      BY <3>2 DEF Path
    <3>4. rows' \in Seq(RowsOf(Head(queue).node))
      BY <3>1, <3>3, RowsOrdered
    <3>5. \A row \in ElementsOf(rows)' : row.target \in nodes
      BY <3>3, <3>4, RowsTyped DEF ElementsOf
    <3>6. SeedNodes' = SeedNodes
      BY <2>1 DEF SeedNodes
    <3>. QED
      BY <2>1, <3>5, <3>6 DEF KnownOK, StoreOK
  <2>. QED
    BY <2>2, <2>3
<1>7. CASE CycleClosed \/ NodeBudgetSpent \/ TargetVisited \/ TargetRevisited
  <2>1. PICK row \in ElementsOf(rows) :
          /\ Considering(row)
          /\ \/ Continue(Edges) /\ UNCHANGED candidates
             \/ phase' = "next" /\ UNCHANGED candidates
             \/ Continue(Edges) /\ Extend(row, row.target)
             \/ phase' = "done" /\ UNCHANGED candidates
    BY <1>7, Zenon DEF CycleClosed, NodeBudgetSpent, TargetVisited, TargetRevisited, Answer
  <2>2. /\ UNCHANGED <<issued, seeds>> /\ phase = "admit"
        /\ rows \in Seq(Row) /\ rows # <<>>
    BY <2>1, HeadOfRows DEF Considering, stored
  <2>3. row.target \in issued /\ \A q \in ElementsOf(rows) : q.target \in issued
    BY <2>2 DEF KnownOK
  <2>4. phase' = "admit" => ElementsOf(rows)' \subseteq ElementsOf(rows)
    <3>1. Continue(Edges) => (phase' = "admit" => rows' = Tail(rows))
      BY <2>2, Continuing
    <3>2. rows' = Tail(rows) => ElementsOf(rows)' \subseteq ElementsOf(rows)
      BY <2>2 DEF ElementsOf
    <3>. QED
      BY <2>1, <3>1, <3>2
  <2>5. DOMAIN candidates' \subseteq DOMAIN candidates \cup {row.target}
    <3>1. Extend(row, row.target) => DOMAIN candidates' \subseteq DOMAIN candidates \cup {row.target}
      BY DEF Extend, ConsiderCandidate, Put
    <3>. QED
      BY <2>1, <3>1
  <2>6. SeedNodes' = SeedNodes
    BY <2>2 DEF SeedNodes
  <2>. QED
    BY <2>2, <2>3, <2>4, <2>5, <2>6 DEF KnownOK
<1>8. CASE ContextStep
  BY <1>1, <1>8, Assembles DEF stored, walk, Read
<1>9. CASE OtherConnection
  <2>1. UNCHANGED <<phase, seeds, rows, candidates>>
    BY <1>9, Zenon DEF OtherConnection, walk
  <2>. QED
    BY <1>1, <1>9, <2>1, OthersIssue
<1>10. CASE UNCHANGED vars
  BY <1>1, <1>10 DEF vars, contextVars, activationVars, stored, walk
<1>. QED
  BY <1>2, <1>3, <1>4, <1>5, <1>6, <1>7, <1>8, <1>9, <1>10, Zenon DEF Next, CallStep, ActivationStep

(* What was read of an item is true as long as its node is there: it is the *)
(* item of its ID, and its references are stored.                          *)
Current(x) ==
  /\ x.item.node \in issued
  /\ x.item.node \in nodes =>
       /\ x.id \in EvidenceAt(x.item.node)
       /\ \A e \in x.rivals : \E p \in References(ledger) : p.from = x.id /\ p.to = e

(* A reference from an item that was applied after the walk.               *)
Afterwards(p) == ledger.items[p.from].node \notin DOMAIN candidates

Unrivalled(x) == \A p \in References(ledger) : p.to = x.id => Afterwards(p)

RivalsOK ==
  /\ phase = "item" => candidate.rivals = {}
  /\ phase \in Read => Current(candidate)
  /\ phase = "superseded" =>
       \A p \in ledger.conflicts : p.to = candidate.id => p.from \in conflicted \/ Afterwards(p)
  /\ \A i \in DOMAIN admitted :
       Current(admitted[i]) /\ Unrivalled(admitted[i]) /\ admitted[i].node \in DOMAIN candidates
  /\ Quiet => \A i \in DOMAIN admitted :
                VisibleConflicts(admitted[i].id) = {} /\ SupersededBy(admitted[i].id) = {}

LEMMA RollbackLeaves ==
  ASSUME StoreOK, NEW key, BundleRolledBack(key), UNCHANGED candidates
  PROVE  /\ \A x : Current(x) => Current(x)'
         /\ ledger'.conflicts \subseteq ledger.conflicts /\ References(ledger') \subseteq References(ledger)
         /\ \A p \in References(ledger') : Afterwards(p)' <=> Afterwards(p)
<1>. DEFINE items == {e \in DOMAIN ledger.items : ledger.items[e].bundle = key}
            own == {ledger.items[e].node : e \in items}
            left(pairs) == {p \in pairs : p.from \notin items}
<1>1. ledger' = [items |-> Restricted(ledger.items, DOMAIN ledger.items \ items),
                 conflicts |-> left(ledger.conflicts), supersessions |-> left(ledger.supersessions)]
  BY Zenon DEF BundleRolledBack
<1>2. nodes' = nodes \ own /\ issued' = issued
  BY Zenon DEF BundleRolledBack
<1>3. \A e \in items : ledger.items[e].node \in own
  OBVIOUS
<1>. HIDE DEF items, own
<1>4. /\ \A e \in DOMAIN ledger.items : e \notin items => e \in DOMAIN ledger'.items
      /\ \A e \in DOMAIN ledger'.items : ledger'.items[e] = ledger.items[e]
  BY <1>1 DEF Restricted
<1>5. /\ \A p : p \in ledger'.conflicts <=> p \in ledger.conflicts /\ p.from \notin items
      /\ \A p : p \in ledger'.supersessions <=> p \in ledger.supersessions /\ p.from \notin items
  BY <1>1
<1>6. \A p : p \in References(ledger') <=> p \in References(ledger) /\ p.from \notin items
  BY <1>5 DEF References
<1>7. ASSUME NEW p \in References(ledger')
      PROVE  Afterwards(p)' <=> Afterwards(p)
  <2>1. p.from \in DOMAIN ledger.items /\ p.from \notin items
    BY <1>6 DEF StoreOK
  <2>2. ledger'.items[p.from] = ledger.items[p.from]
    BY <1>4, <2>1
  <2>. QED
    BY <2>2 DEF Afterwards
<1>8. ASSUME NEW x, Current(x)
      PROVE  Current(x)'
  <2>1. x.item.node \in issued'
    BY <1>2, <1>8 DEF Current
  <2>2. ASSUME x.item.node \in nodes'
        PROVE  /\ x.id \in EvidenceAt(x.item.node)'
               /\ \A e \in x.rivals : \E p \in References(ledger') : p.from = x.id /\ p.to = e
    <3>1. x.item.node \in nodes /\ x.item.node \notin own
      BY <1>2, <2>2
    <3>2. x.id \in DOMAIN ledger.items /\ ledger.items[x.id].node = x.item.node
      BY <1>8, <3>1 DEF Current, EvidenceAt
    <3>3. x.id \notin items
      BY <1>3, <3>1, <3>2
    <3>4. x.id \in EvidenceAt(x.item.node)'
      BY <1>4, <3>2, <3>3 DEF EvidenceAt
    <3>5. \A e \in x.rivals : \E p \in References(ledger) : p.from = x.id /\ p.to = e
      BY <1>8, <3>1 DEF Current
    <3>. QED
      BY <1>6, <3>3, <3>4, <3>5
  <2>. QED
    BY <2>1, <2>2 DEF Current
<1>. QED
  BY <1>5, <1>6, <1>7, <1>8

LEMMA ApplyLeaves ==
  ASSUME StoreOK, KnownOK, NEW b \in NewBundles, BundleApplied(b), UNCHANGED candidates
  PROVE  /\ \A x : Current(x) => Current(x)'
         /\ \A p \in ledger'.conflicts : p \in ledger.conflicts \/ Afterwards(p)'
         /\ \A p \in References(ledger') : p \in References(ledger) \/ Afterwards(p)'
         /\ \A p \in References(ledger) : Afterwards(p)' <=> Afterwards(p)
<1>. DEFINE items == [e \in DOMAIN ledger.items \cup DOMAIN b.items |->
                        IF e \in DOMAIN b.items THEN b.items[e] ELSE ledger.items[e]]
<1>1. /\ DOMAIN b.items \cap DOMAIN ledger.items = {}
      /\ NodesOf(b.items) \cap issued = {}
      /\ ledger' = [items |-> items, conflicts |-> ledger.conflicts \cup b.conflicts,
                    supersessions |-> ledger.supersessions \cup b.supersessions]
      /\ nodes' = nodes \cup NodesOf(b.items) /\ issued' = issued \cup NodesOf(b.items)
  BY Zenon DEF BundleApplied
<1>2. BundleValid(b)
  BY BundlesValid
<1>3. /\ DOMAIN ledger'.items = DOMAIN ledger.items \cup DOMAIN b.items
      /\ \A e \in DOMAIN b.items : ledger'.items[e] = b.items[e]
      /\ \A e \in DOMAIN ledger.items : ledger'.items[e] = ledger.items[e]
  BY <1>1
<1>4. /\ ledger'.conflicts = ledger.conflicts \cup b.conflicts
      /\ ledger'.supersessions = ledger.supersessions \cup b.supersessions
  BY <1>1
<1>5. References(ledger') = References(ledger) \cup References(b)
  BY <1>4 DEF References
<1>6. ASSUME NEW p \in References(b)
      PROVE  Afterwards(p)'
  <2>1. p.from \in DOMAIN b.items
    BY <1>2 DEF BundleValid
  <2>2. ledger'.items[p.from].node \in NodesOf(b.items)
    BY <1>3, <2>1 DEF NodesOf
  <2>. QED
    BY <1>1, <2>2 DEF Afterwards, KnownOK
<1>7. ASSUME NEW p \in References(ledger)
      PROVE  Afterwards(p)' <=> Afterwards(p)
  <2>1. p.from \in DOMAIN ledger.items
    BY DEF StoreOK
  <2>. QED
    BY <1>3, <2>1 DEF Afterwards
<1>8. ASSUME NEW x, Current(x)
      PROVE  Current(x)'
  <2>1. x.item.node \in issued'
    BY <1>1, <1>8 DEF Current
  <2>2. ASSUME x.item.node \in nodes'
        PROVE  /\ x.id \in EvidenceAt(x.item.node)'
               /\ \A e \in x.rivals : \E p \in References(ledger') : p.from = x.id /\ p.to = e
    <3>1. x.item.node \in nodes
      BY <1>1, <1>8, <2>2 DEF Current
    <3>2. x.id \in DOMAIN ledger.items /\ ledger.items[x.id].node = x.item.node
      BY <1>8, <3>1 DEF Current, EvidenceAt
    <3>3. x.id \in EvidenceAt(x.item.node)'
      BY <1>3, <3>2 DEF EvidenceAt
    <3>4. \A e \in x.rivals : \E p \in References(ledger) : p.from = x.id /\ p.to = e
      BY <1>8, <3>1 DEF Current
    <3>. QED
      BY <1>5, <3>3, <3>4
  <2>. QED
    BY <2>1, <2>2 DEF Current
<1>9. b.conflicts \subseteq References(b)
  BY DEF References
<1>. QED
  BY <1>4, <1>5, <1>6, <1>7, <1>8, <1>9

LEMMA OthersLeave ==
  ASSUME StoreOK, KnownOK, OtherConnection
  PROVE  /\ \A x : Current(x) => Current(x)'
         /\ \A p \in ledger'.conflicts : p \in ledger.conflicts \/ Afterwards(p)'
         /\ \A p \in References(ledger') : p \in References(ledger) \/ Afterwards(p)'
         /\ \A p \in References(ledger) \cap References(ledger') : Afterwards(p) => Afterwards(p)'
<1>1. UNCHANGED candidates
  BY Zenon DEF OtherConnection, walk
<1>2. ASSUME NEW key, BundleRolledBack(key)
      PROVE  /\ \A x : Current(x) => Current(x)'
             /\ ledger'.conflicts \subseteq ledger.conflicts /\ References(ledger') \subseteq References(ledger)
             /\ \A p \in References(ledger') : Afterwards(p)' <=> Afterwards(p)
  BY <1>1, <1>2, RollbackLeaves, Zenon
<1>3. ASSUME NEW b \in NewBundles, BundleApplied(b)
      PROVE  /\ \A x : Current(x) => Current(x)'
             /\ \A p \in ledger'.conflicts : p \in ledger.conflicts \/ Afterwards(p)'
             /\ \A p \in References(ledger') : p \in References(ledger) \/ Afterwards(p)'
             /\ \A p \in References(ledger) : Afterwards(p)' <=> Afterwards(p)
  BY <1>1, <1>3, ApplyLeaves, Zenon
<1>4. CASE WeightUpdated
  <2>1. UNCHANGED <<nodes, issued, ledger, candidates>>
    BY <1>1, <1>4 DEF WeightUpdated
  <2>. QED
    BY <2>1 DEF Current, Afterwards, EvidenceAt, References
<1>5. (\E key : BundleRolledBack(key)) \/ (\E b \in NewBundles : BundleApplied(b)) \/ WeightUpdated
  BY Zenon DEF OtherConnection
<1>. QED
  BY <1>2, <1>3, <1>4, <1>5

LEMMA JudgeKeepsRivals ==
  ASSUME StoreOK, CallOK, PackageOK, CompleteOK, RivalsOK, Judge
  PROVE  RivalsOK'
<1>1. /\ UNCHANGED <<nodes, issued, ledger, revision, candidates, candidate>>
      /\ phase = "superseded" /\ phase' \in {"candidate", "done"}
  BY Zenon DEF Judge, Reading, Answer, stored, walk
<1>2. /\ \A x : Current(x) => Current(x)'
      /\ \A x : Unrivalled(x) => Unrivalled(x)'
      /\ \A e : VisibleConflicts(e)' = VisibleConflicts(e) /\ SupersededBy(e)' = SupersededBy(e)
      /\ Quiet' <=> Quiet
  BY <1>1 DEF Current, Unrivalled, Afterwards, EvidenceAt, References, VisibleConflicts, SupersededBy,
     Targets, Sources, Quiet
<1>3. ASSUME NEW x \in ElementsOf(admitted)
      PROVE  /\ Current(x)' /\ Unrivalled(x)' /\ x.node \in DOMAIN candidates'
             /\ Quiet' => VisibleConflicts(x.id)' = {} /\ SupersededBy(x.id)' = {}
  BY <1>1, <1>2 DEF RivalsOK, ElementsOf
<1>4. admitted \in Seq(ElementsOf(admitted))
  BY DEF PackageOK
<1>5. CASE Exclusion(SupersededBy(candidate.id)) # "none"
  <2>1. UNCHANGED admitted
    BY <1>5 DEF Judge
  <2>. QED
    BY <1>1, <1>3, <2>1 DEF RivalsOK, Read, ElementsOf
<1>6. CASE Exclusion(SupersededBy(candidate.id)) = "none"
  <2>1. admitted' = Append(admitted, candidate)
    BY <1>6 DEF Judge
  <2>2. conflicted = {} /\ SupersededBy(candidate.id) = {}
    BY <1>6, NoExclusion
  <2>3. Current(candidate) /\ candidate.node \in DOMAIN candidates
    <3>1. Inspecting
      BY <1>1 DEF Inspecting, Read
    <3>2. Ranking /\ scanned \in DOMAIN results /\ candidate.node = results[scanned].node
      BY <3>1 DEF PackageOK, Assembling
    <3>. QED
      BY <1>1, <3>2 DEF RivalsOK, Read, Ranking
  <2>4. Unrivalled(candidate)
    <3>. SUFFICES ASSUME NEW p \in References(ledger), p.to = candidate.id
                  PROVE  Afterwards(p)
      BY DEF Unrivalled
    <3>1. p \notin ledger.supersessions
      BY <2>2 DEF SupersededBy, Sources
    <3>2. p \in ledger.conflicts
      BY <3>1 DEF References
    <3>. QED
      BY <1>1, <2>2, <3>2 DEF RivalsOK
  <2>5. Quiet => VisibleConflicts(candidate.id) = {}
    BY <1>1, <2>2 DEF CompleteOK
  <2>6. ASSUME NEW x, x = candidate
        PROVE  /\ Current(x)' /\ Unrivalled(x)' /\ x.node \in DOMAIN candidates'
               /\ Quiet' => VisibleConflicts(x.id)' = {} /\ SupersededBy(x.id)' = {}
    BY <1>1, <1>2, <2>2, <2>3, <2>4, <2>5, <2>6
  <2>7. ASSUME NEW i \in DOMAIN admitted'
        PROVE  admitted'[i] \in ElementsOf(admitted) \cup {candidate}
    BY <1>4, <2>1 DEF ElementsOf
  <2>8. \A i \in DOMAIN admitted' : \E x : x = admitted'[i]
    OBVIOUS
  <2>9. (\A i \in DOMAIN admitted :
           /\ Current(admitted[i]) /\ Unrivalled(admitted[i]) /\ admitted[i].node \in DOMAIN candidates
           /\ Quiet => VisibleConflicts(admitted[i].id) = {} /\ SupersededBy(admitted[i].id) = {})'
    BY <1>3, <2>6, <2>7 DEF Current, Unrivalled, VisibleConflicts, SupersededBy
  <2>. QED
    BY <1>1, <2>9 DEF RivalsOK, Read
<1>. QED
  BY <1>5, <1>6

LEMMA AssemblyKeepsRivals ==
  ASSUME StoreOK, CallOK, PackageOK, CompleteOK, RivalsOK, ContextStep
  PROVE  RivalsOK'
<1>1. UNCHANGED <<nodes, issued, ledger, revision, candidates>>
  BY Assembles, Zenon DEF stored, walk
<1>2. /\ \A x : Current(x) => Current(x)'
      /\ \A x : Unrivalled(x) => Unrivalled(x)'
      /\ \A p : Afterwards(p) => Afterwards(p)'
      /\ \A e : VisibleConflicts(e)' = VisibleConflicts(e) /\ SupersededBy(e)' = SupersededBy(e)
      /\ Quiet' <=> Quiet
  BY <1>1 DEF Current, Unrivalled, Afterwards, EvidenceAt, References, VisibleConflicts, SupersededBy,
     Targets, Sources, Quiet
<1>3. ASSUME UNCHANGED admitted
      PROVE  /\ \A i \in DOMAIN admitted' :
                  /\ Current(admitted[i])' /\ Unrivalled(admitted[i])'
                  /\ admitted'[i].node \in DOMAIN candidates'
             /\ Quiet' => \A i \in DOMAIN admitted' :
                            VisibleConflicts(admitted[i].id)' = {} /\ SupersededBy(admitted[i].id)' = {}
  <2>1. ASSUME NEW x \in ElementsOf(admitted)
        PROVE  /\ Current(x)' /\ Unrivalled(x)' /\ x.node \in DOMAIN candidates'
               /\ Quiet' => VisibleConflicts(x.id)' = {} /\ SupersededBy(x.id)' = {}
    BY <1>1, <1>2 DEF RivalsOK, ElementsOf
  <2>2. \A i \in DOMAIN admitted' : admitted'[i] \in ElementsOf(admitted)
    BY <1>3 DEF ElementsOf
  <2>. QED
    BY <2>1, <2>2 DEF Current, Unrivalled, VisibleConflicts, SupersededBy
<1>4. ASSUME UNCHANGED admitted, phase' \notin {"item"} \cup Read
      PROVE  RivalsOK'
  BY <1>3, <1>4 DEF RivalsOK, Read
<1>5. CASE NextCandidate
  <2>1. UNCHANGED admitted /\ phase' \in {"item", "candidate"}
    BY <1>5 DEF NextCandidate, Skip
  <2>2. phase' = "item" => candidate'.rivals = {}
    BY <1>5 DEF NextCandidate, Skip, Candidate
  <2>. QED
    BY <1>3, <2>1, <2>2 DEF RivalsOK, Read
<1>6. ASSUME UNCHANGED admitted, phase' \in Read, Current(candidate)',
             phase' = "superseded" =>
               \A p \in ledger.conflicts : p.to = candidate'.id => p.from \in conflicted'
      PROVE  RivalsOK'
  BY <1>1, <1>3, <1>6 DEF RivalsOK, Read
<1>7. DOMAIN candidate = {"node", "score", "id", "item", "rivals"}
  BY DEF CallOK
<1>8. CASE ReadItem
  <2>1. UNCHANGED admitted /\ phase = "item"
    BY <1>8 DEF ReadItem, Reading
  <2>2. CASE candidate.id \in DOMAIN ledger.items
    <3>1. /\ candidate'.item = ledger.items[candidate.id] /\ candidate'.id = candidate.id
          /\ candidate'.rivals = candidate.rivals /\ phase' = "decode"
      BY <1>7, <1>8, <2>2 DEF ReadItem
    <3>2. candidate'.rivals = {}
      BY <2>1, <3>1 DEF RivalsOK
    <3>3. ledger.items[candidate.id].node \in issued
      BY <2>2 DEF StoreOK, NodesOf
    <3>4. candidate'.id \in EvidenceAt(candidate.item.node)'
      BY <1>1, <2>2, <3>1 DEF EvidenceAt
    <3>5. Current(candidate)'
      BY <1>1, <3>1, <3>2, <3>3, <3>4 DEF Current
    <3>. QED
      BY <1>6, <2>1, <3>1, <3>5 DEF Read
  <2>3. CASE candidate.id \notin DOMAIN ledger.items
    BY <1>4, <1>8, <2>1, <2>3 DEF ReadItem, Skip, Read
  <2>. QED
    BY <2>2, <2>3
<1>9. ASSUME phase \in Read, UNCHANGED candidate
      PROVE  Current(candidate)'
  <2>1. ASSUME NEW x, x = candidate PROVE Current(x)'
    BY <1>2, <1>9, <2>1 DEF RivalsOK
  <2>. QED
    BY <1>9, <2>1 DEF Current
<1>10. CASE DecodeItem
  <2>1. UNCHANGED <<candidate, admitted>> /\ phase \in Read /\ phase' \in {"conflicts_with", "done"}
    BY <1>10 DEF DecodeItem, Reading, Answer, Read
  <2>. QED
    BY <1>4, <1>6, <1>9, <2>1 DEF Read
<1>11. CASE ReadConflictsWith \/ ReadSupersedes
  <2>1. UNCHANGED admitted /\ phase \in Read /\ phase' \in {"supersedes", "conflicts"}
    BY <1>11 DEF ReadConflictsWith, ReadSupersedes, ReadReferences, Reading, Read
  <2>2. PICK pairs \in {ledger.conflicts, ledger.supersessions} : ReadReferences(pairs)
    BY <1>11 DEF ReadConflictsWith, ReadSupersedes
  <2>3. /\ candidate'.id = candidate.id /\ candidate'.item = candidate.item
        /\ candidate'.rivals = candidate.rivals \cup Targets(pairs, candidate.id)
    BY <1>7, <2>2 DEF ReadReferences
  <2>4. Current(candidate)
    BY <2>1 DEF RivalsOK
  <2>5. \A e \in Targets(pairs, candidate.id) :
          \E p \in References(ledger) : p.from = candidate.id /\ p.to = e
    BY <2>2 DEF Targets, References
  <2>6. Current(candidate)'
    BY <1>1, <2>3, <2>4, <2>5 DEF Current, EvidenceAt
  <2>. QED
    BY <1>6, <2>1, <2>6 DEF Read
<1>12. CASE ReadConflicts
  <2>1. /\ UNCHANGED <<candidate, admitted>> /\ phase \in Read /\ phase' = "superseded"
        /\ conflicted' = VisibleConflicts(candidate.id)
    BY <1>12 DEF ReadConflicts, Reading, Read
  <2>2. \A p \in ledger.conflicts : p.to = candidate.id => p.from \in VisibleConflicts(candidate.id)
    BY DEF VisibleConflicts, Sources
  <2>. QED
    BY <1>6, <1>9, <2>1, <2>2 DEF Read
<1>13. CASE Judge
  BY <1>13, JudgeKeepsRivals
<1>14. CASE ScanEnds
  BY <1>4, <1>14 DEF ScanEnds, Answer, Read
<1>. QED
  BY <1>5, <1>8, <1>10, <1>11, <1>12, <1>13, <1>14, Zenon DEF ContextStep

LEMMA RivalsStep ==
  ASSUME StoreOK, CallOK, PackageOK, CompleteOK, KnownOK, RivalsOK, [Next]_vars
  PROVE  RivalsOK'
<1>1. ASSUME UNCHANGED <<stored, package, candidates>>, phase' = phase
      PROVE  RivalsOK'
  <2>1. UNCHANGED <<nodes, issued, ledger, revision, candidates, phase, candidate, conflicted, admitted>>
    BY <1>1, Zenon DEF stored, package
  <2>2. /\ \A x : Current(x) => Current(x)'
        /\ \A x : Unrivalled(x) => Unrivalled(x)'
        /\ \A p : Afterwards(p) => Afterwards(p)'
        /\ \A e : VisibleConflicts(e)' = VisibleConflicts(e) /\ SupersededBy(e)' = SupersededBy(e)
        /\ Quiet' <=> Quiet
    BY <2>1 DEF Current, Unrivalled, Afterwards, EvidenceAt, References, VisibleConflicts, SupersededBy,
       Targets, Sources, Quiet
  <2>3. ASSUME NEW x \in ElementsOf(admitted)
        PROVE  /\ Current(x)' /\ Unrivalled(x)' /\ x.node \in DOMAIN candidates'
               /\ Quiet' => VisibleConflicts(x.id)' = {} /\ SupersededBy(x.id)' = {}
    BY <2>1, <2>2 DEF RivalsOK, ElementsOf
  <2>4. \A i \in DOMAIN admitted' : admitted'[i] \in ElementsOf(admitted)
    BY <2>1 DEF ElementsOf
  <2>5. (\A i \in DOMAIN admitted :
           /\ Current(admitted[i]) /\ Unrivalled(admitted[i]) /\ admitted[i].node \in DOMAIN candidates
           /\ Quiet => VisibleConflicts(admitted[i].id) = {} /\ SupersededBy(admitted[i].id) = {})'
    BY <2>3, <2>4 DEF Current, Unrivalled, VisibleConflicts, SupersededBy
  <2>6. ASSUME NEW x, x = candidate, phase \in Read PROVE Current(x)'
    BY <2>2, <2>6 DEF RivalsOK
  <2>7. phase' \in Read => Current(candidate)'
    BY <2>1, <2>6 DEF Current
  <2>8. phase' = "superseded" =>
          \A p \in ledger'.conflicts : p.to = candidate'.id => p.from \in conflicted' \/ Afterwards(p)'
    BY <2>1, <2>2 DEF RivalsOK
  <2>. QED
    BY <2>1, <2>5, <2>7, <2>8 DEF RivalsOK
<1>2. ASSUME phase \in Before, phase' \notin {"item"} \cup Read, UNCHANGED package
      PROVE  RivalsOK'
  <2>1. admitted = <<>> /\ admitted' = <<>>
    BY <1>2 DEF PackageOK, package
  <2>. QED
    BY <1>2, <2>1 DEF RivalsOK, Read
<1>3. CASE BuildStarts \/ BuildContinues \/ BuildEnds
  BY <1>1, <1>2, <1>3, BuildOutside DEF Before, Read
<1>4. CASE ActivationStep /\ UNCHANGED package
  <2>1. phase \in Before
    BY <1>4 DEF ActivationStep, SeedQuery, SeedRead, SearchFound, SeedsFound, RoutingIndex,
       NextPath, CycleClosed, NodeBudgetSpent, TargetVisited, TargetRevisited, FinishActivation,
       Considering, Before
  <2>. QED
    BY <1>2, <1>4, <2>1, PhasesOfActivation DEF Read
<1>5. CASE ContextStep
  BY <1>5, AssemblyKeepsRivals
<1>6. CASE OtherConnection /\ UNCHANGED package
  <2>1. UNCHANGED <<phase, candidate, conflicted, admitted, candidates>> /\ ~Quiet'
    <3>1. revision' = revision + 1 /\ revision \in Nat
      BY <1>6 DEF OtherConnection, StoreOK
    <3>2. ~Quiet'
      BY <3>1 DEF Quiet
    <3>. QED
      BY <1>6, <3>2, Zenon DEF OtherConnection, package, walk
  <2>2. /\ \A x : Current(x) => Current(x)'
        /\ \A p \in ledger'.conflicts : p \in ledger.conflicts \/ Afterwards(p)'
        /\ \A p \in References(ledger') : p \in References(ledger) \/ Afterwards(p)'
        /\ \A p \in References(ledger) \cap References(ledger') : Afterwards(p) => Afterwards(p)'
    BY <1>6, OthersLeave
  <2>3. ASSUME NEW x, x \in ElementsOf(admitted)
        PROVE  Current(x)' /\ Unrivalled(x)' /\ x.node \in DOMAIN candidates'
    <3>1. Current(x) /\ Unrivalled(x) /\ x.node \in DOMAIN candidates
      BY <2>3 DEF RivalsOK, ElementsOf
    <3>2. Unrivalled(x)'
      BY <2>2, <3>1 DEF Unrivalled
    <3>. QED
      BY <2>1, <2>2, <3>1, <3>2
  <2>4. (\A i \in DOMAIN admitted :
           Current(admitted[i]) /\ Unrivalled(admitted[i]) /\ admitted[i].node \in DOMAIN candidates)'
    <3>1. \A i \in DOMAIN admitted' : admitted'[i] \in ElementsOf(admitted)
      BY <2>1 DEF ElementsOf
    <3>. QED
      BY <2>3, <3>1 DEF Current, Unrivalled
  <2>5. phase' \in Read => Current(candidate)'
    <3>1. ASSUME NEW x, x = candidate, phase \in Read PROVE Current(x)'
      BY <2>2, <3>1 DEF RivalsOK
    <3>. QED
      BY <2>1, <3>1 DEF Current
  <2>6. phase' = "superseded" =>
          \A p \in ledger'.conflicts : p.to = candidate'.id => p.from \in conflicted' \/ Afterwards(p)'
    <3>1. \A p \in ledger.conflicts : p \in References(ledger)
      BY DEF References
    <3>2. \A p \in ledger'.conflicts : p \in References(ledger')
      BY DEF References
    <3>. QED
      BY <2>1, <2>2, <3>1, <3>2 DEF RivalsOK
  <2>. QED
    BY <2>1, <2>4, <2>5, <2>6 DEF RivalsOK
<1>7. CASE UNCHANGED vars
  BY <1>1, <1>7 DEF vars, contextVars, activationVars, walk
<1>. QED
  BY <1>3, <1>4, <1>5, <1>6, <1>7, Zenon DEF Next, CallStep

LEMMA RivalsInvariant == Spec => [](KnownOK /\ RivalsOK)
<1>1. Init => KnownOK /\ RivalsOK
  <2>. SUFFICES ASSUME Init PROVE KnownOK /\ RivalsOK
    OBVIOUS
  <2>1. /\ phase \in {"build", "seed_query"} /\ seeds = <<>> /\ candidates = Nothing /\ admitted = <<>>
    BY Zenon DEF Init, ContextInit, ActivationInit
  <2>. QED
    BY <2>1 DEF KnownOK, RivalsOK, SeedNodes, Nothing, Read
<1>2. RetrievalInv /\ PackageOK /\ CompleteOK /\ KnownOK /\ RivalsOK /\ [Next]_vars => KnownOK' /\ RivalsOK'
  <2>. SUFFICES ASSUME StoreOK, CallOK, BudgetOK, PackageOK, CompleteOK, KnownOK, RivalsOK, [Next]_vars
                PROVE  KnownOK' /\ RivalsOK'
    BY DEF RetrievalInv
  <2>1. stats.visitedEdges \in Nat /\ stats.visitedEdges <= call.maxEdges
    BY DEF BudgetOK, Counts
  <2>. QED
    BY <2>1, KnownStep, RivalsStep
<1>. QED
  BY <1>1, <1>2, RetrievalInvariant, ContextInvariant, PTL DEF Spec

(* If an admitted item says that it conflicts with or supersedes another    *)
(* admitted one, then its ID was stored anew during the call or its node is *)
(* gone: whatever refers to an admitted item was applied after the walk,    *)
(* and has a node that the walk does not know.  With one connection nothing *)
(* stored contradicts or supersedes what is admitted.                       *)
THEOREM RivalsAdmittedByRaceOnly == Spec => []RivalsOnlyByRace
<1>1. RetrievalInv /\ RivalsOK => RivalsOnlyByRace
  <2>. SUFFICES ASSUME RivalsOK PROVE RivalsOnlyByRace
    OBVIOUS
  <2>1. ASSUME NEW i \in DOMAIN admitted, Unmoved(admitted[i]),
               NEW j \in DOMAIN admitted, admitted[j].id \in admitted[i].rivals
        PROVE  FALSE
    <3>1. /\ admitted[i].item.node = admitted[i].node /\ admitted[i].node \in nodes
          /\ admitted[i].node \in DOMAIN candidates
      BY <2>1 DEF Unmoved, RivalsOK
    <3>2. /\ ledger.items[admitted[i].id].node = admitted[i].node
          /\ \E p \in References(ledger) : p.from = admitted[i].id /\ p.to = admitted[j].id
      BY <2>1, <3>1 DEF RivalsOK, Current, EvidenceAt
    <3>3. PICK p \in References(ledger) : p.from = admitted[i].id /\ p.to = admitted[j].id
      BY <3>2
    <3>4. ledger.items[p.from].node \notin DOMAIN candidates
      BY <3>3 DEF RivalsOK, Unrivalled, Afterwards
    <3>. QED
      BY <3>1, <3>2, <3>3, <3>4
  <2>2. ASSUME Quiet, NEW i \in DOMAIN admitted
        PROVE  /\ \A p \in ledger.conflicts : admitted[i].id \notin {p.from, p.to}
               /\ \A p \in ledger.supersessions : p.to # admitted[i].id
    <3>1. VisibleConflicts(admitted[i].id) = {} /\ SupersededBy(admitted[i].id) = {}
      BY <2>2 DEF RivalsOK
    <3>. QED
      BY <3>1 DEF VisibleConflicts, SupersededBy, Targets, Sources
  <2>3. \A i \in DOMAIN admitted : Unmoved(admitted[i]) => admitted[i].rivals \cap AdmittedIds = {}
    BY <2>1 DEF AdmittedIds
  <2>4. Quiet => /\ \A p \in ledger.conflicts : {p.from, p.to} \cap AdmittedIds = {}
                 /\ \A p \in ledger.supersessions : p.to \notin AdmittedIds
    BY <2>2 DEF AdmittedIds
  <2>. QED
    BY <2>3, <2>4 DEF RivalsOnlyByRace
<1>. QED
  BY <1>1, RetrievalInvariant, RivalsInvariant, PTL


-----------------------------------------------------------------------------
(* Paths.  The propagation of a path is carried along its steps.           *)
CarriedBy(f, c) ==
  /\ f[0] = Scale * call.matches[c.seed]
  /\ \A i \in DOMAIN c.steps : f[i] = Propagated(f[i - 1], EffectiveWeight(c.steps[i]))

Carried(c, prop) == \E f \in [0 .. Len(c.steps) -> Int] : CarriedBy(f, c) /\ f[Len(c.steps)] = prop

Follows(path) == Walkable(path, path.node) /\ Carried(path, path.prop)

Scored(c, n) == Walkable(c, n) /\ \E prop \in Int : Carried(c, prop) /\ c.score = prop * ImportanceFactor(n)

(* The paths that are or may still be extended, and the candidates.        *)
Pending == ElementsOf(queue) \cup (IF phase = "admit" THEN {current} ELSE {})

PathsOK ==
  /\ \A i \in DOMAIN seeds : seeds[i].score = Scale * call.matches[seeds[i].node]
  /\ phase = "admit" => \A i \in DOMAIN rows : rows[i].source = current.node
  /\ \A path \in Path : path \in Pending => Follows(path)
  /\ \A n \in MemoryNodes, c \in Found : n \in DOMAIN candidates /\ candidates[n] = c => Scored(c, n)

LEMMA PropagationIs ==
  ASSUME NEW c, c.steps \in Seq(Row), NEW prop, Carried(c, prop)
  PROVE  Propagation(c) = prop
<1>. DEFINE n == Len(c.steps)
            Recurrence(f) == f = [i \in 0 .. n |->
              IF i = 0 THEN Scale * call.matches[c.seed] ELSE Propagated(f[i - 1], EffectiveWeight(c.steps[i]))]
            prop0[i \in 0 .. n] ==
              IF i = 0 THEN Scale * call.matches[c.seed] ELSE Propagated(prop0[i - 1], EffectiveWeight(c.steps[i]))
<1>0. n \in Nat /\ DOMAIN c.steps = 1 .. n
  OBVIOUS
<1>1. PICK f \in [0 .. n -> Int] : CarriedBy(f, c) /\ f[n] = prop
  BY DEF Carried
<1>2. Recurrence(f)
  <2>1. \A i \in 0 .. n : f[i] = IF i = 0 THEN Scale * call.matches[c.seed]
                                 ELSE Propagated(f[i - 1], EffectiveWeight(c.steps[i]))
    <3>1. \A i \in 0 .. n : i = 0 \/ i \in 1 .. n
      BY <1>0
    <3>. QED
      BY <1>0, <1>1, <3>1, Zenon DEF CarriedBy
  <2>. QED
    BY <1>1, <2>1, Zenon
<1>3. Recurrence(prop0)
  <2>1. prop0 = CHOOSE g : Recurrence(g)
    BY Zenon
  <2>. HIDE DEF Recurrence, prop0
  <2>. QED
    BY <1>2, <2>1, Zenon
<1>4. CarriedBy(prop0, c)
  <2>. HIDE DEF prop0
  <2>1. \A i \in 0 .. n : prop0[i] = IF i = 0 THEN Scale * call.matches[c.seed]
                                     ELSE Propagated(prop0[i - 1], EffectiveWeight(c.steps[i]))
    BY <1>3, Zenon
  <2>2. 0 \in 0 .. n /\ \A i \in 1 .. n : i \in 0 .. n /\ i # 0
    BY <1>0
  <2>. QED
    BY <1>0, <2>1, <2>2, Zenon DEF CarriedBy
<1>5. f[n] = prop0[n]
  <2>. HIDE DEF prop0
  <2>1. f[0] = prop0[0]
    BY <1>1, <1>4 DEF CarriedBy
  <2>2. \A i \in 1 .. n : f[i - 1] = prop0[i - 1] => f[i] = prop0[i]
    BY <1>0, <1>1, <1>4, Zenon DEF CarriedBy
  <2>. QED
    BY <1>0, <2>1, <2>2, EndAlike DEF Alike
<1>6. prop0[n] = prop
  BY <1>1, <1>5, Zenon
<1>. QED
  BY <1>6, Zenon DEF Propagation


LEMMA CarriedOn ==
  ASSUME NEW c, c.steps \in Seq(Row), NEW prop \in Int, Carried(c, prop), NEW row \in Row,
         NEW d, d.seed = c.seed, d.steps = Append(c.steps, row),
         NEW longer \in Int, longer = Propagated(prop, EffectiveWeight(row))
  PROVE  Carried(d, longer)
<1>. DEFINE n == Len(c.steps)
<1>1. PICK f \in [0 .. n -> Int] : CarriedBy(f, c) /\ f[n] = prop
  BY DEF Carried
<1>. DEFINE g == [i \in 0 .. n + 1 |-> IF i = n + 1 THEN longer ELSE f[i]]
<1>2. /\ n \in Nat /\ DOMAIN c.steps = 1 .. n /\ Len(d.steps) = n + 1 /\ DOMAIN d.steps = 1 .. n + 1
      /\ \A i \in 1 .. n : d.steps[i] = c.steps[i]
      /\ d.steps[n + 1] = row
  OBVIOUS
<1>3. g \in [0 .. n + 1 -> Int]
  <2>1. \A i \in 0 .. n + 1 : i # n + 1 => i \in 0 .. n
    BY <1>2
  <2>. QED
    BY <1>1, <2>1
<1>. HIDE DEF n
<1>4. g[n + 1] = longer /\ (\A i \in 0 .. n : g[i] = f[i])
  BY <1>2
<1>. HIDE DEF g
<1>5. \A i \in 1 .. n + 1 : g[i] = Propagated(g[i - 1], EffectiveWeight(d.steps[i]))
  <2>1. ASSUME NEW i \in 1 .. n PROVE g[i] = Propagated(g[i - 1], EffectiveWeight(d.steps[i]))
    <3>1. i \in 0 .. n /\ i - 1 \in 0 .. n
      BY <1>2
    <3>2. f[i] = Propagated(f[i - 1], EffectiveWeight(c.steps[i]))
      BY <1>1, <1>2, Zenon DEF CarriedBy
    <3>. QED
      BY <1>2, <1>4, <3>1, <3>2, Zenon
  <2>2. g[n + 1] = Propagated(g[(n + 1) - 1], EffectiveWeight(d.steps[n + 1]))
    <3>1. (n + 1) - 1 = n /\ n \in 0 .. n
      BY <1>2
    <3>2. f[n] = prop
      BY <1>1 DEF n
    <3>. QED
      BY <1>2, <1>4, <3>1, <3>2, Zenon
  <2>3. \A i \in 1 .. n + 1 : i = n + 1 \/ i \in 1 .. n
    BY <1>2
  <2>. QED
    BY <2>1, <2>2, <2>3, Zenon
<1>6. g[0] = Scale * call.matches[d.seed]
  <2>1. 0 \in 0 .. n
    BY <1>2
  <2>. QED
    BY <1>1, <1>4, <2>1, Zenon DEF CarriedBy
<1>7. CarriedBy(g, d)
  BY <1>2, <1>5, <1>6, Zenon DEF CarriedBy
<1>. QED
  BY <1>2, <1>3, <1>4, <1>7, Zenon DEF Carried

LEMMA WalkableOn ==
  ASSUME NEW c, c.steps \in Seq(Row), NEW n, Walkable(c, n), NEW row \in Row, row.source = n,
         ~PathContains(c, row.target),
         NEW d, d.seed = c.seed, d.steps = Append(c.steps, row)
  PROVE  Walkable(d, row.target)
<1>. DEFINE k == Len(c.steps)
<1>1. /\ k \in Nat /\ DOMAIN c.steps = 1 .. k /\ Len(d.steps) = k + 1 /\ DOMAIN d.steps = 1 .. k + 1
      /\ \A i \in 1 .. k : d.steps[i] = c.steps[i]
      /\ d.steps[k + 1] = row
  OBVIOUS
<1>2. /\ DOMAIN Nodes(c) = 1 .. k + 1 /\ DOMAIN Nodes(d) = 1 .. k + 2
      /\ \A i \in 1 .. k + 1 : Nodes(c)[i] = IF i = 1 THEN c.seed ELSE c.steps[i - 1].target
      /\ \A i \in 1 .. k + 2 : Nodes(d)[i] = IF i = 1 THEN d.seed ELSE d.steps[i - 1].target
      /\ Len(Nodes(c)) = k + 1 /\ Len(Nodes(d)) = k + 2
  <2>1. Len(d.steps) + 1 = k + 2 /\ k + 1 \in Nat /\ k + 2 \in Nat
    BY <1>1
  <2>. HIDE DEF k
  <2>2. Len(c.steps) + 1 = k + 1
    BY DEF k
  <2>. QED
    BY <2>1, <2>2 DEF Nodes
<1>. HIDE DEF k
<1>3. \A i \in 1 .. k + 1 : Nodes(d)[i] = Nodes(c)[i]
  <2>1. \A i \in 1 .. k + 1 : i # 1 => i - 1 \in 1 .. k
    BY <1>1
  <2>2. \A i \in 1 .. k + 1 : i \in 1 .. k + 2
    BY <1>1
  <2>3. ASSUME NEW i \in 1 .. k + 1, i = 1 PROVE Nodes(d)[i] = Nodes(c)[i]
    BY <1>2, <2>2, <2>3
  <2>4. ASSUME NEW i \in 1 .. k + 1, i # 1 PROVE Nodes(d)[i] = Nodes(c)[i]
    <3>1. Nodes(d)[i] = d.steps[i - 1].target /\ Nodes(c)[i] = c.steps[i - 1].target
      BY <1>2, <2>2, <2>4, Zenon
    <3>2. d.steps[i - 1] = c.steps[i - 1]
      BY <1>1, <2>1, <2>4, Zenon
    <3>. QED
      BY <3>1, <3>2, Zenon
  <2>. QED
    BY <2>3, <2>4, Zenon
<1>4. Nodes(d)[k + 2] = row.target
  <2>1. k + 2 \in 1 .. k + 2 /\ k + 2 # 1 /\ (k + 2) - 1 = k + 1
    BY <1>1
  <2>. QED
    BY <1>1, <1>2, <2>1, Zenon
<1>5. \A i \in 1 .. k + 1 : Nodes(c)[i] # row.target
  <2>1. \A i \in 1 .. k + 1 : i # 1 => i - 1 \in DOMAIN c.steps
    BY <1>1
  <2>. QED
    BY <1>2, <2>1, Zenon DEF PathContains
<1>6. /\ c.seed \in SeedNodes
      /\ Nodes(c)[k + 1] = n
      /\ \A i \in DOMAIN c.steps : c.steps[i].source = Nodes(c)[i]
      /\ \A i, j \in 1 .. k + 1 : Nodes(c)[i] = Nodes(c)[j] => i = j
  BY <1>2, Zenon DEF Walkable
<1>7. \A i \in 1 .. k + 1 : d.steps[i].source = Nodes(d)[i]
  <2>1. ASSUME NEW i \in 1 .. k PROVE d.steps[i].source = Nodes(d)[i]
    <3>1. i \in 1 .. k + 1
      BY <1>1
    <3>. QED
      BY <1>1, <1>3, <1>6, <3>1, Zenon
  <2>2. k + 1 \in 1 .. k + 1 /\ \A i \in 1 .. k + 1 : i = k + 1 \/ i \in 1 .. k
    BY <1>1
  <2>3. d.steps[k + 1].source = Nodes(d)[k + 1]
    BY <1>1, <1>3, <1>6, <2>2, Zenon
  <2>. QED
    BY <2>1, <2>2, <2>3, Zenon
<1>8. \A i, j \in 1 .. k + 2 : Nodes(d)[i] = Nodes(d)[j] => i = j
  <2>1. \A i \in 1 .. k + 2 : i = k + 2 \/ i \in 1 .. k + 1
    BY <1>1
  <2>. QED
    BY <1>3, <1>4, <1>5, <1>6, <2>1, Zenon
<1>. QED
  BY <1>1, <1>2, <1>4, <1>6, <1>7, <1>8, Zenon DEF Walkable


LEMMA AtSeed ==
  ASSUME NEW c, c.steps = <<>>, c.seed \in SeedNodes, Scale * call.matches[c.seed] \in Int
  PROVE  Walkable(c, c.seed) /\ Carried(c, Scale * call.matches[c.seed])
<1>1. Len(c.steps) = 0 /\ DOMAIN c.steps = {}
  OBVIOUS
<1>2. DOMAIN Nodes(c) = 1 .. 1 /\ Nodes(c)[1] = c.seed /\ Len(Nodes(c)) = 1
  BY <1>1 DEF Nodes
<1>3. Walkable(c, c.seed)
  <2>1. \A i \in 1 .. 1 : i = 1
    OBVIOUS
  <2>. QED
    BY <1>1, <1>2, <2>1, Zenon DEF Walkable
<1>4. Carried(c, Scale * call.matches[c.seed])
  <2>. DEFINE p == Scale * call.matches[c.seed]
              f == [i \in 0 .. 0 |-> p]
  <2>1. f \in [0 .. 0 -> Int] /\ f[0] = p
    OBVIOUS
  <2>. HIDE DEF f
  <2>2. CarriedBy(f, c)
    BY <1>1, <2>1 DEF CarriedBy
  <2>. QED
    BY <1>1, <2>1, <2>2, Zenon DEF Carried
<1>. QED
  BY <1>3, <1>4

LEMMA WeightsKept ==
  ASSUME UNCHANGED <<call, feedback>>
  PROVE  \A row : EffectiveWeight(row)' = EffectiveWeight(row)
<1>1. \A event : Freshness(event)' = Freshness(event)
  BY DEF Freshness
<1>2. \A events, kind : Fresh(events, kind)' = Fresh(events, kind)
  BY <1>1 DEF Fresh
<1>3. \A events : FeedbackFactor(events)' = FeedbackFactor(events)
  BY <1>2 DEF FeedbackFactor
<1>4. \A row : FeedbackEvents(row)' = FeedbackEvents(row)
  BY DEF FeedbackEvents
<1>5. \A row : AdjustedWeight(row)' = AdjustedWeight(row)
  BY <1>3, <1>4 DEF AdjustedWeight
<1>. QED
  BY <1>5 DEF EffectiveWeight

LEMMA RoutesKept ==
  ASSUME UNCHANGED <<call, feedback>>, SeedNodes \subseteq SeedNodes'
  PROVE  /\ \A path : Follows(path) => Follows(path)'
         /\ \A c, n : Scored(c, n) => Scored(c, n)'
<1>1. \A row : EffectiveWeight(row)' = EffectiveWeight(row)
  BY WeightsKept
<1>2. \A c, prop : Carried(c, prop) => Carried(c, prop)'
  <2>1. \A f, c : CarriedBy(f, c) => CarriedBy(f, c)'
    BY <1>1 DEF CarriedBy
  <2>. QED
    BY <2>1, Zenon DEF Carried
<1>3. \A c, n : Walkable(c, n) => Walkable(c, n)'
  BY Zenon DEF Walkable, Nodes
<1>. QED
  BY <1>2, <1>3, Zenon DEF Follows, Scored

LEMMA PathsKept ==
  ASSUME PathsOK, UNCHANGED <<call, feedback>>, SeedNodes \subseteq SeedNodes',
         \A i \in DOMAIN seeds' : seeds'[i].score = Scale * call.matches[seeds'[i].node],
         phase' = "admit" => \A i \in DOMAIN rows' : rows'[i].source = current'.node,
         \A path \in Path : path \in Pending' => path \in Pending \/ Follows(path),
         \A n \in MemoryNodes, c \in Found :
           n \in DOMAIN candidates' /\ candidates'[n] = c =>
             (n \in DOMAIN candidates /\ candidates[n] = c) \/ Scored(c, n)
  PROVE  PathsOK'
<1>1. \A path \in Path : path \in Pending' => Follows(path)'
  BY RoutesKept, Zenon DEF PathsOK
<1>2. \A n \in MemoryNodes, c \in Found :
        n \in DOMAIN candidates' /\ candidates'[n] = c => Scored(c, n)'
  BY RoutesKept, Zenon DEF PathsOK
<1>. QED
  BY <1>1, <1>2 DEF PathsOK

(* Steps that find no path.                                                *)
LEMMA NoPathFound ==
  ASSUME PathsOK, UNCHANGED <<call, feedback, seeds, queue, candidates>>,
         phase' = "admit" => /\ phase = "admit" /\ current' = current
                             /\ \A i \in DOMAIN rows' : rows'[i].source = current.node
  PROVE  PathsOK'
<1>1. SeedNodes' = SeedNodes
  BY DEF SeedNodes
<1>2. Pending' \subseteq Pending
  BY DEF Pending, ElementsOf
<1>3. \A i \in DOMAIN seeds' : seeds'[i].score = Scale * call.matches[seeds'[i].node]
  BY DEF PathsOK
<1>4. phase' = "admit" => \A i \in DOMAIN rows' : rows'[i].source = current'.node
  OBVIOUS
<1>5. \A path \in Path : path \in Pending' => path \in Pending \/ Follows(path)
  BY <1>2
<1>6. \A n \in MemoryNodes, c \in Found :
        n \in DOMAIN candidates' /\ candidates'[n] = c =>
          (n \in DOMAIN candidates /\ candidates[n] = c) \/ Scored(c, n)
  OBVIOUS
<1>. QED
  BY <1>1, <1>3, <1>4, <1>5, <1>6, PathsKept, Zenon


LEMMA SeedReadKeepsPaths ==
  ASSUME CallOK, PathsOK, SeedRead
  PROVE  PathsOK'
<1>1. UNCHANGED <<call, feedback, queue, candidates, current, rows>> /\ phase' # "admit"
  BY DEF SeedRead, walk, stored, Answer
<1>2. CASE UNCHANGED seeds
  BY <1>1, <1>2, NoPathFound
<1>3. CASE seeds' # seeds
  <2>. DEFINE n == Head(hits)
  <2>1. seeds' = Append(seeds, [node |-> n, score |-> call.matches[n] * Scale])
    BY <1>3, Zenon DEF SeedRead
  <2>2. hits \in Seq(MemoryNodes) /\ hits # <<>> /\ seeds \in Seq(Seed)
    BY DEF CallOK, SeedRead
  <2>3. call.matches[n] \in Nat
    <3>1. n \in MemoryNodes
      BY <2>2
    <3>. QED
      BY <3>1, CallFields
  <2>4. call.matches[n] * Scale = Scale * call.matches[n]
    BY <2>3 DEF Scale, HopDivisor
  <2>. HIDE DEF n
  <2>5. /\ DOMAIN seeds' = 1 .. Len(seeds) + 1 /\ DOMAIN seeds = 1 .. Len(seeds)
        /\ \A i \in DOMAIN seeds : i \in DOMAIN seeds' /\ seeds'[i] = seeds[i]
        /\ seeds'[Len(seeds) + 1].node = n /\ seeds'[Len(seeds) + 1].score = Scale * call.matches[n]
    BY <2>1, <2>2, <2>4
  <2>6. \A i \in DOMAIN seeds' : i = Len(seeds) + 1 \/ i \in DOMAIN seeds
    <3>1. Len(seeds) \in Nat
      BY <2>2
    <3>. QED
      BY <2>5, <3>1
  <2>7. \A i \in DOMAIN seeds' : seeds'[i].score = Scale * call.matches[seeds'[i].node]
    BY <2>5, <2>6, Zenon DEF PathsOK
  <2>8. SeedNodes \subseteq SeedNodes'
    BY <2>5, Zenon DEF SeedNodes
  <2>9. \A path \in Path : path \in Pending' => path \in Pending \/ Follows(path)
    BY <1>1 DEF Pending, ElementsOf
  <2>10. \A m \in MemoryNodes, c \in Found :
           m \in DOMAIN candidates' /\ candidates'[m] = c =>
             (m \in DOMAIN candidates /\ candidates[m] = c) \/ Scored(c, m)
    BY <1>1
  <2>11. UNCHANGED <<call, feedback>> /\ (phase' = "admit" => \A i \in DOMAIN rows' : rows'[i].source = current'.node)
    BY <1>1
  <2>. QED
    BY <2>7, <2>8, <2>9, <2>10, <2>11, PathsKept, Zenon
<1>. QED
  BY <1>2, <1>3

LEMMA StartKeepsPaths ==
  ASSUME CallOK, PathsOK, StartWalk, UNCHANGED <<call, feedback, seeds>>
  PROVE  PathsOK'
<1>0. phase' # "admit"
  BY DEF StartWalk, ReportDone, Answer, CallOK
<1>1. CASE seeds = <<>>
  BY <1>1, NoPathFound DEF StartWalk, ReportDone, Answer, walk
<1>2. CASE seeds # <<>>
  <2>1. \A i \in DOMAIN seeds : /\ seeds[i].node \in MemoryNodes /\ seeds[i].node \in SeedNodes
                                /\ seeds[i].score = Scale * call.matches[seeds[i].node]
                                /\ Scale * call.matches[seeds[i].node] \in Int
    <3>1. \A i \in DOMAIN seeds : seeds[i] \in Seed
      BY DEF CallOK
    <3>2. \A i \in DOMAIN seeds : seeds[i].node \in MemoryNodes /\ seeds[i].score \in Int
      BY <3>1 DEF Seed
    <3>. QED
      BY <3>2 DEF SeedNodes, PathsOK
  <2>2. \A path \in Path : path \in Pending' => path \in Pending \/ Follows(path)
    <3>. SUFFICES ASSUME NEW path \in Path, path \in Pending' PROVE Follows(path)
      OBVIOUS
    <3>1. queue' = [i \in DOMAIN seeds |-> [node |-> seeds[i].node, seed |-> seeds[i].node,
                                           prop |-> seeds[i].score, steps |-> <<>>]]
      BY <1>2, Zenon DEF StartWalk
    <3>2. PICK i \in DOMAIN seeds : path = [node |-> seeds[i].node, seed |-> seeds[i].node,
                                            prop |-> seeds[i].score, steps |-> <<>>]
      BY <1>0, <3>1 DEF Pending, ElementsOf
    <3>3. /\ path.node = seeds[i].node /\ path.seed = seeds[i].node /\ path.prop = seeds[i].score
          /\ path.steps = <<>>
      BY <3>2
    <3>4. /\ path.seed \in SeedNodes /\ Scale * call.matches[path.seed] \in Int
          /\ path.node = path.seed /\ path.prop = Scale * call.matches[path.seed]
      BY <2>1, <3>3, Zenon
    <3>5. Walkable(path, path.seed) /\ Carried(path, Scale * call.matches[path.seed])
      BY <3>3, <3>4, AtSeed, Zenon
    <3>. QED
      BY <3>4, <3>5, Zenon DEF Follows
  <2>3. \A n \in MemoryNodes, c \in Found :
          n \in DOMAIN candidates' /\ candidates'[n] = c =>
            (n \in DOMAIN candidates /\ candidates[n] = c) \/ Scored(c, n)
    <3>. SUFFICES ASSUME NEW n \in MemoryNodes, NEW c \in Found,
                         n \in DOMAIN candidates', candidates'[n] = c
                  PROVE  Scored(c, n)
      OBVIOUS
    <3>. DEFINE at == CHOOSE j \in DOMAIN seeds : seeds[j].node = n
    <3>1. n \in SeedNodes /\ c = [score |-> seeds[at].score * ImportanceFactor(n), seed |-> n, steps |-> <<>>]
      <4>1. candidates' = IF ~call.includeSeeds THEN Nothing
                          ELSE [m \in SeedNodes |->
                                  LET i == CHOOSE j \in DOMAIN seeds : seeds[j].node = m IN
                                  [score |-> seeds[i].score * ImportanceFactor(m),
                                   seed |-> m, steps |-> <<>>]]
        BY <1>2, Zenon DEF StartWalk
      <4>2. call.includeSeeds
        BY <4>1 DEF Nothing
      <4>. QED
        BY <4>1, <4>2
    <3>2. at \in DOMAIN seeds /\ seeds[at].node = n
      BY <3>1 DEF SeedNodes
    <3>. HIDE DEF at
    <3>3. c.seed = n /\ c.steps = <<>> /\ c.score = seeds[at].score * ImportanceFactor(n)
      BY <3>1
    <3>4. seeds[at].score = Scale * call.matches[c.seed] /\ Scale * call.matches[c.seed] \in Int
      BY <2>1, <3>2, <3>3
    <3>5. Walkable(c, n) /\ Carried(c, Scale * call.matches[c.seed])
      BY <3>1, <3>3, <3>4, AtSeed, Zenon
    <3>. QED
      BY <3>3, <3>4, <3>5, Zenon DEF Scored
  <2>4. SeedNodes \subseteq SeedNodes'
    BY DEF SeedNodes
  <2>5. \A i \in DOMAIN seeds' : seeds'[i].score = Scale * call.matches[seeds'[i].node]
    BY DEF PathsOK
  <2>. QED
    BY <1>0, <2>2, <2>3, <2>4, <2>5, PathsKept, Zenon
<1>. QED
  BY <1>1, <1>2


LEMMA RowsGoOn ==
  ASSUME PathsOK, phase = "admit", rows \in Seq(Row), rows # <<>>, NEW edges, Continue(edges)
  PROVE  \A i \in DOMAIN rows' : rows'[i].source = current.node
<1>1. rows' = Tail(rows) \/ rows' = <<>>
  BY DEF Continue
<1>2. \A i \in DOMAIN rows : rows[i].source = current.node
  BY DEF PathsOK
<1>3. \A i \in DOMAIN Tail(rows) : i + 1 \in DOMAIN rows /\ Tail(rows)[i] = rows[i + 1]
  OBVIOUS
<1>4. DOMAIN <<>> = {}
  OBVIOUS
<1>. QED
  <2>1. CASE rows' = Tail(rows)
    BY <1>2, <1>3, <2>1
  <2>2. CASE rows' = <<>>
    BY <1>4, <2>2
  <2>. QED
    BY <1>1, <2>1, <2>2

LEMMA WeightTyped ==
  ASSUME StoreOK, CallOK, NEW row \in Row
  PROVE  EffectiveWeight(row) \in Int
BY AdjustedTyped DEF EffectiveWeight, Row, Unit

LEMMA ExtendKeepsPaths ==
  ASSUME StoreOK, CallOK, PathsOK, phase = "admit", NEW row \in Row, row.source = current.node,
         current \in Path, rows \in Seq(Row), rows # <<>>, ~PathContains(current, row.target),
         Extend(row, row.target), NEW edges, Continue(edges),
         UNCHANGED <<call, feedback, seeds, current>>
  PROVE  PathsOK'
<1>. DEFINE prop == Propagated(current.prop, EffectiveWeight(row))
            steps == Append(current.steps, row)
            target == row.target
<1>1. Follows(current) /\ current.prop \in Int /\ current.steps \in Seq(Row)
  <2>1. current \in Pending
    BY DEF Pending
  <2>. QED
    BY <2>1 DEF PathsOK, Path
<1>2. prop \in Int
  <2>1. EffectiveWeight(row) \in Int
    BY WeightTyped
  <2>2. current.prop * EffectiveWeight(row) \in Int
    BY <1>1, <2>1
  <2>. QED
    BY <2>2 DEF Propagated, HopDivisor
<1>3. \/ queue' = queue
      \/ queue' = Append(queue, [node |-> target, seed |-> current.seed, prop |-> prop, steps |-> steps])
  BY DEF Extend
<1>4. \/ candidates' = candidates
      \/ candidates' = Put(candidates, target, [score |-> prop * ImportanceFactor(target),
                                                seed |-> current.seed, steps |-> steps])
  BY Zenon DEF Extend, ConsiderCandidate
<1>5. \A d : d.seed = current.seed /\ d.steps = steps => Walkable(d, target) /\ Carried(d, prop)
  <2>. SUFFICES ASSUME NEW d, d.seed = current.seed, d.steps = steps
                PROVE  Walkable(d, target) /\ Carried(d, prop)
    OBVIOUS
  <2>1. Walkable(current, current.node) /\ Carried(current, current.prop)
    BY <1>1 DEF Follows
  <2>2. Walkable(d, target)
    BY <1>1, <2>1, WalkableOn, Zenon
  <2>3. Carried(d, prop)
    BY <1>1, <1>2, <2>1, CarriedOn, Zenon
  <2>. QED
    BY <2>2, <2>3
<1>. HIDE DEF prop, steps, target
<1>6. \A path \in Path : path \in Pending' => path \in Pending \/ Follows(path)
  <2>. SUFFICES ASSUME NEW path \in Path, path \in Pending', path \notin Pending PROVE Follows(path)
    OBVIOUS
  <2>1. path = [node |-> target, seed |-> current.seed, prop |-> prop, steps |-> steps]
    <3>1. path # current /\ path \notin ElementsOf(queue)
      BY DEF Pending
    <3>2. path \in ElementsOf(queue')
      BY <3>1 DEF Pending, ElementsOf
    <3>3. PICK i \in DOMAIN queue' : path = queue'[i]
      BY <3>2 DEF ElementsOf
    <3>4. queue \in Seq(Path)
      BY DEF CallOK
    <3>5. queue' # queue
      BY <3>1, <3>2
    <3>. DEFINE new == [node |-> target, seed |-> current.seed, prop |-> prop, steps |-> steps]
    <3>6. queue' = Append(queue, new)
      BY <1>3, <3>5
    <3>. HIDE DEF new
    <3>7. \/ i \in DOMAIN queue /\ queue'[i] = queue[i]
          \/ queue'[i] = new
      BY <3>3, <3>4, <3>6
    <3>8. queue'[i] = new
      BY <3>1, <3>3, <3>7 DEF ElementsOf
    <3>. QED
      BY <3>3, <3>8 DEF new
  <2>2. path.node = target /\ path.prop = prop /\ path.seed = current.seed /\ path.steps = steps
    BY <2>1
  <2>. QED
    BY <1>5, <2>2, Zenon DEF Follows
<1>7. \A n \in MemoryNodes, c \in Found :
        n \in DOMAIN candidates' /\ candidates'[n] = c =>
          (n \in DOMAIN candidates /\ candidates[n] = c) \/ Scored(c, n)
  <2>. SUFFICES ASSUME NEW n \in MemoryNodes, NEW c \in Found,
                       n \in DOMAIN candidates', candidates'[n] = c,
                       ~(n \in DOMAIN candidates /\ candidates[n] = c)
                PROVE  Scored(c, n)
    OBVIOUS
  <2>1. n = target /\ c = [score |-> prop * ImportanceFactor(target), seed |-> current.seed, steps |-> steps]
    BY <1>4 DEF Put
  <2>2. c.score = prop * ImportanceFactor(n) /\ c.seed = current.seed /\ c.steps = steps
    BY <2>1
  <2>. QED
    BY <1>2, <1>5, <2>1, <2>2, Zenon DEF Scored
<1>8. phase' = "admit" => \A i \in DOMAIN rows' : rows'[i].source = current'.node
  BY RowsGoOn
<1>9. SeedNodes \subseteq SeedNodes'
  BY DEF SeedNodes
<1>10. \A i \in DOMAIN seeds' : seeds'[i].score = Scale * call.matches[seeds'[i].node]
  BY DEF PathsOK
<1>. QED
  BY <1>6, <1>7, <1>8, <1>9, <1>10, PathsKept, Zenon

LEMMA NextKeepsPaths ==
  ASSUME StoreOK, CallOK, PathsOK, stats.visitedEdges \in Nat, stats.visitedEdges <= call.maxEdges,
         NextPath
  PROVE  PathsOK'
<1>1. /\ UNCHANGED <<call, feedback, seeds, candidates>> /\ phase = "next"
      /\ queue # <<>> /\ queue' = Tail(queue) /\ current' = Head(queue)
  BY DEF NextPath, stored
<1>2. queue \in Seq(Path)
  BY DEF CallOK
<1>3. /\ Head(queue) = queue[1] /\ 1 \in DOMAIN queue
      /\ \A i \in DOMAIN Tail(queue) : i + 1 \in DOMAIN queue /\ Tail(queue)[i] = queue[i + 1]
  BY <1>1, <1>2
<1>4. ElementsOf(queue)' \subseteq ElementsOf(queue) /\ Head(queue) \in ElementsOf(queue)
  <2>1. Head(queue) \in ElementsOf(queue)
    BY <1>3, Zenon DEF ElementsOf
  <2>2. ElementsOf(Tail(queue)) \subseteq ElementsOf(queue)
    BY <1>3 DEF ElementsOf
  <2>3. ElementsOf(queue)' = ElementsOf(Tail(queue))
    BY <1>1 DEF ElementsOf
  <2>. QED
    BY <2>1, <2>2, <2>3, Zenon
<1>5. \A path \in Path : path \in Pending' => path \in Pending \/ Follows(path)
  BY <1>1, <1>4 DEF Pending
<1>6. phase' = "admit" => \A i \in DOMAIN rows' : rows'[i].source = current'.node
  <2>. SUFFICES ASSUME phase' = "admit" PROVE \A i \in DOMAIN rows' : rows'[i].source = current'.node
    OBVIOUS
  <2>1. rows' = OrderedRelations(Head(queue).node)
    BY <1>1 DEF NextPath
  <2>2. Head(queue).node \in MemoryNodes
    <3>1. Head(queue) \in Path
      BY <1>1, <1>2
    <3>. QED
      BY <3>1 DEF Path
  <2>3. rows' \in Seq(RowsOf(Head(queue).node))
    BY <2>1, <2>2, RowsOrdered
  <2>4. \A r \in RowsOf(Head(queue).node) : r.source = Head(queue).node
    BY <2>2, RowsTyped
  <2>5. \A i \in DOMAIN rows' : rows'[i] \in RowsOf(Head(queue).node)
    BY <2>3
  <2>. QED
    BY <1>1, <2>4, <2>5, Zenon
<1>7. \A n \in MemoryNodes, c \in Found :
        n \in DOMAIN candidates' /\ candidates'[n] = c =>
          (n \in DOMAIN candidates /\ candidates[n] = c) \/ Scored(c, n)
  BY <1>1
<1>8. SeedNodes \subseteq SeedNodes'
  BY <1>1 DEF SeedNodes
<1>9. \A i \in DOMAIN seeds' : seeds'[i].score = Scale * call.matches[seeds'[i].node]
  BY <1>1 DEF PathsOK
<1>10. UNCHANGED <<call, feedback>>
  BY <1>1
<1>. QED
  BY <1>5, <1>6, <1>7, <1>8, <1>9, <1>10, PathsKept, Zenon


LEMMA WalkingKeepsPaths ==
  ASSUME StoreOK, CallOK, PathsOK, CycleClosed \/ TargetVisited \/ TargetRevisited
  PROVE  PathsOK'
<1>1. PICK row \in ElementsOf(rows) :
        /\ Considering(row)
        /\ \/ Continue(Edges) /\ UNCHANGED <<queue, candidates>>
           \/ Continue(Edges) /\ ~PathContains(current, row.target) /\ Extend(row, row.target)
           \/ Answer("InvalidDatabase") /\ UNCHANGED <<rows, queue, candidates>>
  BY Zenon DEF CycleClosed, TargetVisited, TargetRevisited
<1>2. row = Head(rows) /\ row \in Row /\ current \in Path /\ rows \in Seq(Row) /\ rows # <<>>
  BY <1>1, HeadOfRows
<1>3. UNCHANGED <<call, feedback, seeds, current>> /\ phase = "admit"
  BY <1>1 DEF Considering, stored
<1>4. row.source = current.node
  <2>1. 1 \in DOMAIN rows /\ row = rows[1]
    BY <1>2
  <2>. QED
    BY <1>3, <2>1 DEF PathsOK
<1>5. CASE Continue(Edges) /\ UNCHANGED <<queue, candidates>>
  <2>1. \A i \in DOMAIN rows' : rows'[i].source = current.node
    BY <1>2, <1>3, <1>5, RowsGoOn
  <2>. QED
    BY <1>3, <1>5, <2>1, NoPathFound
<1>6. CASE Continue(Edges) /\ ~PathContains(current, row.target) /\ Extend(row, row.target)
  BY <1>2, <1>3, <1>4, <1>6, ExtendKeepsPaths
<1>7. CASE Answer("InvalidDatabase") /\ UNCHANGED <<rows, queue, candidates>>
  BY <1>3, <1>7, NoPathFound DEF Answer
<1>. QED
  BY <1>1, <1>5, <1>6, <1>7

LEMMA PathsStep ==
  ASSUME StoreOK, CallOK, PathsOK, stats.visitedEdges \in Nat, stats.visitedEdges <= call.maxEdges,
         [Next]_vars
  PROVE  PathsOK'
<1>1. CASE BuildStarts \/ BuildContinues \/ BuildEnds
  <2>1. UNCHANGED <<call, stored, seeds, walk>>
    BY <1>1, Zenon DEF BuildStarts, BuildContinues, BuildEnds, BuildUnchanged
  <2>2. phase' = phase \/ phase' = "seed_query"
    BY <1>1, BuildOutside
  <2>. QED
    BY <2>1, <2>2, NoPathFound DEF stored, walk, PathsOK
<1>2. CASE SeedRead
  BY <1>2, SeedReadKeepsPaths
<1>3. CASE SeedQuery \/ SearchFound \/ NodeBudgetSpent \/ FinishActivation
  BY <1>3, NoPathFound DEF SeedQuery, SearchFound, NodeBudgetSpent, FinishActivation, Considering,
     ReportDone, Answer, stored, walk
<1>4. CASE SeedsFound
  BY <1>4, StartKeepsPaths DEF SeedsFound, stored
<1>5. CASE RoutingIndex
  <2>1. CASE revision # 0
    BY <1>5, <2>1, NoPathFound DEF RoutingIndex, Answer, stored, walk
  <2>2. CASE revision = 0
    BY <1>5, <2>2, StartKeepsPaths DEF RoutingIndex, stored
  <2>. QED
    BY <2>1, <2>2
<1>6. CASE NextPath
  BY <1>6, NextKeepsPaths
<1>7. CASE CycleClosed \/ TargetVisited \/ TargetRevisited
  BY <1>7, WalkingKeepsPaths
<1>8. CASE ContextStep
  <2>1. UNCHANGED <<call, stored, seeds, walk>>
    BY <1>8, Assembles DEF Read
  <2>2. phase' # "admit"
    BY <1>8, Assembles DEF Read
  <2>. QED
    BY <2>1, <2>2, NoPathFound DEF stored, walk
<1>9. CASE OtherConnection
  <2>1. UNCHANGED <<call, phase, seeds, walk>> /\ feedback' = feedback
    BY <1>9, OthersRace, Zenon DEF OtherConnection
  <2>. QED
    BY <2>1, NoPathFound DEF walk, PathsOK
<1>10. CASE UNCHANGED vars
  <2>1. UNCHANGED <<call, phase, stored, seeds, walk>>
    BY <1>10, Zenon DEF vars, contextVars, activationVars
  <2>. QED
    BY <2>1, NoPathFound DEF stored, walk, PathsOK
<1>. QED
  BY <1>1, <1>2, <1>3, <1>4, <1>5, <1>6, <1>7, <1>8, <1>9, <1>10, Zenon DEF Next, CallStep, ActivationStep

LEMMA PathsInvariant == Spec => []PathsOK
<1>1. Init => PathsOK
  <2>. SUFFICES ASSUME Init PROVE PathsOK
    OBVIOUS
  <2>1. /\ phase = IF call.kind = "community" THEN "build" ELSE "seed_query"
        /\ seeds = <<>> /\ queue = <<>> /\ candidates = Nothing
    BY Zenon DEF Init, ContextInit, ActivationInit
  <2>2. phase # "admit"
    BY <2>1
  <2>. QED
    BY <2>1, <2>2 DEF PathsOK, Pending, ElementsOf, Nothing
<1>2. RetrievalInv /\ PathsOK /\ [Next]_vars => PathsOK'
  <2>1. BudgetOK => stats.visitedEdges \in Nat /\ stats.visitedEdges <= call.maxEdges
    BY DEF BudgetOK, Counts
  <2>. QED
    BY <2>1, PathsStep DEF RetrievalInv
<1>. QED
  BY <1>1, <1>2, RetrievalInvariant, PTL DEF Spec

(* Every path, of a candidate or still to be extended, starts at a seed, is *)
(* made of steps that follow one another to its node and visit none twice,  *)
(* and has the score its steps give it, whatever is committed meanwhile.    *)
THEOREM PathsFollow == Spec => []PathsReconstruct
<1>1. RetrievalInv /\ PathsOK => PathsReconstruct
  <2>. SUFFICES ASSUME CallOK, PathsOK PROVE PathsReconstruct
    BY DEF RetrievalInv
  <2>1. ASSUME NEW n \in DOMAIN candidates
        PROVE  /\ Walkable(candidates[n], n)
               /\ candidates[n].score = Propagation(candidates[n]) * ImportanceFactor(n)
    <3>. DEFINE c == candidates[n]
    <3>1. n \in MemoryNodes /\ c \in Found
      BY DEF CallOK, Reached
    <3>2. Scored(c, n) /\ c.steps \in Seq(Row)
      BY <3>1 DEF PathsOK, Found
    <3>. HIDE DEF c
    <3>3. PICK prop \in Int : Carried(c, prop) /\ c.score = prop * ImportanceFactor(n)
      BY <3>2, Zenon DEF Scored
    <3>4. Propagation(c) = prop
      BY <3>2, <3>3, PropagationIs, Zenon
    <3>5. Walkable(c, n) /\ c.score = Propagation(c) * ImportanceFactor(n)
      BY <3>2, <3>3, <3>4, Zenon DEF Scored
    <3>. QED
      BY <3>5, Zenon DEF c
  <2>2. ASSUME NEW i \in DOMAIN queue
        PROVE  Walkable(queue[i], queue[i].node) /\ queue[i].prop = Propagation(queue[i])
    <3>. DEFINE path == queue[i]
    <3>1. path \in Path /\ path \in Pending
      BY DEF CallOK, Pending, ElementsOf
    <3>2. Follows(path) /\ path.steps \in Seq(Row)
      BY <3>1 DEF PathsOK, Path
    <3>. HIDE DEF path
    <3>3. Walkable(path, path.node) /\ Propagation(path) = path.prop
      BY <3>2, PropagationIs, Zenon DEF Follows
    <3>. QED
      BY <3>3, Zenon DEF path
  <2>. QED
    BY <2>1, <2>2, Zenon DEF PathsReconstruct
<1>. QED
  BY <1>1, RetrievalInvariant, PathsInvariant, PTL
=============================================================================
