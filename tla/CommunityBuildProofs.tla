------------------------ MODULE CommunityBuildProofs ------------------------
(***************************************************************************)
(* Theorems about the build of the communities in Retrieval: the trees of  *)
(* the union-find forest are the components of the joining relations, for  *)
(* every graph and whatever the order of its relations, and the build      *)
(* implements PartitionMerge.                                              *)
(***************************************************************************)
EXTENDS RetrievalProofs

-----------------------------------------------------------------------------
(* Positions.  The place of a node in content order tells it apart.        *)
LEMMA LeastOf ==
  ASSUME NEW D \in SUBSET Nat, NEW n \in D
  PROVE  \E d \in D : \A k \in D : d <= k
<1>. SUFFICES ASSUME \A d \in D : \E k \in D : k < d PROVE FALSE
  <2>1. \A d, k \in Nat : ~(k < d) <=> d <= k
    OBVIOUS
  <2>. QED
    BY <2>1, Zenon
<1>. DEFINE S == {i \in 0 .. n : \A d \in D : i <= d}
<1>1. Counted(n, S)
  <2>1. 0 \in S
    OBVIOUS
  <2>2. ASSUME NEW i \in 1 .. n, i - 1 \in S PROVE i \in S
    <3>. SUFFICES ASSUME NEW d \in D, ~(i <= d) PROVE FALSE
      OBVIOUS
    <3>1. PICK k \in D : k < d
      OBVIOUS
    <3>. QED
      BY <2>2, <3>1
  <2>. QED
    BY <2>1, <2>2 DEF Counted
<1>2. n \in S
  <2>1. 0 .. n \subseteq S
    <3>. HIDE DEF S
    <3>. QED
      BY <1>1, CountingUp
  <2>. QED
    BY <2>1
<1>. QED
  BY <1>2

LEMMA NodesPlaced ==
  ASSUME graph.nodes \subseteq MemoryNodes
  PROVE  /\ \A m, n \in graph.nodes : Build!Precedes(m, n) <=> Build!Position(m) < Build!Position(n)
         /\ \A m, n \in graph.nodes : Build!Position(m) = Build!Position(n) => m = n
         /\ \A i \in Build!Positions : \E n \in graph.nodes : Build!Position(n) = i
<1>. DEFINE S == graph.nodes
            R == {p \in S \X S : Build!Precedes(p[1], p[2])}
<1>1. IsFiniteSet(S)
  BY NodesValid, FS_Subset, Zenon
<1>2. Cardinality(S) \in Nat
  BY <1>1, FS_CardinalityType, Zenon
<1>3. StrictOrder(R, S)
  <2>1. \A n \in S : n \in Nat /\ Content[n] \in Nat
    BY NodesValid
  <2>. QED
    BY <2>1 DEF StrictOrder, Build!Precedes
<1>4. \A n \in S : Preceding(R, S, n) = {m \in S : Build!Precedes(m, n)}
  BY DEF Preceding
<1>5. \A m, n \in S : <<m, n>> \in R <=> Build!Precedes(m, n)
  OBVIOUS
<1>. HIDE DEF R
<1>6. \A n \in S : Build!Position(n) = Cardinality(Preceding(R, S, n)) + 1
  BY <1>4, SameCardinality, Zenon DEF Build!Position
<1>7. \A n \in S : IsFiniteSet(Preceding(R, S, n)) /\ Cardinality(Preceding(R, S, n)) \in Nat
  <2>1. \A n \in S : Preceding(R, S, n) \in SUBSET S
    BY DEF Preceding
  <2>. QED
    BY <1>1, <2>1, FS_Subset, FS_CardinalityType, Zenon
<1>8. \A m, n \in S : Cardinality(Preceding(R, S, m)) = Cardinality(Preceding(R, S, n)) => m = n
  BY <1>1, <1>3, PlacesFilled
<1>9. \A i \in 1 .. Cardinality(S) : \E n \in S : Cardinality(Preceding(R, S, n)) = i - 1
  BY <1>1, <1>3, PlacesFilled
<1>10. \A m, n \in S : Build!Position(m) = Build!Position(n) => m = n
  <2>1. \A i, j \in Nat : i + 1 = j + 1 => i = j
    OBVIOUS
  <2>. QED
    BY <1>6, <1>7, <1>8, <2>1, Zenon
<1>11. \A i \in Build!Positions : \E n \in S : Build!Position(n) = i
  <2>1. Build!Positions = 1 .. Cardinality(S)
    BY SameCardinality, Zenon DEF Build!Positions
  <2>2. \A i \in 1 .. Cardinality(S) : (i - 1) + 1 = i
    BY <1>2
  <2>. QED
    BY <1>6, <1>9, <2>1, <2>2, Zenon
<1>12. ASSUME NEW m \in S, NEW n \in S, Build!Precedes(m, n)
       PROVE  Build!Position(m) < Build!Position(n)
  <2>1. Preceding(R, S, m) \in SUBSET Preceding(R, S, n)
    BY <1>3, <1>5, <1>12 DEF Preceding, StrictOrder
  <2>2. Cardinality(Preceding(R, S, m)) <= Cardinality(Preceding(R, S, n))
    BY <1>7, <2>1, FS_Subset
  <2>3. Cardinality(Preceding(R, S, m)) # Cardinality(Preceding(R, S, n))
    BY <1>3, <1>5, <1>8, <1>12 DEF StrictOrder
  <2>4. \A i, j \in Nat : i <= j /\ i # j => i + 1 < j + 1
    OBVIOUS
  <2>5. Cardinality(Preceding(R, S, m)) + 1 < Cardinality(Preceding(R, S, n)) + 1
    BY <1>7, <2>2, <2>3, <2>4, Zenon
  <2>. QED
    BY <1>6, <2>5, Zenon
<1>13. ASSUME NEW m \in S, NEW n \in S, Build!Position(m) < Build!Position(n)
       PROVE  Build!Precedes(m, n)
  <2>1. Build!Position(m) \in Nat /\ Build!Position(n) \in Nat
    BY PositionTyped, PositionsNumbers
  <2>2. m # n
    BY <1>13, <2>1
  <2>3. ~Build!Precedes(n, m)
    <3>1. Build!Precedes(n, m) => Build!Position(n) < Build!Position(m)
      BY <1>12
    <3>. QED
      BY <1>13, <2>1, <3>1
  <2>. QED
    BY <1>3, <1>5, <2>2, <2>3 DEF StrictOrder
<1>. QED
  BY <1>10, <1>11, <1>12, <1>13



-----------------------------------------------------------------------------
(* Roots.  In a forest p over positions P, a root is reached from i when   *)
(* every set that holds i and goes on to the parents of its members holds  *)
(* it.  Every position has one root; compression leaves the roots as they  *)
(* are, and a merge moves them from one root to the other.                 *)
Forest(p, P) == P \subseteq Nat /\ p \in [P -> P] /\ \A i \in P : p[i] <= i

Goes(p, P, i, j) == \A S \in SUBSET P : i \in S /\ (\A k \in S : p[k] \in S) => j \in S

RootAt(p, P, i, j) == j \in P /\ p[j] = j /\ Goes(p, P, i, j)

LEMMA RootOfItself ==
  ASSUME NEW P, NEW p, NEW j \in P, p[j] = j
  PROVE  RootAt(p, P, j, j)
BY DEF RootAt, Goes

LEMMA RootFound ==
  ASSUME NEW P, NEW p, Forest(p, P), NEW i \in P
  PROVE  \E j \in P : RootAt(p, P, i, j)
<1>. DEFINE D == {j \in P : Goes(p, P, i, j)}
<1>1. i \in D /\ D \in SUBSET Nat
  BY DEF Goes, Forest
<1>2. PICK d \in D : \A k \in D : d <= k
  <2>. HIDE DEF D
  <2>. QED
    BY <1>1, LeastOf
<1>3. p[d] \in D
  <2>1. p[d] \in P
    BY DEF Forest
  <2>. QED
    BY <2>1 DEF Goes
<1>4. p[d] = d
  <2>1. d \in Nat /\ p[d] \in Nat /\ p[d] <= d /\ d <= p[d]
    BY <1>1, <1>2, <1>3 DEF Forest
  <2>. QED
    BY <2>1
<1>. QED
  BY <1>4 DEF RootAt

LEMMA RootOfParent ==
  ASSUME NEW P, NEW p \in [P -> P], NEW i \in P, NEW j
  PROVE  RootAt(p, P, p[i], j) <=> RootAt(p, P, i, j)
<1>1. ASSUME Goes(p, P, p[i], j) PROVE Goes(p, P, i, j)
  BY <1>1 DEF Goes
<1>2. ASSUME Goes(p, P, i, j), p[j] = j PROVE Goes(p, P, p[i], j)
  <2>. SUFFICES ASSUME NEW S \in SUBSET P, p[i] \in S, \A k \in S : p[k] \in S PROVE j \in S
    BY DEF Goes
  <2>1. S \cup {i} \in SUBSET P /\ (\A k \in S \cup {i} : p[k] \in S \cup {i})
    OBVIOUS
  <2>2. j \in S \cup {i}
    BY <1>2, <2>1 DEF Goes
  <2>. QED
    BY <1>2, <2>2
<1>. QED
  BY <1>1, <1>2 DEF RootAt

LEMMA RootUnique ==
  ASSUME NEW P, NEW p \in [P -> P], NEW i \in P, NEW j, NEW k, RootAt(p, P, i, j), RootAt(p, P, i, k)
  PROVE  j = k
<1>. DEFINE S == {m \in P : RootAt(p, P, m, j)}
<1>1. S \in SUBSET P /\ i \in S /\ \A m \in S : p[m] \in S
  BY RootOfParent
<1>2. k \in S
  <2>. HIDE DEF S
  <2>. QED
    BY <1>1 DEF RootAt, Goes
<1>3. {k} \in SUBSET P /\ \A m \in {k} : p[m] \in {k}
  BY DEF RootAt
<1>4. Goes(p, P, k, j)
  BY <1>2 DEF RootAt
<1>5. j \in {k}
  BY <1>3, <1>4, Zenon DEF Goes
<1>. QED
  BY <1>5

LEMMA CompressedRoots ==
  ASSUME NEW P, NEW p \in [P -> P], NEW c \in P, NEW r, RootAt(p, P, c, r),
         NEW q, q = [p EXCEPT ![c] = r], NEW i \in P, NEW j, RootAt(p, P, i, j)
  PROVE  RootAt(q, P, i, j)
<1>1. q \in [P -> P] /\ q[c] = r /\ \A m \in P : m # c => q[m] = p[m]
  BY DEF RootAt
<1>2. j \in P /\ p[j] = j
  BY DEF RootAt
<1>3. q[j] = j
  <2>1. CASE j = c
    <3>1. RootAt(p, P, c, c)
      BY <1>2, <2>1, RootOfItself
    <3>2. r = c
      BY <3>1, RootUnique
    <3>. QED
      BY <1>1, <2>1, <3>2
  <2>2. CASE j # c
    BY <1>1, <1>2, <2>2
  <2>. QED
    BY <2>1, <2>2
<1>4. Goes(q, P, i, j)
  <2>. SUFFICES ASSUME NEW S \in SUBSET P, i \in S, \A k \in S : q[k] \in S, j \notin S
                PROVE  FALSE
    BY DEF Goes
  <2>1. c \in S
    <3>1. ASSUME c \notin S PROVE \A k \in S : p[k] \in S
      BY <1>1, <3>1
    <3>2. c \notin S => j \in S
      BY <3>1 DEF RootAt, Goes
    <3>. QED
      BY <3>2
  <2>2. r \in S
    BY <1>1, <2>1
  <2>. DEFINE U == S \cup {m \in P : RootAt(p, P, m, r)}
  <2>3. ASSUME NEW m \in U PROVE p[m] \in U
    <3>1. CASE m \in S /\ m # c
      BY <1>1, <3>1
    <3>2. CASE RootAt(p, P, m, r) /\ m \in P
      BY <3>2, RootOfParent
    <3>. QED
      BY <3>1, <3>2
  <2>4. U \in SUBSET P /\ i \in U
    OBVIOUS
  <2>5. j \in U
    <3>. HIDE DEF U
    <3>. QED
      BY <2>3, <2>4 DEF RootAt, Goes
  <2>6. RootAt(p, P, j, r)
    BY <2>5
  <2>7. j = r
    BY <1>2, <2>6, RootOfItself, RootUnique
  <2>. QED
    BY <2>2, <2>7
<1>. QED
  BY <1>2, <1>3, <1>4 DEF RootAt

LEMMA MergedRoots ==
  ASSUME NEW P, NEW p \in [P -> P], NEW a \in P, NEW b \in P, a # b, p[a] = a, p[b] = b,
         NEW q, q = [p EXCEPT ![b] = a], NEW i \in P, NEW j, RootAt(p, P, i, j)
  PROVE  RootAt(q, P, i, IF j = b THEN a ELSE j)
<1>1. q \in [P -> P] /\ q[b] = a /\ \A m \in P : m # b => q[m] = p[m]
  OBVIOUS
<1>2. j \in P /\ p[j] = j
  BY DEF RootAt
<1>3. ASSUME NEW S \in SUBSET P, i \in S, \A k \in S : q[k] \in S
      PROVE  (IF j = b THEN a ELSE j) \in S
  <2>1. \A k \in S : p[k] \in S
    BY <1>1, <1>3
  <2>2. j \in S
    BY <1>3, <2>1 DEF RootAt, Goes
  <2>. QED
    BY <1>1, <1>3, <2>2
<1>4. Goes(q, P, i, IF j = b THEN a ELSE j)
  BY <1>3 DEF Goes
<1>. QED
  BY <1>1, <1>2, <1>4 DEF RootAt



-----------------------------------------------------------------------------
(* The invariant.  Whatever set joining relations do not leave, the forest *)
(* does not leave, and the ends of a merged relation are in one tree.      *)
SameTree(p, P, i, j) == \E k \in P : RootAt(p, P, i, k) /\ RootAt(p, P, j, k)

Closed(kind, S) == \A r \in Build!JoiningRelations(kind) : r.source \in S <=> r.target \in S

Sound(kind, p) ==
  \A S \in SUBSET graph.nodes :
    Closed(kind, S) =>
      \A m, n \in graph.nodes : p[Build!Position(m)] = Build!Position(n) => (m \in S <=> n \in S)

Stage(kind, p, unmerged) ==
  /\ Sound(kind, p)
  /\ \A r \in Build!JoiningRelations(kind) :
       r \notin unmerged =>
         SameTree(p, Build!Positions, Build!Position(r.source), Build!Position(r.target))

Unmerged(kind) ==
  (todo \cap Build!JoiningRelations(kind)) \cup (IF Build!InUnion THEN {goal.relation} ELSE {})

(* How far the loops have come.                                            *)
FindOK ==
  /\ \A r : goal.relation = r =>
       /\ goal.for = "left" => goal.node = Build!Position(r.source)
       /\ goal.for = "right" =>
            /\ goal.node = Build!Position(r.target)
            /\ RootAt(parents, Build!Positions, Build!Position(r.source), keptRoot)
       /\ goal.for \in {"left", "right"} =>
            r \notin todo /\ \A kind : resolution = kind => r \in Build!JoiningRelations(kind)
  /\ goal.for \in {"left", "right"} => DOMAIN roots = {}
  /\ goal.for = "member" => todo = {} /\ DOMAIN roots = 1 .. goal.node - 1
  /\ step = "compress" => RootAt(parents, Build!Positions, climbing, root)
  /\ step \in {"compress", "found"} => RootAt(parents, Build!Positions, goal.node, root)

StageOK ==
  \A kind, p, unmerged :
    kind # "none" /\ resolution = kind /\ parents = p /\ Unmerged(kind) = unmerged =>
      Stage(kind, p, unmerged)

MembersOK ==
  resolution # "none" =>
    \A i \in DOMAIN roots : i \in Build!Positions /\ RootAt(parents, Build!Positions, i, roots[i])

TreesOK ==
  /\ step = "idle" <=> resolution = "none"
  /\ StageOK /\ MembersOK
  /\ Finding => FindOK
  /\ step = "relation" => DOMAIN roots = {}
  /\ step = "number" => todo = {} /\ DOMAIN roots = Build!Positions

LEMMA GraphFixed ==
  ASSUME UNCHANGED graph
  PROVE  /\ Build!Positions' = Build!Positions
         /\ \A n : Build!Position(n)' = Build!Position(n)
         /\ \A kind : Build!JoiningRelations(kind)' = Build!JoiningRelations(kind)
         /\ \A kind, p, unmerged : Stage(kind, p, unmerged) => Stage(kind, p, unmerged)'
         /\ \A kind, m, n : Build!Connected(kind, m, n)' <=> Build!Connected(kind, m, n)
<1>1. Build!Positions' = Build!Positions /\ \A n : Build!Position(n)' = Build!Position(n)
  BY GraphKept
<1>2. \A kind : Build!JoiningRelations(kind)' = Build!JoiningRelations(kind)
  BY DEF Build!JoiningRelations, Build!Joins
<1>3. \A kind, S : Closed(kind, S)' <=> Closed(kind, S)
  BY <1>2 DEF Closed
<1>4. \A kind, p : Sound(kind, p) => Sound(kind, p)'
  BY <1>1, <1>3 DEF Sound
<1>5. \A kind, p, unmerged : Stage(kind, p, unmerged) => Stage(kind, p, unmerged)'
  BY <1>1, <1>2, <1>4 DEF Stage
<1>6. \A kind, m, n : Build!Connected(kind, m, n)' <=> Build!Connected(kind, m, n)
  BY <1>2 DEF Build!Connected
<1>. QED
  BY <1>1, <1>2, <1>5, <1>6

LEMMA ForestGiven ==
  ASSUME ForestOK, resolution # "none"
  PROVE  /\ Forest(parents, Build!Positions)
         /\ graph.nodes \subseteq MemoryNodes
         /\ \A n \in graph.nodes : Build!Position(n) \in Build!Positions
         /\ \A kind : \A r \in Build!JoiningRelations(kind) :
              r.source \in graph.nodes /\ r.target \in graph.nodes
<1>1. graph.nodes \subseteq MemoryNodes /\ parents \in [Build!Positions -> Build!Positions]
  BY DEF ForestOK
<1>2. \A i \in Build!Positions : parents[i] <= i
  BY <1>1 DEF ForestOK, ParentsDescend, Build!ParentsDescend
<1>3. \A kind : \A r \in Build!JoiningRelations(kind) :
        r.source \in graph.nodes /\ r.target \in graph.nodes
  BY DEF ForestOK, Build!JoiningRelations
<1>. QED
  BY <1>1, <1>2, <1>3, PositionTyped, PositionsNumbers DEF Forest

(* A root is in every set its positions' nodes are in.                     *)
LEMMA RootSound ==
  ASSUME ForestOK, resolution # "none", NEW kind, Sound(kind, parents),
         NEW S \in SUBSET graph.nodes, Closed(kind, S), NEW m \in graph.nodes, NEW n \in graph.nodes,
         RootAt(parents, Build!Positions, Build!Position(m), Build!Position(n))
  PROVE  m \in S <=> n \in S
<1>. DEFINE P == Build!Positions
            at(x) == Build!Position(x)
            Of(T) == {i \in P : \E x \in T : at(x) = i}
<1>1. /\ parents \in [P -> P] /\ \A x \in graph.nodes : at(x) \in P
      /\ \A x, y \in graph.nodes : at(x) = at(y) => x = y
      /\ \A i \in P : \E x \in graph.nodes : at(x) = i
  BY ForestGiven, NodesPlaced DEF Forest
<1>2. \A x, y \in graph.nodes : parents[at(x)] = at(y) => (x \in S <=> y \in S)
  BY DEF Sound
<1>. HIDE DEF P, at
<1>3. ASSUME NEW T \in SUBSET graph.nodes,
             \A x, y \in graph.nodes : parents[at(x)] = at(y) => (x \in T => y \in T)
      PROVE  \A i \in Of(T) : parents[i] \in Of(T)
  BY <1>1, <1>3
<1>4. ASSUME NEW T \in SUBSET graph.nodes,
             \A x, y \in graph.nodes : parents[at(x)] = at(y) => (x \in T => y \in T),
             m \in T
      PROVE  n \in T
  <2>1. Of(T) \in SUBSET P /\ at(m) \in Of(T) /\ \A i \in Of(T) : parents[i] \in Of(T)
    BY <1>1, <1>3, <1>4
  <2>2. at(n) \in Of(T)
    <3>1. Goes(parents, P, at(m), at(n))
      BY DEF RootAt, P, at
    <3>. HIDE DEF Of
    <3>. QED
      BY <2>1, <3>1, Zenon DEF Goes
  <2>. QED
    BY <1>1, <2>2
<1>5. m \in S => n \in S
  BY <1>2, <1>4
<1>6. m \in graph.nodes \ S => n \in graph.nodes \ S
  BY <1>2, <1>4
<1>. QED
  BY <1>5, <1>6


LEMMA TreesAreAnEquivalence ==
  ASSUME NEW P, NEW p, Forest(p, P)
  PROVE  /\ \A i \in P : SameTree(p, P, i, i)
         /\ \A i, j : SameTree(p, P, i, j) => SameTree(p, P, j, i)
         /\ \A i, j, k \in P : SameTree(p, P, i, j) /\ SameTree(p, P, j, k) => SameTree(p, P, i, k)
<1>1. \A i \in P : SameTree(p, P, i, i)
  BY RootFound DEF SameTree
<1>2. \A i, j : SameTree(p, P, i, j) => SameTree(p, P, j, i)
  BY DEF SameTree
<1>3. ASSUME NEW i \in P, NEW j \in P, NEW k \in P, SameTree(p, P, i, j), SameTree(p, P, j, k)
      PROVE  SameTree(p, P, i, k)
  <2>1. PICK a \in P : RootAt(p, P, i, a) /\ RootAt(p, P, j, a)
    BY <1>3 DEF SameTree
  <2>2. PICK b \in P : RootAt(p, P, j, b) /\ RootAt(p, P, k, b)
    BY <1>3 DEF SameTree
  <2>3. a = b
    BY <2>1, <2>2, RootUnique DEF Forest
  <2>. QED
    BY <2>1, <2>2, <2>3 DEF SameTree
<1>. QED
  BY <1>1, <1>2, <1>3

(* When every joining relation is merged, the trees are the components.    *)
LEMMA ComponentsAreTrees ==
  ASSUME ForestOK, resolution # "none", NEW kind, Stage(kind, parents, {}),
         NEW m \in graph.nodes, NEW n \in graph.nodes
  PROVE  Build!Connected(kind, m, n)
           <=> SameTree(parents, Build!Positions, Build!Position(m), Build!Position(n))
<1>. DEFINE P == Build!Positions
            at(x) == Build!Position(x)
<1>1. /\ Forest(parents, P) /\ \A x \in graph.nodes : at(x) \in P
      /\ \A r \in Build!JoiningRelations(kind) : r.source \in graph.nodes /\ r.target \in graph.nodes
      /\ \A i \in P : \E x \in graph.nodes : at(x) = i
  BY ForestGiven, NodesPlaced
<1>2. ASSUME Build!Connected(kind, m, n) PROVE SameTree(parents, P, at(m), at(n))
  <2>. DEFINE S == {x \in graph.nodes : SameTree(parents, P, at(m), at(x))}
  <2>1. m \in S
    BY <1>1, TreesAreAnEquivalence
  <2>2. ASSUME NEW r \in Build!JoiningRelations(kind) PROVE r.source \in S <=> r.target \in S
    <3>1. SameTree(parents, P, at(r.source), at(r.target))
      BY DEF Stage
    <3>2. r.source \in graph.nodes /\ r.target \in graph.nodes
      BY <1>1
    <3>3. at(m) \in P /\ at(r.source) \in P /\ at(r.target) \in P
      BY <1>1, <3>2
    <3>. HIDE DEF P, at
    <3>4. SameTree(parents, P, at(r.target), at(r.source))
      BY <1>1, <3>1, TreesAreAnEquivalence
    <3>5. SameTree(parents, P, at(m), at(r.source)) <=> SameTree(parents, P, at(m), at(r.target))
      BY <1>1, <3>1, <3>3, <3>4, TreesAreAnEquivalence
    <3>. QED
      BY <3>2, <3>5
  <2>3. S \in SUBSET graph.nodes
    OBVIOUS
  <2>4. n \in S
    <3>. HIDE DEF S
    <3>. QED
      BY <1>2, <2>1, <2>2, <2>3, Zenon DEF Build!Connected
  <2>. QED
    BY <2>4
<1>3. ASSUME SameTree(parents, P, at(m), at(n)) PROVE Build!Connected(kind, m, n)
  <2>. SUFFICES ASSUME NEW S \in SUBSET graph.nodes, m \in S,
                       \A r \in Build!JoiningRelations(kind) : r.source \in S <=> r.target \in S
                PROVE  n \in S
    BY DEF Build!Connected
  <2>1. Closed(kind, S) /\ Sound(kind, parents)
    BY DEF Closed, Stage
  <2>2. PICK k \in P : RootAt(parents, P, at(m), k) /\ RootAt(parents, P, at(n), k)
    BY <1>3 DEF SameTree
  <2>3. PICK x \in graph.nodes : at(x) = k
    BY <1>1
  <2>4. (m \in S <=> x \in S) /\ (n \in S <=> x \in S)
    BY <2>1, <2>2, <2>3, RootSound
  <2>. QED
    BY <2>4
<1>. QED
  BY <1>2, <1>3

(* Compression of the path behind a find.                                  *)
LEMMA CompressionKeepsStage ==
  ASSUME ForestOK, resolution # "none", NEW kind, NEW unmerged, Stage(kind, parents, unmerged),
         NEW c \in Build!Positions, NEW r, RootAt(parents, Build!Positions, c, r),
         NEW p, p = [parents EXCEPT ![c] = r]
  PROVE  Stage(kind, p, unmerged)
<1>. DEFINE P == Build!Positions
            at(x) == Build!Position(x)
<1>1. /\ parents \in [P -> P] /\ \A x \in graph.nodes : at(x) \in P
      /\ \A r0 \in Build!JoiningRelations(kind) : r0.source \in graph.nodes /\ r0.target \in graph.nodes
  BY ForestGiven DEF Forest
<1>2. Sound(kind, p)
  <2>. SUFFICES ASSUME NEW S \in SUBSET graph.nodes, Closed(kind, S),
                       NEW m \in graph.nodes, NEW n \in graph.nodes, p[at(m)] = at(n)
                PROVE  m \in S <=> n \in S
    BY DEF Sound
  <2>1. Sound(kind, parents)
    BY DEF Stage
  <2>2. CASE at(m) = c
    <3>1. p[at(m)] = r
      BY <1>1, <2>2
    <3>2. RootAt(parents, P, at(m), at(n))
      BY <2>2, <3>1
    <3>. QED
      BY <2>1, <3>2, RootSound
  <2>3. CASE at(m) # c
    <3>1. parents[at(m)] = at(n)
      BY <1>1, <2>3
    <3>. QED
      BY <2>1, <3>1 DEF Sound
  <2>. QED
    BY <2>2, <2>3
<1>3. ASSUME NEW r0 \in Build!JoiningRelations(kind), r0 \notin unmerged
      PROVE  SameTree(p, P, at(r0.source), at(r0.target))
  <2>1. SameTree(parents, P, at(r0.source), at(r0.target))
    BY <1>3 DEF Stage
  <2>2. PICK k \in P : RootAt(parents, P, at(r0.source), k) /\ RootAt(parents, P, at(r0.target), k)
    BY <2>1 DEF SameTree
  <2>3. at(r0.source) \in P /\ at(r0.target) \in P
    BY <1>1
  <2>. HIDE DEF P, at
  <2>4. RootAt(p, P, at(r0.source), k) /\ RootAt(p, P, at(r0.target), k)
    <3>1. c \in P /\ RootAt(parents, P, c, r)
      BY DEF P
    <3>. QED
      BY <1>1, <2>2, <2>3, <3>1, CompressedRoots
  <2>. QED
    BY <2>4 DEF SameTree
<1>. QED
  BY <1>2, <1>3 DEF Stage


(* union puts one root under the other.                                    *)
LEMMA MergedInto ==
  ASSUME NEW P \in SUBSET Nat, parents \in [P -> P], NEW left \in P, NEW right \in P,
         parents[left] = left, parents[right] = right
  PROVE  \E a, b \in {left, right} :
           IF left = right THEN Build!Merged(left, right) = parents
           ELSE /\ {a, b} = {left, right} /\ a # b
                /\ Build!Merged(left, right) = [parents EXCEPT ![b] = a]
<1>1. CASE left = right
  <2>1. Build!Merged(left, right) = [parents EXCEPT ![left] = right]
    BY <1>1 DEF Build!Merged
  <2>2. Build!Merged(left, right) = parents
    BY <1>1, <2>1
  <2>. QED
    BY <1>1, <2>2
<1>2. CASE left # right
  <2>1. \/ Build!Merged(left, right) = [parents EXCEPT ![right] = left]
        \/ Build!Merged(left, right) = [parents EXCEPT ![left] = right]
    BY DEF Build!Merged
  <2>. QED
    BY <1>2, <2>1
<1>. QED
  BY <1>1, <1>2

(* union, on the roots of the ends of a relation.                          *)
LEMMA MergeKeepsStage ==
  ASSUME ForestOK, resolution # "none", NEW kind, NEW rel \in Build!JoiningRelations(kind),
         NEW before, NEW unmerged, before \subseteq unmerged \cup {rel}, Stage(kind, parents, before),
         NEW left, RootAt(parents, Build!Positions, Build!Position(rel.source), left),
         NEW right, RootAt(parents, Build!Positions, Build!Position(rel.target), right),
         NEW p, p = Build!Merged(left, right)
  PROVE  Stage(kind, p, unmerged)
<1>. DEFINE P == Build!Positions
            at(x) == Build!Position(x)
<1>1. /\ Forest(parents, P) /\ \A x \in graph.nodes : at(x) \in P
      /\ \A r \in Build!JoiningRelations(kind) : r.source \in graph.nodes /\ r.target \in graph.nodes
      /\ \A i \in P : \E x \in graph.nodes : at(x) = i
  BY ForestGiven, NodesPlaced
<1>2. left \in P /\ right \in P /\ parents[left] = left /\ parents[right] = right
  BY DEF RootAt
<1>3. rel.source \in graph.nodes /\ rel.target \in graph.nodes
  BY <1>1
<1>4. PICK a \in {left, right}, b \in {left, right} :
        IF left = right THEN p = parents
        ELSE {a, b} = {left, right} /\ a # b /\ p = [parents EXCEPT ![b] = a]
  BY <1>1, <1>2, MergedInto DEF Forest
<1>5. Sound(kind, p)
  <2>. SUFFICES ASSUME NEW S \in SUBSET graph.nodes, Closed(kind, S),
                       NEW m \in graph.nodes, NEW n \in graph.nodes, p[at(m)] = at(n)
                PROVE  m \in S <=> n \in S
    BY DEF Sound
  <2>1. Sound(kind, parents)
    BY DEF Stage
  <2>2. CASE parents[at(m)] = at(n)
    BY <2>1, <2>2 DEF Sound
  <2>3. CASE parents[at(m)] # at(n)
    <3>1. {at(m), at(n)} \subseteq {left, right} /\ at(m) # at(n)
      <4>1. at(m) \in P /\ parents \in [P -> P]
        BY <1>1 DEF Forest
      <4>. HIDE DEF P, at
      <4>2. left # right
        BY <1>4, <2>3
      <4>3. at(m) = b /\ at(n) = a
        BY <1>4, <2>3, <4>1, <4>2
      <4>. QED
        BY <1>4, <4>2, <4>3
    <3>2. \A x, y \in graph.nodes : at(x) = left /\ at(y) = right => (x \in S <=> y \in S)
      <4>. SUFFICES ASSUME NEW x \in graph.nodes, NEW y \in graph.nodes, at(x) = left, at(y) = right
                    PROVE  x \in S <=> y \in S
        OBVIOUS
      <4>1. rel.source \in S <=> x \in S
        BY <1>3, <2>1, RootSound
      <4>2. rel.target \in S <=> y \in S
        BY <1>3, <2>1, RootSound
      <4>3. rel.source \in S <=> rel.target \in S
        BY DEF Closed
      <4>. QED
        BY <4>1, <4>2, <4>3
    <3>3. \/ at(m) = left /\ at(n) = right
          \/ at(m) = right /\ at(n) = left
      <4>. HIDE DEF at
      <4>. QED
        BY <3>1
    <3>. QED
      BY <3>2, <3>3
  <2>. QED
    BY <2>2, <2>3
<1>6. ASSUME NEW i \in P, NEW j \in P, NEW k, RootAt(parents, P, i, k),
             NEW l, RootAt(parents, P, j, l), k = l \/ {k, l} = {left, right}
      PROVE  SameTree(p, P, i, j)
  <2>. HIDE DEF P
  <2>1. CASE left = right
    <3>1. k = l
      BY <1>6, <2>1
    <3>2. p = parents /\ k \in P
      BY <1>4, <1>6, <2>1 DEF RootAt
    <3>. QED
      BY <1>6, <3>1, <3>2, Zenon DEF SameTree
  <2>2. CASE left # right
    <3>1. {a, b} = {left, right} /\ a # b /\ p = [parents EXCEPT ![b] = a]
      BY <1>4, <2>2
    <3>2. a \in P /\ b \in P /\ parents[a] = a /\ parents[b] = b /\ parents \in [P -> P]
      BY <1>1, <1>2 DEF Forest
    <3>3. RootAt(p, P, i, IF k = b THEN a ELSE k) /\ RootAt(p, P, j, IF l = b THEN a ELSE l)
      BY <1>6, <3>1, <3>2, MergedRoots
    <3>4. (IF k = b THEN a ELSE k) = (IF l = b THEN a ELSE l)
      BY <1>6, <3>1
    <3>5. (IF k = b THEN a ELSE k) \in P
      BY <3>3 DEF RootAt
    <3>. QED
      BY <3>3, <3>4, <3>5, Zenon DEF SameTree
  <2>. QED
    BY <2>1, <2>2
<1>7. ASSUME NEW r \in Build!JoiningRelations(kind), r \notin unmerged
      PROVE  SameTree(p, P, at(r.source), at(r.target))
  <2>1. at(r.source) \in P /\ at(r.target) \in P
    BY <1>1
  <2>2. CASE r = rel
    BY <1>6, <2>1, <2>2
  <2>3. CASE r # rel
    <3>1. SameTree(parents, P, at(r.source), at(r.target))
      BY <1>7, <2>3 DEF Stage
    <3>2. PICK k \in P : RootAt(parents, P, at(r.source), k) /\ RootAt(parents, P, at(r.target), k)
      BY <3>1 DEF SameTree
    <3>. QED
      BY <1>6, <2>1, <3>2
  <2>. QED
    BY <2>2, <2>3
<1>. QED
  BY <1>5, <1>7 DEF Stage


(* What a step has to show of the stage when it leaves the forest alone.   *)
LEMMA StageStays ==
  ASSUME StageOK, UNCHANGED <<graph, resolution, parents>>,
         \A kind : resolution = kind => Unmerged(kind)' = Unmerged(kind)
  PROVE  StageOK'
<1>. SUFFICES ASSUME NEW kind, NEW p, NEW unmerged, kind # "none", resolution' = kind, parents' = p,
                     Unmerged(kind)' = unmerged
              PROVE  Stage(kind, p, unmerged)'
  BY DEF StageOK
<1>1. Stage(kind, p, unmerged)
  <2>1. resolution = kind /\ parents = p /\ Unmerged(kind) = unmerged
    OBVIOUS
  <2>. QED
    BY <2>1 DEF StageOK
<1>. QED
  BY <1>1, GraphFixed

LEMMA MembersStay ==
  ASSUME MembersOK, UNCHANGED <<graph, resolution, parents, roots>>
  PROVE  MembersOK'
BY GraphKept DEF MembersOK

LEMMA SameUnmerged ==
  ASSUME UNCHANGED graph, NEW kind,
         (todo \cap Build!JoiningRelations(kind)) \cup (IF Build!InUnion THEN {goal.relation} ELSE {})
           = (todo' \cap Build!JoiningRelations(kind)) \cup (IF Build!InUnion' THEN {goal'.relation} ELSE {})
  PROVE  Unmerged(kind)' = Unmerged(kind)
BY GraphFixed DEF Unmerged

LEMMA NextRelationKeepsTrees ==
  ASSUME ForestOK, TreesOK, NEW r \in todo, Build!NextRelation(r)
  PROVE  TreesOK'
<1>1. /\ step = "relation" /\ todo' = todo \ {r} /\ resolution # "none" /\ DOMAIN roots = {}
      /\ UNCHANGED <<graph, resolution, parents, keptRoot, roots>>
  BY DEF Build!NextRelation, TreesOK
<1>2. \A kind : resolution = kind => (Build!Joins(r, resolution) <=> r \in Build!JoiningRelations(kind))
  BY DEF Build!JoiningRelations, ForestOK
<1>3. MembersOK' /\ ~Build!InUnion
  BY <1>1, MembersStay DEF TreesOK, Build!InUnion
<1>4. CASE Build!Joins(r, resolution)
  <2>1. Build!Find(Build!Position(r.source), "left", r)
    BY <1>4, Zenon DEF Build!NextRelation
  <2>2. /\ step' = "root" /\ goal'.node = Build!Position(r.source) /\ goal'.for = "left"
        /\ goal'.relation = r
    BY <2>1 DEF Build!Find
  <2>3. StageOK'
    <3>1. \A kind : resolution = kind => Unmerged(kind)' = Unmerged(kind)
      <4>. SUFFICES ASSUME NEW kind, resolution = kind PROVE Unmerged(kind)' = Unmerged(kind)
        OBVIOUS
      <4>1. Build!InUnion' /\ r \in Build!JoiningRelations(kind)
        BY <1>2, <1>4, <2>2 DEF Build!InUnion
      <4>. QED
        BY <1>1, <1>3, <2>2, <4>1, SameUnmerged
    <3>. QED
      BY <1>1, <3>1, StageStays DEF TreesOK
  <2>4. FindOK'
    BY <1>1, <1>2, <1>4, <2>2, GraphFixed DEF FindOK
  <2>. QED
    BY <1>1, <1>3, <2>2, <2>3, <2>4 DEF TreesOK
<1>5. CASE ~Build!Joins(r, resolution)
  <2>1. UNCHANGED <<step, goal>>
    BY <1>5 DEF Build!NextRelation
  <2>2. StageOK'
    <3>1. \A kind : resolution = kind => Unmerged(kind)' = Unmerged(kind)
      <4>. SUFFICES ASSUME NEW kind, resolution = kind PROVE Unmerged(kind)' = Unmerged(kind)
        OBVIOUS
      <4>1. ~Build!InUnion' /\ r \notin Build!JoiningRelations(kind)
        BY <1>1, <1>2, <1>5, <2>1 DEF Build!InUnion
      <4>. QED
        BY <1>1, <1>3, <4>1, SameUnmerged
    <3>. QED
      BY <1>1, <3>1, StageStays DEF TreesOK
  <2>. QED
    BY <1>1, <1>3, <2>1, <2>2 DEF TreesOK, Finding
<1>. QED
  BY <1>4, <1>5


LEMMA GroupPositionsKeepsTrees ==
  ASSUME ForestOK, TreesOK, Build!GroupPositions
  PROVE  TreesOK'
<1>1. /\ step = "relation" /\ todo = {} /\ resolution # "none" /\ DOMAIN roots = {}
      /\ UNCHANGED <<graph, resolution, todo, parents, keptRoot, roots>>
  BY DEF Build!GroupPositions, TreesOK
<1>2. MembersOK' /\ ~Build!InUnion
  BY <1>1, MembersStay DEF TreesOK, Build!InUnion
<1>3. ASSUME ~Build!InUnion' PROVE StageOK'
  <2>1. \A kind : Unmerged(kind)' = Unmerged(kind)
    BY <1>1, <1>2, <1>3, SameUnmerged
  <2>. QED
    BY <1>1, <2>1, StageStays DEF TreesOK
<1>4. CASE Build!Positions = {}
  <2>1. step' = "number"
    BY <1>4 DEF Build!GroupPositions
  <2>. QED
    BY <1>1, <1>2, <1>3, <1>4, <2>1, GraphFixed DEF TreesOK, Finding, Build!InUnion
<1>5. CASE Build!Positions # {}
  <2>1. Build!Find(1, "member", Build!NoRelation)
    BY <1>5, Zenon DEF Build!GroupPositions
  <2>2. step' = "root" /\ goal'.node = 1 /\ goal'.for = "member"
    BY <2>1 DEF Build!Find
  <2>3. FindOK'
    BY <1>1, <2>2 DEF FindOK
  <2>. QED
    BY <1>1, <1>2, <1>3, <2>2, <2>3 DEF TreesOK, Finding, Build!InUnion
<1>. QED
  BY <1>4, <1>5

LEMMA ClimbKeepsTrees ==
  ASSUME ForestOK, TreesOK, Build!ClimbToRoot
  PROVE  TreesOK'
<1>1. /\ step = "root" /\ step' \in {"root", "compress"} /\ resolution # "none" /\ FindOK
      /\ UNCHANGED <<graph, resolution, todo, parents, goal, climbing, keptRoot, roots>>
  BY DEF Build!ClimbToRoot, TreesOK, Finding
<1>2. MembersOK' /\ Build!InUnion' = Build!InUnion
  BY <1>1, MembersStay DEF TreesOK, Build!InUnion
<1>3. StageOK'
  <2>1. \A kind : Unmerged(kind)' = Unmerged(kind)
    BY <1>1, <1>2, SameUnmerged
  <2>. QED
    BY <1>1, <2>1, StageStays DEF TreesOK
<1>4. FindOK'
  <2>1. ASSUME step' = "compress"
        PROVE  RootAt(parents, Build!Positions, climbing, root') /\ climbing = goal.node
    <3>1. parents[root] = root /\ root' = root
      BY <1>1, <2>1 DEF Build!ClimbToRoot
    <3>. QED
      BY <1>1, <3>1 DEF ForestOK, Finding, Leads, RootAt, Goes
  <2>. QED
    BY <1>1, <2>1, GraphFixed DEF FindOK
<1>. QED
  BY <1>1, <1>2, <1>3, <1>4 DEF TreesOK, Finding

LEMMA CompressKeepsTrees ==
  ASSUME ForestOK, TreesOK, Build!Compress
  PROVE  TreesOK'
<1>1. /\ step = "compress" /\ step' \in {"compress", "found"} /\ resolution # "none" /\ FindOK
      /\ UNCHANGED <<graph, resolution, todo, goal, root, keptRoot, roots>>
  BY DEF Build!Compress, TreesOK, Finding
<1>2. Build!InUnion' = Build!InUnion /\ \A kind : Unmerged(kind)' = Unmerged(kind)
  <2>1. Build!InUnion' = Build!InUnion
    BY <1>1 DEF Build!InUnion
  <2>. QED
    BY <1>1, <2>1, SameUnmerged
<1>3. CASE UNCHANGED parents /\ step' = "found"
  <2>1. StageOK' /\ MembersOK'
    BY <1>1, <1>2, <1>3, StageStays, MembersStay DEF TreesOK
  <2>2. FindOK'
    BY <1>1, <1>3, GraphFixed DEF FindOK
  <2>. QED
    BY <1>1, <1>3, <2>1, <2>2 DEF TreesOK, Finding
<1>4. CASE parents[climbing] # climbing /\ parents' = [parents EXCEPT ![climbing] = root]
           /\ climbing' = parents[climbing] /\ step' = "compress"
  <2>. DEFINE P == Build!Positions
  <2>1. /\ Forest(parents, P) /\ climbing \in P /\ goal.node \in P
        /\ RootAt(parents, P, climbing, root) /\ RootAt(parents, P, goal.node, root)
    BY <1>1, ForestGiven DEF ForestOK, Finding, FindOK
  <2>2. P' = P /\ \A n : Build!Position(n)' = Build!Position(n)
    BY <1>1, GraphFixed
  <2>3. \A i \in P : \A j : RootAt(parents, P, i, j) => RootAt(parents', P, i, j)
    <3>. HIDE DEF P
    <3>. QED
      BY <1>4, <2>1, CompressedRoots DEF Forest
  <2>4. StageOK'
    <3>. SUFFICES ASSUME NEW kind, NEW p, NEW unmerged, kind # "none", resolution' = kind, parents' = p,
                         Unmerged(kind)' = unmerged
                  PROVE  Stage(kind, p, unmerged)'
      BY DEF StageOK
    <3>1. resolution = kind /\ Unmerged(kind) = unmerged
      BY <1>1, <1>2
    <3>2. Stage(kind, parents, unmerged)
      <4>1. \A q : parents = q => Stage(kind, q, unmerged)
        BY <3>1 DEF TreesOK, StageOK
      <4>. QED
        BY <4>1
    <3>3. Stage(kind, p, unmerged)
      BY <1>1, <1>4, <2>1, <3>2, CompressionKeepsStage
    <3>. QED
      BY <1>1, <3>3, GraphFixed
  <2>5. MembersOK'
    BY <1>1, <2>2, <2>3 DEF TreesOK, MembersOK
  <2>6. FindOK'
    <3>1. parents[climbing] \in P
      BY <2>1 DEF Forest
    <3>2. RootAt(parents', P, climbing', root)
      <4>1. RootAt(parents, P, parents[climbing], root)
        BY <2>1, RootOfParent DEF Forest
      <4>. QED
        BY <1>4, <2>3, <3>1, <4>1
    <3>3. RootAt(parents', P, goal.node, root)
      BY <2>1, <2>3
    <3>4. ASSUME NEW r, goal.relation = r, goal.for = "right"
          PROVE  RootAt(parents', P, Build!Position(r.source), keptRoot)
      <4>1. RootAt(parents, P, Build!Position(r.source), keptRoot)
        BY <1>1, <3>4 DEF FindOK
      <4>2. r \in DOMAIN graph.weight
        BY <1>1, <3>4 DEF ForestOK, Finding
      <4>3. r.source \in graph.nodes
        BY <4>2 DEF ForestOK
      <4>4. Build!Position(r.source) \in P
        BY <1>1, <4>3, ForestGiven
      <4>. QED
        BY <2>3, <4>1, <4>4
    <3>. HIDE DEF P
    <3>5. Build!Positions = P /\ Build!Positions' = P
      BY <2>2 DEF P
    <3>6. /\ goal.for \in {"left", "right"} => DOMAIN roots = {}
          /\ goal.for = "member" => todo = {} /\ DOMAIN roots = 1 .. goal.node - 1
      BY <1>1 DEF FindOK
    <3>7. ASSUME NEW r, goal.relation = r
          PROVE  /\ goal.for = "left" => goal.node = Build!Position(r.source)
                 /\ goal.for = "right" =>
                      /\ goal.node = Build!Position(r.target)
                      /\ RootAt(parents', P, Build!Position(r.source), keptRoot)
                 /\ goal.for \in {"left", "right"} =>
                      r \notin todo /\ \A kind : resolution = kind => r \in Build!JoiningRelations(kind)
      BY <1>1, <3>4, <3>7 DEF FindOK
    <3>8. \A kind : Build!JoiningRelations(kind)' = Build!JoiningRelations(kind)
      BY <1>1, GraphFixed
    <3>. QED
      BY <1>1, <1>4, <2>2, <3>2, <3>3, <3>5, <3>6, <3>7, <3>8, Zenon DEF FindOK
  <2>. QED
    BY <1>1, <1>4, <2>4, <2>5, <2>6 DEF TreesOK, Finding
<1>. QED
  BY <1>1, <1>3, <1>4 DEF Build!Compress


LEMMA LeftFoundKeepsTrees ==
  ASSUME ForestOK, TreesOK, Build!LeftFound
  PROVE  TreesOK'
<1>1. /\ step = "found" /\ goal.for = "left" /\ resolution # "none" /\ FindOK /\ keptRoot' = root
      /\ UNCHANGED <<graph, resolution, todo, parents, roots>>
  BY DEF Build!LeftFound, TreesOK, Finding
<1>2. PICK r : goal.relation = r
  OBVIOUS
<1>3. /\ step' = "root" /\ goal'.node = Build!Position(r.target) /\ goal'.for = "right"
      /\ goal'.relation = r
  <2>1. Build!Find(Build!Position(goal.relation.target), "right", goal.relation)
    BY Zenon DEF Build!LeftFound
  <2>. QED
    BY <1>2, <2>1 DEF Build!Find
<1>4. MembersOK' /\ Build!InUnion /\ Build!InUnion'
  BY <1>1, <1>3, MembersStay DEF TreesOK, Build!InUnion
<1>5. StageOK'
  <2>1. \A kind : Unmerged(kind)' = Unmerged(kind)
    BY <1>1, <1>2, <1>3, <1>4, SameUnmerged
  <2>. QED
    BY <1>1, <2>1, StageStays DEF TreesOK
<1>6. FindOK'
  <2>1. RootAt(parents, Build!Positions, Build!Position(r.source), root)
    BY <1>1, <1>2 DEF FindOK
  <2>2. /\ DOMAIN roots = {} /\ r \notin todo
        /\ \A kind : resolution = kind => r \in Build!JoiningRelations(kind)
    BY <1>1, <1>2 DEF FindOK
  <2>3. /\ Build!Positions' = Build!Positions /\ \A n : Build!Position(n)' = Build!Position(n)
        /\ \A kind : Build!JoiningRelations(kind)' = Build!JoiningRelations(kind)
    BY <1>1, GraphFixed
  <2>. QED
    BY <1>1, <1>3, <2>1, <2>2, <2>3 DEF FindOK
<1>. QED
  BY <1>1, <1>3, <1>4, <1>5, <1>6 DEF TreesOK, Finding

LEMMA RightFoundKeepsTrees ==
  ASSUME ForestOK, TreesOK, Build!RightFound
  PROVE  TreesOK'
<1>1. /\ step = "found" /\ goal.for = "right" /\ resolution # "none" /\ FindOK
      /\ step' = "relation" /\ parents' = Build!Merged(keptRoot, root)
      /\ UNCHANGED <<graph, resolution, todo, goal, root, keptRoot, roots>>
  BY DEF Build!RightFound, TreesOK, Finding
<1>2. PICK r : goal.relation = r
  OBVIOUS
<1>3. /\ RootAt(parents, Build!Positions, Build!Position(r.source), keptRoot)
      /\ RootAt(parents, Build!Positions, Build!Position(r.target), root)
      /\ DOMAIN roots = {} /\ \A kind : resolution = kind => r \in Build!JoiningRelations(kind)
  BY <1>1, <1>2 DEF FindOK
<1>4. StageOK'
  <2>. SUFFICES ASSUME NEW kind, NEW p, NEW unmerged, kind # "none", resolution' = kind, parents' = p,
                       Unmerged(kind)' = unmerged
                PROVE  Stage(kind, p, unmerged)'
    BY DEF StageOK
  <2>1. resolution = kind /\ r \in Build!JoiningRelations(kind)
    BY <1>1, <1>3
  <2>2. \A before : Unmerged(kind) = before => Stage(kind, parents, before)
    <3>1. \A q, before : parents = q /\ Unmerged(kind) = before => Stage(kind, q, before)
      BY <2>1 DEF TreesOK, StageOK
    <3>. QED
      BY <3>1
  <2>3. Unmerged(kind) \subseteq unmerged \cup {r}
    <3>1. Build!JoiningRelations(kind)' = Build!JoiningRelations(kind)
      BY <1>1, GraphFixed
    <3>2. ~Build!InUnion'
      BY <1>1 DEF Build!InUnion
    <3>3. unmerged = todo \cap Build!JoiningRelations(kind)
      BY <1>1, <3>1, <3>2 DEF Unmerged
    <3>. QED
      BY <1>2, <3>3 DEF Unmerged
  <2>4. Stage(kind, p, unmerged)
    <3>1. PICK before : Unmerged(kind) = before
      OBVIOUS
    <3>2. before \subseteq unmerged \cup {r} /\ Stage(kind, parents, before)
      BY <2>2, <2>3, <3>1
    <3>3. p = Build!Merged(keptRoot, root)
      BY <1>1
    <3>. QED
      BY <1>1, <1>3, <2>1, <3>2, <3>3, MergeKeepsStage
  <2>. QED
    BY <1>1, <2>4, GraphFixed
<1>5. MembersOK'
  BY <1>1, <1>3 DEF MembersOK
<1>. QED
  BY <1>1, <1>3, <1>4, <1>5 DEF TreesOK, Finding

LEMMA MemberFoundKeepsTrees ==
  ASSUME ForestOK, TreesOK, Build!MemberFound
  PROVE  TreesOK'
<1>1. /\ step = "found" /\ goal.for = "member" /\ resolution # "none" /\ FindOK /\ todo = {}
      /\ UNCHANGED <<graph, resolution, todo, parents, keptRoot>>
  BY DEF Build!MemberFound, TreesOK, Finding, FindOK
<1>2. /\ DOMAIN roots = 1 .. goal.node - 1
      /\ goal.node \in Build!Positions /\ RootAt(parents, Build!Positions, goal.node, root)
  BY <1>1 DEF FindOK, ForestOK, Finding
<1>3. roots' = [i \in DOMAIN roots \cup {goal.node} |-> IF i = goal.node THEN root ELSE roots[i]]
  BY DEF Build!MemberFound
<1>4. PICK last \in Nat : Build!Positions = 1 .. last
  <2>1. IsFiniteSet(graph.nodes)
    BY NodesValid, FS_Subset, Zenon DEF ForestOK
  <2>2. Cardinality(graph.nodes) \in Nat
    BY <2>1, FS_CardinalityType, Zenon
  <2>. QED
    BY <2>2, SameCardinality, Zenon DEF Build!Positions
<1>5. DOMAIN roots' = 1 .. goal.node
  BY <1>2, <1>3, <1>4
<1>6. MembersOK'
  <2>1. Build!Positions' = Build!Positions
    BY <1>1, GraphKept
  <2>2. \A i \in DOMAIN roots : i \in Build!Positions /\ RootAt(parents, Build!Positions, i, roots[i])
    BY <1>1 DEF TreesOK, MembersOK
  <2>. QED
    BY <1>1, <1>2, <1>3, <2>1, <2>2 DEF MembersOK
<1>7. ASSUME ~Build!InUnion' PROVE StageOK'
  <2>1. ~Build!InUnion
    BY <1>1 DEF Build!InUnion
  <2>2. \A kind : Unmerged(kind)' = Unmerged(kind)
    BY <1>1, <1>7, <2>1, SameUnmerged
  <2>. QED
    BY <1>1, <2>2, StageStays DEF TreesOK
<1>8. CASE goal.node + 1 \in Build!Positions
  <2>1. Build!Find(goal.node + 1, "member", Build!NoRelation)
    BY <1>8, Zenon DEF Build!MemberFound
  <2>2. step' = "root" /\ goal'.node = goal.node + 1 /\ goal'.for = "member"
    BY <2>1 DEF Build!Find
  <2>3. FindOK'
    <3>1. DOMAIN roots' = 1 .. goal'.node - 1
      BY <1>2, <1>4, <1>5, <2>2
    <3>. QED
      BY <1>1, <2>2, <3>1 DEF FindOK
  <2>. QED
    BY <1>1, <1>6, <1>7, <2>2, <2>3 DEF TreesOK, Finding, Build!InUnion
<1>9. CASE goal.node + 1 \notin Build!Positions
  <2>1. step' = "number"
    BY <1>9 DEF Build!MemberFound
  <2>2. DOMAIN roots' = Build!Positions'
    <3>1. Build!Positions' = Build!Positions
      BY <1>1, GraphKept
    <3>2. 1 .. goal.node = 1 .. last
      BY <1>2, <1>4, <1>9
    <3>. QED
      BY <1>4, <1>5, <3>1, <3>2
  <2>. QED
    BY <1>1, <1>6, <1>7, <2>1, <2>2 DEF TreesOK, Finding, Build!InUnion
<1>. QED
  BY <1>8, <1>9


(* The same of the graph of the next state.                                *)
PlacesOK ==
  graph.nodes \subseteq MemoryNodes =>
    /\ \A n \in graph.nodes : Build!Position(n) \in Build!Positions
    /\ \A m, n \in graph.nodes : Build!Position(m) = Build!Position(n) => m = n
    /\ \A i \in Build!Positions : \E n \in graph.nodes : Build!Position(n) = i

LEMMA NodesApart == PlacesOK
BY PositionTyped, NodesPlaced DEF PlacesOK

LEMMA NodesApartNext == PlacesOK'
BY NodesApart, PTL

LEMMA BeginKeepsTrees ==
  ASSUME NEW kind \in {"fine", "coarse"}, Build!Begin(kind), (graph.nodes \subseteq MemoryNodes)'
  PROVE  TreesOK'
<1>1. /\ step' = "relation" /\ resolution' = kind /\ todo' = DOMAIN graph'.weight
      /\ DOMAIN roots' = {}
  BY DEF Build!Begin
<1>2. parents' = [i \in Build!Positions' |-> i]
  BY Zenon DEF Build!Begin, Build!Positions
<1>3. \A p : parents' = p => Stage(kind, p, Build!JoiningRelations(kind))'
  <2>. SUFFICES ASSUME NEW p, parents' = p PROVE Stage(kind, p, Build!JoiningRelations(kind))'
    OBVIOUS
  <2>1. Sound(kind, p)'
    <3>1. /\ \A n \in graph'.nodes : Build!Position(n)' \in Build!Positions'
          /\ \A m, n \in graph'.nodes : Build!Position(m)' = Build!Position(n)' => m = n
      BY NodesApartNext DEF PlacesOK
    <3>2. \A m, n \in graph'.nodes : p[Build!Position(m)'] = Build!Position(n)' => m = n
      BY <1>2, <3>1
    <3>. QED
      BY <3>2 DEF Sound
  <2>. QED
    BY <2>1 DEF Stage
<1>4. StageOK'
  <2>. SUFFICES ASSUME NEW k, NEW p, NEW unmerged, k # "none", resolution' = k, parents' = p,
                       Unmerged(k)' = unmerged
                PROVE  Stage(k, p, unmerged)'
    BY DEF StageOK
  <2>1. k = kind
    BY <1>1
  <2>2. Stage(kind, p, Build!JoiningRelations(kind))'
    BY <1>3
  <2>3. Build!JoiningRelations(kind)' \subseteq unmerged
    <3>1. Build!JoiningRelations(kind)' \subseteq DOMAIN graph'.weight
      BY DEF Build!JoiningRelations
    <3>. QED
      BY <1>1, <2>1, <3>1 DEF Unmerged
  <2>4. Stage(kind, p, unmerged)'
    BY <2>2, <2>3 DEF Stage
  <2>. QED
    BY <2>1, <2>4
<1>. QED
  BY <1>1, <1>4 DEF TreesOK, MembersOK, Finding

LEMMA TreesStep ==
  ASSUME StoreOK, ForestOK, TreesOK, [Next]_vars
  PROVE  TreesOK'
<1>1. ASSUME UNCHANGED build PROVE TreesOK'
  <2>1. UNCHANGED <<graph, resolution, step, todo, parents, goal, root, climbing, keptRoot, roots>>
    BY <1>1 DEF build
  <2>2. StageOK'
    <3>1. Build!InUnion' = Build!InUnion
      BY <2>1 DEF Build!InUnion
    <3>2. \A kind : Unmerged(kind)' = Unmerged(kind)
      BY <2>1, <3>1, SameUnmerged
    <3>. QED
      BY <2>1, <3>2, StageStays DEF TreesOK
  <2>3. MembersOK'
    BY <2>1, MembersStay DEF TreesOK
  <2>4. Finding' <=> Finding
    BY <2>1 DEF Finding
  <2>5. FindOK => FindOK'
    BY <2>1, GraphFixed DEF FindOK
  <2>6. Build!Positions' = Build!Positions
    BY <2>1, GraphKept
  <2>. QED
    BY <2>1, <2>2, <2>3, <2>4, <2>5, <2>6 DEF TreesOK
<1>2. CASE BuildStarts
  <2>1. graph' = [nodes |-> nodes, weight |-> weight] /\ Build!Begin("fine")
    BY <1>2, Zenon DEF BuildStarts, Build!Build
  <2>2. graph'.nodes = nodes
    BY <2>1
  <2>. QED
    BY <2>1, <2>2, BeginKeepsTrees DEF StoreOK
<1>3. CASE BuildContinues
  <2>1. CASE Build!NumberGroups
    <3>1. graph' = graph /\ step = "number" /\ resolution # "none"
      BY <2>1, Zenon DEF Build!NumberGroups, TreesOK
    <3>2. CASE resolution = "fine"
      <4>1. Build!Begin("coarse")
        BY <2>1, <3>2, Zenon DEF Build!NumberGroups
      <4>. QED
        BY <3>1, <4>1, BeginKeepsTrees DEF ForestOK
    <3>3. CASE resolution # "fine"
      <4>1. step' = "idle" /\ resolution' = "none"
        BY <2>1, <3>3, Zenon DEF Build!NumberGroups
      <4>. QED
        BY <4>1 DEF TreesOK, StageOK, MembersOK, Finding
    <3>. QED
      BY <3>2, <3>3
  <2>. QED
    BY <1>3, <2>1, NextRelationKeepsTrees, GroupPositionsKeepsTrees, ClimbKeepsTrees,
       CompressKeepsTrees, LeftFoundKeepsTrees, RightFoundKeepsTrees, MemberFoundKeepsTrees,
       Zenon DEF BuildContinues, Build!Step
<1>4. CASE BuildEnds
  BY <1>1, <1>4 DEF BuildEnds
<1>5. CASE UNCHANGED vars
  BY <1>1, <1>5 DEF vars
<1>. QED
  BY <1>1, <1>2, <1>3, <1>4, <1>5, Zenon DEF Next, CallStep

LEMMA TreesInit ==
  ASSUME Init
  PROVE  TreesOK
<1>1. resolution = "none" /\ step = "idle"
  BY Zenon DEF Init, Build!Init
<1>. QED
  BY <1>1 DEF TreesOK, StageOK, MembersOK, Finding



-----------------------------------------------------------------------------
(* The numbers of the communities, by their first members.                 *)
Firsts(kind) ==
  {m \in graph.nodes : \A k \in graph.nodes : Build!Precedes(k, m) => ~Build!Connected(kind, m, k)}

FirstOf(kind, n) == CHOOSE m \in Firsts(kind) : Build!Connected(kind, n, m)

CommunityNumber(kind, n) ==
  Cardinality({m \in Firsts(kind) : ~Build!Precedes(FirstOf(kind, n), m)})

LEMMA NumbersAgree ==
  ASSUME graph.nodes \subseteq MemoryNodes, roots \in [Build!Positions -> Build!Positions], NEW kind,
         \A m, n \in graph.nodes :
           Build!Connected(kind, m, n) <=> roots[Build!Position(m)] = roots[Build!Position(n)],
         NEW n \in graph.nodes
  PROVE  Build!Number(Build!Position(n)) = CommunityNumber(kind, n)
<1>. DEFINE P == Build!Positions
            S == graph.nodes
            at(x) == Build!Position(x)
            least(j) == {k \in P : roots[k] = roots[j] /\ \A l \in P : roots[l] = roots[j] => k <= l}
<1>1. /\ P \subseteq Nat /\ \A x \in S : at(x) \in P
      /\ \A x, y \in S : Build!Precedes(x, y) <=> at(x) < at(y)
      /\ \A x, y \in S : at(x) = at(y) => x = y
      /\ \A i \in P : \E x \in S : at(x) = i
      /\ roots \in [P -> P]
  BY NodesPlaced, PositionTyped, PositionsNumbers
<1>2. \A x, y \in S : Build!Connected(kind, x, y) <=> roots[at(x)] = roots[at(y)]
  OBVIOUS
<1>3. IsFiniteSet(S)
  BY NodesValid, FS_Subset, Zenon
<1>4. Build!Number(at(n)) = Cardinality({k \in P : k <= (CHOOSE k0 \in least(at(n)) : TRUE) /\ k \in least(k)})
  BY SameCardinality, Zenon DEF Build!Number
<1>. HIDE DEF P, at
<1>5. \A x \in S : x \in Firsts(kind) <=> at(x) \in least(at(x))
  <2>. SUFFICES ASSUME NEW x \in S PROVE x \in Firsts(kind) <=> at(x) \in least(at(x))
    OBVIOUS
  <2>1. x \in Firsts(kind) <=> \A k \in S : at(k) < at(x) => roots[at(x)] # roots[at(k)]
    BY <1>1, <1>2 DEF Firsts, S
  <2>2. at(x) \in least(at(x)) <=> \A l \in P : roots[l] = roots[at(x)] => at(x) <= l
    BY <1>1
  <2>3. \A i, j \in P : ~(i < j) <=> j <= i
    BY <1>1
  <2>. HIDE DEF least
  <2>4. ASSUME \A k \in S : at(k) < at(x) => roots[at(x)] # roots[at(k)],
               NEW l \in P, roots[l] = roots[at(x)]
        PROVE  at(x) <= l
    <3>1. PICK k \in S : at(k) = l
      BY <1>1
    <3>2. ~(l < at(x)) /\ at(x) \in P
      BY <1>1, <2>4, <3>1
    <3>. QED
      BY <2>3, <3>2
  <2>5. ASSUME \A l \in P : roots[l] = roots[at(x)] => at(x) <= l,
               NEW k \in S, at(k) < at(x), roots[at(x)] = roots[at(k)]
        PROVE  FALSE
    <3>1. at(k) \in P /\ at(x) \in P
      BY <1>1
    <3>2. at(x) <= at(k)
      BY <2>5, <3>1
    <3>. QED
      BY <2>3, <2>5, <3>1, <3>2
  <2>. QED
    BY <2>1, <2>2, <2>4, <2>5
<1>6. PICK first \in P : least(at(n)) = {first}
  <2>. DEFINE D == {k \in P : roots[k] = roots[at(n)]}
  <2>1. PICK d \in D : \A k \in D : d <= k
    <3>1. D \in SUBSET Nat /\ at(n) \in D
      BY <1>1 DEF S
    <3>. HIDE DEF D
    <3>. QED
      BY <3>1, LeastOf
  <2>2. d \in least(at(n))
    BY <2>1
  <2>3. ASSUME NEW k \in least(at(n)) PROVE k = d
    BY <1>1, <2>1, <2>3
  <2>. QED
    BY <2>2, <2>3
<1>7. (CHOOSE k0 \in least(at(n)) : TRUE) = first
  BY <1>6
<1>8. PICK x \in S : at(x) = first
  BY <1>1
<1>9. first \in least(at(n))
  BY <1>6
<1>10. x \in Firsts(kind) /\ Build!Connected(kind, n, x)
  BY <1>1, <1>2, <1>5, <1>8, <1>9 DEF S
<1>11. ASSUME NEW y \in Firsts(kind), Build!Connected(kind, n, y) PROVE y = x
  <2>1. y \in S /\ n \in S
    BY DEF Firsts, S
  <2>2. at(y) \in least(at(y)) /\ roots[at(y)] = roots[at(n)]
    BY <1>2, <1>5, <1>11, <2>1
  <2>3. at(y) \in least(at(n))
    BY <2>2
  <2>. QED
    BY <1>1, <1>6, <1>8, <2>1, <2>3
<1>12. FirstOf(kind, n) = x
  BY <1>10, <1>11 DEF FirstOf
<1>. DEFINE A == {m \in Firsts(kind) : ~Build!Precedes(x, m)}
            B == {k \in P : k <= first /\ k \in least(k)}
<1>13. CommunityNumber(kind, n) = Cardinality(A)
  BY <1>12 DEF CommunityNumber
<1>14. Firsts(kind) \subseteq S
  BY DEF Firsts, S
<1>15. \A m \in S : m \in A <=> at(m) \in B
  <2>1. \A i, j \in P : ~(i < j) <=> j <= i
    BY <1>1
  <2>2. \A m \in S : ~Build!Precedes(x, m) <=> at(m) <= first
    BY <1>1, <1>8, <2>1
  <2>. HIDE DEF least
  <2>. QED
    BY <1>1, <1>5, <2>2
<1>16. A \subseteq S /\ B \subseteq P
  BY <1>14
<1>. HIDE DEF A, B, S
<1>17. Cardinality(A) = Cardinality(B)
  <2>1. IsFiniteSet(A)
    BY <1>3, <1>16, FS_Subset
  <2>2. [m \in A |-> at(m)] \in Bijection(A, B)
    BY <1>1, <1>15, <1>16 DEF Bijection, Injection, Surjection, IsInjective
  <2>. QED
    BY <2>1, <2>2, FS_Bijection DEF ExistsBijection
<1>. QED
  BY <1>4, <1>7, <1>13, <1>17, Zenon DEF B, at


(* Every relation is merged when the groups are numbered.                  *)
LEMMA NothingUnmerged ==
  ASSUME ForestOK, TreesOK, step = "number", NEW kind, resolution = kind
  PROVE  /\ roots \in [Build!Positions -> Build!Positions]
         /\ \A m, n \in graph.nodes :
              Build!Connected(kind, m, n) <=> roots[Build!Position(m)] = roots[Build!Position(n)]
<1>. DEFINE P == Build!Positions
            at(x) == Build!Position(x)
<1>1. resolution # "none" /\ DOMAIN roots = P /\ todo = {}
  BY DEF TreesOK
<1>2. roots \in [P -> P]
  BY <1>1 DEF ForestOK
<1>3. \A i \in P : RootAt(parents, P, i, roots[i])
  BY <1>1 DEF TreesOK, MembersOK
<1>4. Stage(kind, parents, {})
  <2>1. Unmerged(kind) = {}
    BY <1>1 DEF Unmerged, Build!InUnion
  <2>2. \A p : parents = p => Stage(kind, p, {})
    BY <1>1, <2>1 DEF TreesOK, StageOK
  <2>. QED
    BY <2>2
<1>5. ASSUME NEW m \in graph.nodes, NEW n \in graph.nodes
      PROVE  Build!Connected(kind, m, n) <=> roots[at(m)] = roots[at(n)]
  <2>1. Build!Connected(kind, m, n) <=> SameTree(parents, P, at(m), at(n))
    BY <1>1, <1>4, ComponentsAreTrees
  <2>2. at(m) \in P /\ at(n) \in P /\ parents \in [P -> P]
    BY <1>1, ForestGiven DEF Forest
  <2>. HIDE DEF P, at
  <2>3. SameTree(parents, P, at(m), at(n)) <=> roots[at(m)] = roots[at(n)]
    <3>1. ASSUME SameTree(parents, P, at(m), at(n)) PROVE roots[at(m)] = roots[at(n)]
      <4>1. PICK k \in P : RootAt(parents, P, at(m), k) /\ RootAt(parents, P, at(n), k)
        BY <3>1 DEF SameTree
      <4>2. RootAt(parents, P, at(m), roots[at(m)]) /\ RootAt(parents, P, at(n), roots[at(n)])
        BY <1>3, <2>2
      <4>3. roots[at(m)] = k /\ roots[at(n)] = k
        BY <2>2, <4>1, <4>2, RootUnique
      <4>. QED
        BY <4>3
    <3>2. ASSUME roots[at(m)] = roots[at(n)] PROVE SameTree(parents, P, at(m), at(n))
      BY <1>2, <1>3, <2>2, <3>2 DEF SameTree
    <3>. QED
      BY <3>1, <3>2
  <2>. QED
    BY <2>1, <2>3
<1>. QED
  BY <1>2, <1>5

NumberedOK ==
  /\ DOMAIN communities = {"fine", "coarse"}
  /\ \A kind \in {"fine", "coarse"} : \A n \in DOMAIN communities[kind] :
       n \in graph.nodes /\ communities[kind][n] = CommunityNumber(kind, n)

LEMMA NumbersKept ==
  ASSUME UNCHANGED graph
  PROVE  \A kind, n : CommunityNumber(kind, n)' = CommunityNumber(kind, n)
<1>1. \A kind, m, n : Build!Connected(kind, m, n)' <=> Build!Connected(kind, m, n)
  BY GraphFixed
<1>2. \A kind : Firsts(kind)' = Firsts(kind)
  BY <1>1, Zenon DEF Firsts, Build!Precedes
<1>3. ASSUME NEW kind, NEW n PROVE FirstOf(kind, n)' = FirstOf(kind, n)
  <2>1. \A m : Build!Connected(kind, n, m)' <=> Build!Connected(kind, n, m)
    BY <1>1
  <2>. QED
    BY <1>2, <2>1, Zenon DEF FirstOf
<1>4. ASSUME NEW kind, NEW n PROVE CommunityNumber(kind, n)' = CommunityNumber(kind, n)
  BY <1>2, <1>3, Zenon DEF CommunityNumber, Build!Precedes
<1>. QED
  BY <1>4


LEMMA NumberedStep ==
  ASSUME ForestOK, TreesOK, NumberedOK, [Next]_vars
  PROVE  NumberedOK'
<1>1. ASSUME UNCHANGED <<graph, communities>> PROVE NumberedOK'
  BY <1>1, NumbersKept DEF NumberedOK
<1>2. CASE BuildStarts
  <2>1. communities' = [fine |-> Build!NoCommunities, coarse |-> Build!NoCommunities]
    BY <1>2, Zenon DEF BuildStarts, Build!Build
  <2>2. DOMAIN communities' = {"fine", "coarse"}
    BY <2>1
  <2>3. \A kind \in {"fine", "coarse"} : DOMAIN communities'[kind] = {}
    BY <2>1 DEF Build!NoCommunities
  <2>. QED
    BY <2>2, <2>3 DEF NumberedOK
<1>3. CASE BuildContinues
  <2>1. CASE Build!NumberGroups
    <3>1. PICK built : resolution = built
      OBVIOUS
    <3>2. /\ step = "number" /\ graph' = graph
          /\ communities' = [communities EXCEPT ![built] =
                               [n \in graph.nodes |-> Build!Number(Build!Position(n))]]
      BY <2>1, <3>1, Zenon DEF Build!NumberGroups
    <3>3. graph.nodes \subseteq MemoryNodes
      BY DEF ForestOK
    <3>4. \A n \in graph.nodes : Build!Number(Build!Position(n)) = CommunityNumber(built, n)
      BY <3>1, <3>2, <3>3, NothingUnmerged, NumbersAgree
    <3>5. DOMAIN communities = {"fine", "coarse"}
      BY DEF NumberedOK
    <3>6. ASSUME NEW kind \in {"fine", "coarse"}, NEW n \in DOMAIN communities'[kind]
          PROVE  n \in graph.nodes /\ communities'[kind][n] = CommunityNumber(kind, n)
      <4>1. CASE kind = built
        <5>1. communities'[kind] = [m \in graph.nodes |-> Build!Number(Build!Position(m))]
          BY <3>2, <3>5, <4>1
        <5>. QED
          BY <3>4, <3>6, <4>1, <5>1
      <4>2. CASE kind # built
        <5>1. communities'[kind] = communities[kind]
          BY <3>2, <3>5, <4>2
        <5>. QED
          BY <3>6, <5>1 DEF NumberedOK
      <4>. QED
        BY <4>1, <4>2
    <3>7. DOMAIN communities' = {"fine", "coarse"}
      BY <3>2, <3>5
    <3>. QED
      BY <3>2, <3>6, <3>7, NumbersKept DEF NumberedOK
  <2>2. CASE ~Build!NumberGroups
    <3>1. UNCHANGED <<graph, communities>>
      BY <1>3, <2>2, Zenon DEF BuildContinues, Build!Step, Build!NextRelation, Build!GroupPositions,
         Build!ClimbToRoot, Build!Compress, Build!LeftFound, Build!RightFound, Build!MemberFound
    <3>. QED
      BY <1>1, <3>1
  <2>. QED
    BY <2>1, <2>2
<1>4. CASE BuildEnds
  BY <1>1, <1>4 DEF BuildEnds, build
<1>5. CASE ActivationStep /\ UNCHANGED <<build, package>>
  <2>1. UNCHANGED communities
    BY <1>5, Zenon DEF ActivationStep, SeedQuery, SeedRead, SearchFound, SeedsFound, RoutingIndex,
       NextPath, CycleClosed, NodeBudgetSpent, TargetVisited, TargetRevisited, FinishActivation, Considering
  <2>. QED
    BY <1>1, <1>5, <2>1, Zenon DEF build
<1>6. CASE ContextStep /\ UNCHANGED build
  <2>1. UNCHANGED communities
    BY <1>6, Assembles
  <2>. QED
    BY <1>1, <1>6, <2>1, Zenon DEF build
<1>7. CASE OtherConnection /\ UNCHANGED <<build, package>>
  BY <1>1, <1>7 DEF build, OtherConnection
<1>8. CASE UNCHANGED vars
  BY <1>1, <1>8 DEF vars, build, contextVars, activationVars
<1>. QED
  BY <1>2, <1>3, <1>4, <1>5, <1>6, <1>7, <1>8, Zenon DEF Next, CallStep

LEMMA NumberedInit ==
  ASSUME Init
  PROVE  NumberedOK
<1>1. communities = [fine |-> Build!NoCommunities, coarse |-> Build!NoCommunities]
  BY Zenon DEF Init, Build!Init
<1>. QED
  BY <1>1 DEF NumberedOK, Build!NoCommunities

(* The invariant of a build: the forest, its trees and the numbers.        *)
THEOREM BuildInvariant == Spec => [](TreesOK /\ NumberedOK)
<1>1. Init => TreesOK /\ NumberedOK
  BY TreesInit, NumberedInit
<1>2. RetrievalInv /\ TreesOK /\ NumberedOK /\ [Next]_vars => TreesOK' /\ NumberedOK'
  BY TreesStep, NumberedStep DEF RetrievalInv
<1>. QED
  BY <1>1, <1>2, RetrievalInvariant, PTL DEF Spec

(* Of every overlay that was built: two nodes have the same community_id   *)
(* exactly when joining relations connect them, and a community's number   *)
(* is its place by first members in content order, whatever the order of   *)
(* the relations and the IDs (community.rs:500-519).                       *)
THEOREM CommunitiesFound == Spec => []CommunitiesAreComponents
<1>1. NumberedOK => CommunitiesAreComponents
  BY SameCardinality, Zenon DEF NumberedOK, CommunitiesAreComponents, Build!CommunitiesAreComponents,
     CommunityNumber, FirstOf, Firsts
<1>. QED
  BY <1>1, BuildInvariant, PTL



-----------------------------------------------------------------------------
(* The refinement.  RootOf is the root, so that the communities of the     *)
(* forest are its trees.                                                   *)
Climbs(p, P, g) == g = [j \in P |-> IF p[j] = j THEN j ELSE g[p[j]]]

LEMMA ClimbExists ==
  ASSUME NEW P, NEW p, Forest(p, P)
  PROVE  \E g : Climbs(p, P, g)
<1>. DEFINE top(j) == CHOOSE k \in P : RootAt(p, P, j, k)
            g == [j \in P |-> top(j)]
<1>1. p \in [P -> P]
  BY DEF Forest
<1>2. \A j \in P : top(j) \in P /\ RootAt(p, P, j, top(j))
  BY RootFound, Zenon
<1>3. \A j, k \in P : RootAt(p, P, j, k) => top(j) = k
  <2>. HIDE DEF top
  <2>. QED
    BY <1>1, <1>2, RootUnique
<1>. HIDE DEF top
<1>4. ASSUME NEW j \in P PROVE top(j) = IF p[j] = j THEN j ELSE g[p[j]]
  <2>1. p[j] \in P
    BY <1>1
  <2>2. CASE p[j] = j
    BY <1>3, <2>2, RootOfItself
  <2>3. CASE p[j] # j
    <3>1. RootAt(p, P, j, top(p[j])) /\ top(p[j]) \in P
      BY <1>1, <1>2, <2>1, RootOfParent
    <3>. QED
      BY <1>3, <2>1, <2>3, <3>1
  <2>. QED
    BY <2>2, <2>3
<1>5. Climbs(p, P, g)
  BY <1>4 DEF Climbs
<1>. QED
  BY <1>5, Zenon

LEMMA ClimbFinds ==
  ASSUME NEW P, NEW p, Forest(p, P), NEW g, Climbs(p, P, g), NEW i \in P, NEW j
  PROVE  RootAt(p, P, i, j) <=> g[i] = j
<1>1. p \in [P -> P] /\ \A k \in P : g[k] = IF p[k] = k THEN k ELSE g[p[k]]
  <2>1. g = [k \in P |-> IF p[k] = k THEN k ELSE g[p[k]]]
    BY DEF Climbs
  <2>2. \A k \in P : g[k] = [m \in P |-> IF p[m] = m THEN m ELSE g[p[m]]][k]
    BY <2>1, Zenon
  <2>. QED
    BY <2>2 DEF Forest
<1>2. ASSUME NEW k, RootAt(p, P, i, k) PROVE g[i] = k
  <2>. DEFINE S == {m \in P : g[m] = g[i]}
  <2>1. S \in SUBSET P /\ i \in S /\ \A m \in S : p[m] \in S
    BY <1>1
  <2>2. k \in S
    <3>. HIDE DEF S
    <3>. QED
      BY <1>2, <2>1 DEF RootAt, Goes
  <2>3. g[k] = k
    BY <1>1, <1>2 DEF RootAt
  <2>. QED
    BY <2>2, <2>3
<1>3. PICK r \in P : RootAt(p, P, i, r)
  BY RootFound
<1>. QED
  BY <1>2, <1>3

LEMMA RootOfIsTheRoot ==
  ASSUME NEW i, NEW j, Forest(parents, Build!Positions), i \in Build!Positions
  PROVE  RootAt(parents, Build!Positions, i, j) <=> Build!RootOf(i) = j
<1>. DEFINE g == CHOOSE f : Climbs(parents, Build!Positions, f)
<1>1. Build!RootOf(i) = g[i]
  BY Zenon DEF Build!RootOf, Climbs
<1>2. Climbs(parents, Build!Positions, g)
  BY ClimbExists, Zenon
<1>. HIDE DEF g
<1>. QED
  BY <1>1, <1>2, ClimbFinds


(* What PartitionMerge sees of a build.                                    *)
TreesOf ==
  {{n \in graph.nodes : RootAt(parents, Build!Positions, Build!Position(n), i)} : i \in Build!Positions}
    \ {{}}

Joining == [kind \in {"fine", "coarse"} |-> Build!JoiningRelations(kind)]
Unjoined ==
  IF resolution = "none" THEN {}
  ELSE (todo \cap Build!JoiningRelations(resolution))
         \cup (IF Build!InUnion THEN {goal.relation} ELSE {})
Blocks == IF resolution = "none" THEN {} ELSE TreesOf
Grouped == [kind \in {"fine", "coarse"} |-> Build!Groups(communities[kind])]

Mapping ==
  ForestOK => (IF resolution = "none" THEN {} ELSE Build!Trees) = Blocks

LEMMA BlocksAre == Mapping
<1>. SUFFICES ASSUME ForestOK, resolution # "none" PROVE Build!Trees = TreesOf
  BY DEF Mapping, Blocks
<1>1. Forest(parents, Build!Positions) /\ \A n \in graph.nodes : Build!Position(n) \in Build!Positions
  BY ForestGiven
<1>2. \A n \in graph.nodes : \A i :
        RootAt(parents, Build!Positions, Build!Position(n), i) <=> Build!RootOf(Build!Position(n)) = i
  BY <1>1, RootOfIsTheRoot
<1>3. ASSUME NEW i
      PROVE  {n \in graph.nodes : Build!RootOf(Build!Position(n)) = i}
               = {n \in graph.nodes : RootAt(parents, Build!Positions, Build!Position(n), i)}
  BY <1>2
<1>. QED
  BY <1>3, Zenon DEF Build!Trees, TreesOf

LEMMA BlocksAreNext == Mapping'
BY BlocksAre, PTL

LEMMA StutterMaps ==
  ASSUME ForestOK, ForestOK', graph'.nodes = graph.nodes, Joining' = Joining, resolution' = resolution,
         Unjoined' = Unjoined, Blocks' = Blocks, Grouped' = Grouped
  PROVE  UNCHANGED Build!Partition!vars
<1>1. /\ (IF resolution = "none" THEN {} ELSE Build!Trees) = Blocks
      /\ (IF resolution' = "none" THEN {} ELSE Build!Trees') = Blocks'
  BY BlocksAre, BlocksAreNext DEF Mapping
<1>. QED
  BY <1>1, Zenon DEF Build!Partition!vars, Joining, Unjoined, Grouped

LEMMA MergeMaps ==
  ASSUME ForestOK, ForestOK', NEW r, NEW joined,
         graph'.nodes = graph.nodes, Joining' = Joining, resolution' = resolution,
         r \in Unjoined, Unjoined' = Unjoined \ {r},
         joined = (CHOOSE B \in Blocks : r.source \in B) \cup (CHOOSE B \in Blocks : r.target \in B),
         Blocks' = {B \in Blocks : B \cap joined = {}} \cup {joined}, Grouped' = Grouped
  PROVE  Build!Partition!Next
<1>1. /\ (IF resolution = "none" THEN {} ELSE Build!Trees) = Blocks
      /\ (IF resolution' = "none" THEN {} ELSE Build!Trees') = Blocks'
  BY BlocksAre, BlocksAreNext DEF Mapping
<1>2. Build!Partition!Merge(r)
  <2>1. joined = Build!Partition!Block(r.source) \cup Build!Partition!Block(r.target)
    BY <1>1, Zenon DEF Build!Partition!Block
  <2>2. (IF resolution' = "none" THEN {} ELSE Build!Trees')
          = {B \in IF resolution = "none" THEN {} ELSE Build!Trees : B \cap joined = {}} \cup {joined}
    BY <1>1, Zenon
  <2>. QED
    BY <2>1, <2>2, Zenon DEF Build!Partition!Merge, Joining, Unjoined, Grouped
<1>3. \E s \in Unjoined : Build!Partition!Merge(s)
  BY <1>2
<1>. QED
  BY <1>3, Zenon DEF Build!Partition!Next, Unjoined


LEMMA BeginMaps ==
  ASSUME ForestOK', resolution = "none", resolution' = "fine", Unjoined' = Joining'["fine"],
         Blocks' = {{n} : n \in graph'.nodes}, Grouped' = [fine |-> {}, coarse |-> {}]
  PROVE  Build!Partition!Next
<1>1. (IF resolution' = "none" THEN {} ELSE Build!Trees') = Blocks'
  BY BlocksAreNext DEF Mapping
<1>2. Build!Partition!Begin
  BY <1>1, Zenon DEF Build!Partition!Begin, Build!Partition!Apart, Joining, Unjoined, Grouped
<1>. QED
  BY <1>2, Zenon DEF Build!Partition!Next

LEMMA FinishMaps ==
  ASSUME ForestOK, ForestOK', resolution # "none", Unjoined = {},
         graph'.nodes = graph.nodes, Joining' = Joining,
         Grouped' = [Grouped EXCEPT ![resolution] = Blocks],
         IF resolution = "fine"
         THEN /\ resolution' = "coarse" /\ Unjoined' = Joining["coarse"]
              /\ Blocks' = {{n} : n \in graph.nodes}
         ELSE resolution' = "none" /\ Unjoined' = {} /\ Blocks' = {}
  PROVE  Build!Partition!Next
<1>1. /\ (IF resolution = "none" THEN {} ELSE Build!Trees) = Blocks
      /\ (IF resolution' = "none" THEN {} ELSE Build!Trees') = Blocks'
  BY BlocksAre, BlocksAreNext DEF Mapping
<1>2. Grouped' = [Grouped EXCEPT ![resolution] = IF resolution = "none" THEN {} ELSE Build!Trees]
  BY <1>1, Zenon
<1>3. CASE resolution = "fine"
  <2>1. (IF resolution' = "none" THEN {} ELSE Build!Trees') = {{n} : n \in graph.nodes}
    BY <1>1, <1>3, Zenon
  <2>2. Build!Partition!Finish
    BY <1>2, <1>3, <2>1, Zenon DEF Build!Partition!Finish, Build!Partition!Apart, Joining, Unjoined, Grouped
  <2>. QED
    BY <2>2, Zenon DEF Build!Partition!Next
<1>4. CASE resolution # "fine"
  <2>1. (IF resolution' = "none" THEN {} ELSE Build!Trees') = {}
    BY <1>1, <1>4, Zenon
  <2>2. Build!Partition!Finish
    BY <1>2, <1>4, <2>1, Zenon DEF Build!Partition!Finish, Build!Partition!Apart, Joining, Unjoined, Grouped
  <2>. QED
    BY <2>2, Zenon DEF Build!Partition!Next
<1>. QED
  BY <1>3, <1>4

LEMMA PartitionInit ==
  ASSUME Init
  PROVE  Build!Partition!Init
<1>1. /\ graph = Build!NoGraph /\ resolution = "none"
      /\ communities = [fine |-> Build!NoCommunities, coarse |-> Build!NoCommunities]
  BY Zenon DEF Init, Build!Init
<1>2. graph.nodes = {} /\ DOMAIN graph.weight = {}
  BY <1>1 DEF Build!NoGraph
<1>3. \A kind : Build!JoiningRelations(kind) = {}
  BY <1>2 DEF Build!JoiningRelations
<1>4. \A kind \in {"fine", "coarse"} : Build!Groups(communities[kind]) = {}
  BY <1>1 DEF Build!Groups, Build!NoCommunities
<1>5. [kind \in {"fine", "coarse"} |-> Build!JoiningRelations(kind)] = [fine |-> {}, coarse |-> {}]
  <2>1. [kind \in {"fine", "coarse"} |-> Build!JoiningRelations(kind)] = [kind \in {"fine", "coarse"} |-> {}]
    BY <1>3, Zenon
  <2>. QED
    BY <2>1
<1>6. [kind \in {"fine", "coarse"} |-> Build!Groups(communities[kind])] = [fine |-> {}, coarse |-> {}]
  <2>1. [kind \in {"fine", "coarse"} |-> Build!Groups(communities[kind])] = [kind \in {"fine", "coarse"} |-> {}]
    BY <1>4, Zenon
  <2>. QED
    BY <2>1
<1>. QED
  BY <1>1, <1>2, <1>5, <1>6, Zenon DEF Build!Partition!Init

UnjoinedIs == \A kind : kind # "none" /\ resolution = kind => Unjoined = Unmerged(kind)

LEMMA UnjoinedUnmerged == UnjoinedIs
BY Zenon DEF UnjoinedIs, Unjoined, Unmerged

LEMMA UnjoinedUnmergedNext == UnjoinedIs'
BY UnjoinedUnmerged, PTL


(* The trees, before and after.                                            *)
LEMMA SingleTrees ==
  ASSUME (graph.nodes \subseteq MemoryNodes)', parents' = [i \in Build!Positions' |-> i]
  PROVE  TreesOf' = {{n} : n \in graph'.nodes}
<1>. DEFINE P == Build!Positions'
            at(x) == Build!Position(x)'
            tree(i) == {n \in graph'.nodes : RootAt(parents', P, at(n), i)}
<1>1. /\ \A n \in graph'.nodes : at(n) \in P
      /\ \A m, n \in graph'.nodes : at(m) = at(n) => m = n
      /\ \A i \in P : \E n \in graph'.nodes : at(n) = i
  BY NodesApartNext DEF PlacesOK
<1>2. parents' = [i \in P |-> i]
  OBVIOUS
<1>3. TreesOf' = {tree(i) : i \in P} \ {{}}
  BY DEF TreesOf
<1>. HIDE DEF P, at
<1>4. ASSUME NEW i \in P, NEW j PROVE RootAt(parents', P, i, j) <=> i = j
  <2>1. parents' \in [P -> P] /\ parents'[i] = i
    BY <1>2
  <2>2. RootAt(parents', P, i, i)
    BY <2>1, RootOfItself
  <2>. QED
    BY <2>1, <2>2, RootUnique
<1>5. ASSUME NEW x \in graph'.nodes PROVE tree(at(x)) = {x}
  BY <1>1, <1>4
<1>. HIDE DEF tree
<1>. QED
  BY <1>1, <1>3, <1>5

LEMMA SameTrees ==
  ASSUME UNCHANGED graph, \A n \in graph.nodes : Build!Position(n) \in Build!Positions,
         \A i \in Build!Positions : \A j :
           RootAt(parents', Build!Positions, i, j) <=> RootAt(parents, Build!Positions, i, j)
  PROVE  TreesOf' = TreesOf
<1>1. Build!Positions' = Build!Positions /\ \A n : Build!Position(n)' = Build!Position(n)
  BY GraphKept
<1>. DEFINE P == Build!Positions
            before(i) == {n \in graph.nodes : RootAt(parents, P, Build!Position(n), i)}
            after(i) == {n \in graph'.nodes : RootAt(parents', P', Build!Position(n)', i)}
<1>2. \A i : after(i) = before(i)
  BY <1>1
<1>3. TreesOf = {before(i) : i \in P} \ {{}} /\ TreesOf' = {after(i) : i \in P'} \ {{}}
  BY DEF TreesOf
<1>4. P' = P
  BY <1>1
<1>. HIDE DEF before, after, P
<1>. QED
  BY <1>2, <1>3, <1>4

LEMMA CompressedTrees ==
  ASSUME ForestOK, resolution # "none", UNCHANGED graph,
         NEW c \in Build!Positions, NEW r, RootAt(parents, Build!Positions, c, r),
         parents' = [parents EXCEPT ![c] = r]
  PROVE  TreesOf' = TreesOf
<1>. DEFINE P == Build!Positions
<1>1. Forest(parents, P) /\ \A n \in graph.nodes : Build!Position(n) \in P
  BY ForestGiven
<1>2. parents \in [P -> P] /\ parents' \in [P -> P]
  BY <1>1 DEF Forest, RootAt
<1>3. \A i \in P : \A j : RootAt(parents', P, i, j) <=> RootAt(parents, P, i, j)
  <2>. HIDE DEF P
  <2>. SUFFICES ASSUME NEW i \in P, NEW j
                PROVE  RootAt(parents', P, i, j) <=> RootAt(parents, P, i, j)
    OBVIOUS
  <2>0. c \in P /\ RootAt(parents, P, c, r)
    BY DEF P
  <2>1. \A k : RootAt(parents, P, i, k) => RootAt(parents', P, i, k)
    BY <1>2, <2>0, CompressedRoots
  <2>2. PICK k \in P : RootAt(parents, P, i, k)
    BY <1>1, RootFound
  <2>. QED
    BY <1>2, <2>1, <2>2, RootUnique
<1>. QED
  BY <1>1, <1>3, SameTrees


LEMMA JoinedTrees ==
  ASSUME ForestOK, resolution # "none", UNCHANGED graph, NEW s \in graph.nodes, NEW t \in graph.nodes,
         NEW left, RootAt(parents, Build!Positions, Build!Position(s), left),
         NEW right, RootAt(parents, Build!Positions, Build!Position(t), right),
         parents' = Build!Merged(left, right), NEW joined,
         joined = (CHOOSE B \in TreesOf : s \in B) \cup (CHOOSE B \in TreesOf : t \in B)
  PROVE  TreesOf' = {B \in TreesOf : B \cap joined = {}} \cup {joined}
<1>. DEFINE P == Build!Positions
            at(x) == Build!Position(x)
            S == graph.nodes
            tree(i) == {n \in S : RootAt(parents, P, at(n), i)}
            after(i) == {n \in S : RootAt(parents', P, at(n), i)}
<1>1. Forest(parents, P) /\ \A n \in S : at(n) \in P
  BY ForestGiven
<1>2. P \in SUBSET Nat /\ parents \in [P -> P]
  BY <1>1 DEF Forest
<1>3. left \in P /\ right \in P /\ parents[left] = left /\ parents[right] = right
  BY DEF RootAt
<1>4. TreesOf = {tree(i) : i \in P} \ {{}}
  BY DEF TreesOf
<1>5. TreesOf' = {after(i) : i \in P} \ {{}}
  <2>. DEFINE next(i) == {n \in graph'.nodes : RootAt(parents', P', Build!Position(n)', i)}
  <2>1. P' = P /\ \A n : Build!Position(n)' = at(n)
    BY GraphKept
  <2>2. \A i : next(i) = after(i)
    BY <2>1
  <2>3. TreesOf' = {next(i) : i \in P'} \ {{}}
    BY DEF TreesOf
  <2>. HIDE DEF next, after, P
  <2>. QED
    BY <2>1, <2>2, <2>3
<1>6. s \in tree(left) /\ t \in tree(right)
  OBVIOUS
<1>7. PICK a \in {left, right}, b \in {left, right} :
        IF left = right THEN parents' = parents
        ELSE {a, b} = {left, right} /\ a # b /\ parents' = [parents EXCEPT ![b] = a]
  BY <1>2, <1>3, MergedInto
<1>. HIDE DEF P, at, S
<1>8. \A n \in S : \A i, j : n \in tree(i) /\ n \in tree(j) => i = j
  BY <1>1, <1>2, RootUnique
<1>9. \A i : tree(i) # {} => i \in P
  BY DEF RootAt
<1>10. \A n \in S : \E i \in P : n \in tree(i)
  BY <1>1, RootFound
<1>11. \A i : tree(i) \subseteq S /\ after(i) \subseteq S
  OBVIOUS
<1>12. joined = tree(left) \cup tree(right)
  <2>. HIDE DEF tree, after
  <2>1. \A n \in S : \A i \in P : n \in tree(i) => (CHOOSE B \in TreesOf : n \in B) = tree(i)
    <3>. SUFFICES ASSUME NEW n \in S, NEW i \in P, n \in tree(i)
                  PROVE  (CHOOSE B \in TreesOf : n \in B) = tree(i)
      OBVIOUS
    <3>1. tree(i) \in TreesOf
      BY <1>4
    <3>2. \A B \in TreesOf : n \in B => B = tree(i)
      BY <1>4, <1>8
    <3>. QED
      BY <3>1, <3>2
  <2>2. s \in S /\ t \in S
    BY DEF S
  <2>. QED
    BY <1>3, <1>6, <2>1, <2>2
<1>13. CASE left = right
  <2>1. \A i : after(i) = tree(i)
    BY <1>7, <1>13
  <2>. HIDE DEF tree, after
  <2>2. TreesOf' = TreesOf
    BY <1>4, <1>5, <2>1
  <2>3. joined = tree(left) /\ joined \in TreesOf
    BY <1>3, <1>4, <1>6, <1>12, <1>13
  <2>4. \A B \in TreesOf : B \cap joined = {} \/ B = joined
    BY <1>4, <1>8, <1>11, <2>3
  <2>. QED
    BY <2>2, <2>3, <2>4
<1>14. CASE left # right
  <2>1. {a, b} = {left, right} /\ a # b /\ parents' = [parents EXCEPT ![b] = a]
    BY <1>7, <1>14
  <2>2. a \in P /\ b \in P /\ parents[a] = a /\ parents[b] = b /\ parents' \in [P -> P]
    BY <1>2, <1>3, <2>1
  <2>3. ASSUME NEW n \in S, NEW i, n \in tree(i)
        PROVE  n \in after(IF i = b THEN a ELSE i)
    <3>1. at(n) \in P /\ RootAt(parents, P, at(n), i)
      BY <1>1, <2>3
    <3>2. RootAt(parents', P, at(n), IF i = b THEN a ELSE i)
      BY <1>2, <2>1, <2>2, <3>1, MergedRoots
    <3>. QED
      BY <3>2
  <2>4. \A n \in S : \A i, j : n \in after(i) /\ n \in after(j) => i = j
    BY <1>1, <2>2, RootUnique
  <2>. HIDE DEF tree, after
  <2>5. \A n \in S : \A i : n \in after(i) <=> \E j \in P : n \in tree(j) /\ i = (IF j = b THEN a ELSE j)
    BY <1>10, <2>3, <2>4
  <2>6. after(a) = joined
    BY <1>11, <1>12, <2>1, <2>2, <2>5
  <2>7. after(b) = {}
    BY <1>11, <2>1, <2>5
  <2>8. \A i \in P : i # a /\ i # b => after(i) = tree(i)
    BY <1>11, <2>5
  <2>9. \A i \in P : tree(i) # {} => (tree(i) \cap joined = {} <=> i # a /\ i # b)
    <3>1. joined = tree(a) \cup tree(b)
      BY <1>12, <2>1
    <3>. QED
      BY <1>8, <1>11, <3>1
  <2>10. joined # {}
    BY <1>6, <1>12
  <2>11. TreesOf' = {tree(i) : i \in {k \in P : k # a /\ k # b /\ tree(k) # {}}} \cup {joined}
    BY <1>5, <2>2, <2>6, <2>7, <2>8, <2>10
  <2>12. {B \in TreesOf : B \cap joined = {}} = {tree(i) : i \in {k \in P : k # a /\ k # b /\ tree(k) # {}}}
    BY <1>4, <2>9
  <2>. QED
    BY <2>11, <2>12
<1>. QED
  BY <1>13, <1>14


(* The groups have different numbers.                                      *)
LEMMA NumbersTellApart ==
  ASSUME graph.nodes \subseteq MemoryNodes, roots \in [Build!Positions -> Build!Positions],
         NEW i \in Build!Positions, NEW j \in Build!Positions
  PROVE  Build!Number(i) = Build!Number(j) <=> roots[i] = roots[j]
<1>. DEFINE P == Build!Positions
            least(h) == {k \in P : roots[k] = roots[h] /\ \A l \in P : roots[l] = roots[h] => k <= l}
            upto(f) == {k \in P : k <= f /\ k \in least(k)}
            number(h) == Cardinality(upto(CHOOSE k \in least(h) : TRUE))
<1>1. P \subseteq Nat /\ IsFiniteSet(P)
  <2>1. Cardinality(graph.nodes) \in Nat
    BY NodesValid, FS_Subset, FS_CardinalityType, Zenon
  <2>2. P = 1 .. Cardinality(graph.nodes)
    BY SameCardinality, Zenon DEF Build!Positions
  <2>3. IsFiniteSet(1 .. Cardinality(graph.nodes))
    BY <2>1, FS_Interval
  <2>. QED
    BY <2>2, <2>3, PositionsNumbers
<1>2. \A h : Build!Number(h) = number(h)
  BY SameCardinality, Zenon DEF Build!Number
<1>. HIDE DEF P
<1>3. ASSUME NEW h \in P PROVE \E f \in P : least(h) = {f}
  <2>. DEFINE D == {k \in P : roots[k] = roots[h]}
  <2>1. PICK d \in D : \A k \in D : d <= k
    <3>1. D \in SUBSET Nat /\ h \in D
      BY <1>1
    <3>. HIDE DEF D
    <3>. QED
      BY <3>1, LeastOf
  <2>2. d \in least(h)
    BY <2>1
  <2>3. ASSUME NEW k \in least(h) PROVE k = d
    BY <1>1, <2>1, <2>3
  <2>. QED
    BY <2>2, <2>3
<1>4. PICK f \in P : least(i) = {f}
  BY <1>3 DEF P
<1>5. PICK g \in P : least(j) = {g}
  BY <1>3 DEF P
<1>6. number(i) = Cardinality(upto(f)) /\ number(j) = Cardinality(upto(g))
  BY <1>4, <1>5
<1>7. ASSUME roots[i] = roots[j] PROVE f = g
  BY <1>4, <1>5, <1>7
<1>8. ASSUME f = g PROVE roots[i] = roots[j]
  <2>1. f \in least(i) /\ f \in least(j)
    BY <1>4, <1>5, <1>8
  <2>. QED
    BY <2>1
<1>9. f \in least(f) /\ g \in least(g)
  <2>1. f \in least(i) /\ g \in least(j)
    BY <1>4, <1>5
  <2>. QED
    BY <2>1
<1>10. ASSUME NEW x \in P, NEW y \in P, x < y, y \in least(y)
       PROVE  Cardinality(upto(x)) # Cardinality(upto(y))
  <2>. HIDE DEF least
  <2>1. upto(x) \subseteq upto(y) /\ y \in upto(y) /\ y \notin upto(x) /\ upto(y) \subseteq P
    <3>1. \A k \in P : k <= x => k <= y
      BY <1>1, <1>10
    <3>2. y <= y /\ ~(y <= x)
      BY <1>1, <1>10
    <3>. QED
      BY <1>10, <3>1, <3>2
  <2>. HIDE DEF upto
  <2>2. IsFiniteSet(upto(y))
    BY <1>1, <2>1, FS_Subset
  <2>. QED
    BY <2>1, <2>2, FS_Subset
<1>. HIDE DEF least, upto
<1>11. Cardinality(upto(f)) = Cardinality(upto(g)) <=> f = g
  <2>1. f < g \/ g < f \/ f = g
    BY <1>1
  <2>. QED
    BY <1>9, <1>10, <2>1
<1>. QED
  BY <1>2, <1>6, <1>7, <1>8, <1>11

LEMMA NumberedTrees ==
  ASSUME ForestOK, TreesOK, step = "number",
         NEW label, label = [n \in graph.nodes |-> Build!Number(Build!Position(n))]
  PROVE  Build!Groups(label) = TreesOf
<1>. DEFINE P == Build!Positions
            at(x) == Build!Position(x)
            S == graph.nodes
            tree(i) == {n \in S : RootAt(parents, P, at(n), i)}
            group(m) == {n \in S : label[n] = label[m]}
<1>1. resolution # "none" /\ graph.nodes \subseteq MemoryNodes
  BY DEF TreesOK, ForestOK
<1>2. parents \in [P -> P] /\ \A n \in S : at(n) \in P
  BY <1>1, ForestGiven DEF Forest
<1>3. roots \in [P -> P] /\ \A i \in P : RootAt(parents, P, i, roots[i])
  BY <1>1, NothingUnmerged DEF TreesOK, MembersOK
<1>4. \A i, j \in P : Build!Number(i) = Build!Number(j) <=> roots[i] = roots[j]
  BY <1>1, <1>3, NumbersTellApart
<1>5. TreesOf = {tree(i) : i \in P} \ {{}}
  BY DEF TreesOf
<1>6. Build!Groups(label) = {group(m) : m \in S}
  BY DEF Build!Groups
<1>. HIDE DEF P, at
<1>7. \A n \in S : \A i : n \in tree(i) <=> roots[at(n)] = i
  BY <1>2, <1>3, RootUnique
<1>8. \A m, n \in S : n \in group(m) <=> roots[at(n)] = roots[at(m)]
  BY <1>2, <1>4 DEF at
<1>9. \A m \in S : group(m) = tree(roots[at(m)]) /\ m \in group(m) /\ roots[at(m)] \in P
  <2>1. \A m \in S : roots[at(m)] \in P
    BY <1>2, <1>3
  <2>2. \A i : tree(i) \subseteq S /\ group(i) \subseteq S
    OBVIOUS
  <2>. HIDE DEF tree, group
  <2>3. ASSUME NEW m \in S PROVE group(m) = tree(roots[at(m)])
    BY <1>7, <1>8, <2>2
  <2>. QED
    BY <1>8, <2>1, <2>3
<1>10. \A i : tree(i) # {} => \E m \in S : i = roots[at(m)]
  BY <1>7
<1>. HIDE DEF tree, group, S
<1>. QED
  BY <1>5, <1>6, <1>9, <1>10


(* What the steps come to, action by action.                               *)
LEMMA AbstractKept ==
  ASSUME UNCHANGED graph
  PROVE  graph'.nodes = graph.nodes /\ Joining' = Joining
<1>1. \A kind : Build!JoiningRelations(kind)' = Build!JoiningRelations(kind)
  BY GraphFixed
<1>. QED
  BY <1>1, Zenon DEF Joining

LEMMA GroupedIs ==
  Grouped' = [kind \in {"fine", "coarse"} |-> Build!Groups(communities'[kind])]
BY Zenon DEF Grouped, Build!Groups

LEMMA GroupedKept ==
  ASSUME UNCHANGED communities
  PROVE  Grouped' = Grouped
<1>1. Grouped = [kind \in {"fine", "coarse"} |-> Build!Groups(communities[kind])]
  BY DEF Grouped
<1>2. Grouped' = [kind \in {"fine", "coarse"} |-> Build!Groups(communities'[kind])]
  BY GroupedIs
<1>. QED
  BY <1>1, <1>2, Zenon

LEMMA StutterStep ==
  ASSUME ForestOK, ForestOK', UNCHANGED <<graph, communities, resolution>>,
         \A kind : resolution = kind => Unmerged(kind)' = Unmerged(kind),
         resolution # "none" => TreesOf' = TreesOf
  PROVE  UNCHANGED Build!Partition!vars
<1>1. graph'.nodes = graph.nodes /\ Joining' = Joining
  BY AbstractKept
<1>2. Grouped' = Grouped
  BY GroupedKept
<1>3. Blocks' = Blocks
  BY Zenon DEF Blocks
<1>4. Unjoined' = Unjoined
  <2>1. PICK kind : resolution = kind
    OBVIOUS
  <2>2. CASE kind = "none"
    BY <2>1, <2>2 DEF Unjoined
  <2>3. CASE kind # "none"
    <3>1. Unjoined = Unmerged(kind) /\ Unjoined' = Unmerged(kind)'
      BY <2>1, <2>3, UnjoinedUnmerged, UnjoinedUnmergedNext DEF UnjoinedIs
    <3>. QED
      BY <2>1, <3>1
  <2>. QED
    BY <2>2, <2>3
<1>. QED
  BY <1>1, <1>2, <1>3, <1>4, StutterMaps

LEMMA MergeStep ==
  ASSUME ForestOK, ForestOK', TreesOK, Build!RightFound
  PROVE  Build!Partition!Next
<1>1. /\ step = "found" /\ goal.for = "right" /\ resolution # "none" /\ FindOK
      /\ step' = "relation" /\ parents' = Build!Merged(keptRoot, root)
      /\ UNCHANGED <<graph, resolution, todo, goal, root, keptRoot, roots, communities>>
  BY DEF Build!RightFound, TreesOK, Finding
<1>2. PICK r : goal.relation = r
  OBVIOUS
<1>3. PICK kind : resolution = kind
  OBVIOUS
<1>4. /\ RootAt(parents, Build!Positions, Build!Position(r.source), keptRoot)
      /\ RootAt(parents, Build!Positions, Build!Position(r.target), root)
      /\ r \notin todo
  BY <1>1, <1>2 DEF FindOK
<1>5. r.source \in graph.nodes /\ r.target \in graph.nodes
  <2>1. r \in DOMAIN graph.weight
    BY <1>1, <1>2 DEF ForestOK, Finding
  <2>. QED
    BY <2>1 DEF ForestOK
<1>6. r \in Unjoined /\ Unjoined' = Unjoined \ {r}
  <2>1. Unjoined = Unmerged(kind) /\ Unjoined' = Unmerged(kind)'
    BY <1>1, <1>3, UnjoinedUnmerged, UnjoinedUnmergedNext DEF UnjoinedIs
  <2>2. Unmerged(kind) = (todo \cap Build!JoiningRelations(kind)) \cup {r}
    BY <1>1, <1>2 DEF Unmerged, Build!InUnion
  <2>3. Unmerged(kind)' = todo \cap Build!JoiningRelations(kind)
    <3>1. Build!JoiningRelations(kind)' = Build!JoiningRelations(kind)
      BY <1>1, GraphFixed
    <3>2. ~Build!InUnion'
      BY <1>1 DEF Build!InUnion
    <3>. QED
      BY <1>1, <3>1, <3>2 DEF Unmerged
  <2>. QED
    BY <1>4, <2>1, <2>2, <2>3
<1>7. PICK joined :
        joined = (CHOOSE B \in TreesOf : r.source \in B) \cup (CHOOSE B \in TreesOf : r.target \in B)
  OBVIOUS
<1>8. TreesOf' = {B \in TreesOf : B \cap joined = {}} \cup {joined}
  <2>1. PICK s \in graph.nodes, t \in graph.nodes : s = r.source /\ t = r.target
    BY <1>5
  <2>2. PICK left, right : left = keptRoot /\ right = root
    OBVIOUS
  <2>3. /\ RootAt(parents, Build!Positions, Build!Position(s), left)
        /\ RootAt(parents, Build!Positions, Build!Position(t), right)
    BY <1>4, <2>1, <2>2
  <2>4. parents' = Build!Merged(left, right)
    BY <1>1, <2>2
  <2>5. joined = (CHOOSE B \in TreesOf : s \in B) \cup (CHOOSE B \in TreesOf : t \in B)
    BY <1>7, <2>1
  <2>6. UNCHANGED graph /\ resolution # "none"
    BY <1>1
  <2>. QED
    BY <2>3, <2>4, <2>5, <2>6, JoinedTrees, Zenon
<1>9. Blocks = TreesOf /\ Blocks' = TreesOf'
  BY <1>1 DEF Blocks
<1>10. graph'.nodes = graph.nodes /\ Joining' = Joining
  BY <1>1, AbstractKept
<1>11. Grouped' = Grouped
  BY <1>1, GroupedKept
<1>. QED
  BY <1>1, <1>6, <1>7, <1>8, <1>9, <1>10, <1>11, MergeMaps

LEMMA FinishStep ==
  ASSUME ForestOK, ForestOK', TreesOK, NumberedOK, Build!NumberGroups
  PROVE  Build!Partition!Next
<1>1. PICK built : resolution = built
  OBVIOUS
<1>2. /\ step = "number" /\ graph' = graph /\ built \in {"fine", "coarse"} /\ todo = {}
      /\ communities' = [communities EXCEPT ![built] =
                           [n \in graph.nodes |-> Build!Number(Build!Position(n))]]
  BY <1>1, Zenon DEF Build!NumberGroups, TreesOK, ForestOK
<1>3. Unjoined = {}
  BY <1>2 DEF Unjoined, Build!InUnion
<1>4. graph'.nodes = graph.nodes /\ Joining' = Joining
  BY <1>2, AbstractKept
<1>5. Grouped' = [Grouped EXCEPT ![resolution] = Blocks]
  <2>1. PICK label : label = [n \in graph.nodes |-> Build!Number(Build!Position(n))]
    OBVIOUS
  <2>2. Build!Groups(label) = Blocks
    BY <1>1, <1>2, <2>1, NumberedTrees DEF Blocks
  <2>3. /\ DOMAIN communities = {"fine", "coarse"}
        /\ communities' = [communities EXCEPT ![built] = label]
    BY <1>2, <2>1 DEF NumberedOK
  <2>4. Grouped' = [kind \in {"fine", "coarse"} |-> Build!Groups(communities'[kind])]
    BY GroupedIs
  <2>5. \A kind \in {"fine", "coarse"} :
          communities'[kind] = IF kind = built THEN label ELSE communities[kind]
    BY <2>3
  <2>6. \A kind \in {"fine", "coarse"} :
          Build!Groups(communities'[kind])
            = IF kind = built THEN Blocks ELSE Build!Groups(communities[kind])
    BY <2>2, <2>5
  <2>. QED
    BY <1>1, <1>2, <2>4, <2>6 DEF Grouped
<1>6. CASE built = "fine"
  <2>1. Build!Begin("coarse")
    BY <1>1, <1>6, Zenon DEF Build!NumberGroups
  <2>2. resolution' = "coarse" /\ step' = "relation" /\ todo' = DOMAIN graph.weight
    BY <1>2, <2>1 DEF Build!Begin
  <2>3. Blocks' = {{n} : n \in graph.nodes}
    <3>1. parents' = [i \in Build!Positions' |-> i]
      BY <2>1, Zenon DEF Build!Begin, Build!Positions
    <3>2. (graph.nodes \subseteq MemoryNodes)'
      BY DEF ForestOK
    <3>3. TreesOf' = {{n} : n \in graph'.nodes}
      BY <3>1, <3>2, SingleTrees
    <3>. QED
      BY <1>2, <2>2, <3>3 DEF Blocks
  <2>4. Unjoined' = Joining["coarse"]
    <3>1. Build!JoiningRelations("coarse")' = Build!JoiningRelations("coarse")
      BY <1>2, GraphFixed
    <3>2. Unmerged("coarse")' = DOMAIN graph.weight \cap Build!JoiningRelations("coarse")
      BY <2>2, <3>1 DEF Unmerged, Build!InUnion
    <3>3. Unjoined' = Unmerged("coarse")'
      BY <2>2, UnjoinedUnmergedNext DEF UnjoinedIs
    <3>4. Build!JoiningRelations("coarse") \subseteq DOMAIN graph.weight
      BY DEF Build!JoiningRelations
    <3>. QED
      BY <3>2, <3>3, <3>4 DEF Joining
  <2>. QED
    BY <1>1, <1>3, <1>4, <1>5, <1>6, <2>2, <2>3, <2>4, FinishMaps
<1>7. CASE built # "fine"
  <2>1. resolution' = "none"
    BY <1>1, <1>7, Zenon DEF Build!NumberGroups
  <2>2. Blocks' = {} /\ Unjoined' = {}
    BY <2>1 DEF Blocks, Unjoined
  <2>. QED
    BY <1>1, <1>2, <1>3, <1>4, <1>5, <1>7, <2>1, <2>2, FinishMaps
<1>. QED
  BY <1>6, <1>7


LEMMA BeginStep ==
  ASSUME StoreOK, ForestOK, ForestOK', TreesOK, BuildStarts
  PROVE  Build!Partition!Next
<1>1. /\ step = "idle" /\ graph' = [nodes |-> nodes, weight |-> weight] /\ Build!Begin("fine")
      /\ communities' = [fine |-> Build!NoCommunities, coarse |-> Build!NoCommunities]
  BY Zenon DEF BuildStarts, Build!Build
<1>2. resolution = "none" /\ resolution' = "fine" /\ step' = "relation" /\ todo' = DOMAIN graph'.weight
  BY <1>1 DEF TreesOK, Build!Begin
<1>3. Blocks' = {{n} : n \in graph'.nodes}
  <2>1. parents' = [i \in Build!Positions' |-> i]
    BY <1>1, Zenon DEF Build!Begin, Build!Positions
  <2>2. (graph.nodes \subseteq MemoryNodes)'
    BY DEF ForestOK
  <2>3. TreesOf' = {{n} : n \in graph'.nodes}
    BY <2>1, <2>2, SingleTrees
  <2>. QED
    BY <1>2, <2>3 DEF Blocks
<1>4. Unjoined' = Joining'["fine"]
  <2>1. Unmerged("fine")' = DOMAIN graph'.weight \cap Build!JoiningRelations("fine")'
    BY <1>2 DEF Unmerged, Build!InUnion
  <2>2. Unjoined' = Unmerged("fine")'
    BY <1>2, UnjoinedUnmergedNext DEF UnjoinedIs
  <2>3. Build!JoiningRelations("fine")' \subseteq DOMAIN graph'.weight
    BY DEF Build!JoiningRelations
  <2>4. Joining'["fine"] = Build!JoiningRelations("fine")'
    BY DEF Joining
  <2>. QED
    BY <2>1, <2>2, <2>3, <2>4
<1>5. Grouped' = [fine |-> {}, coarse |-> {}]
  <2>1. Grouped' = [kind \in {"fine", "coarse"} |-> Build!Groups(communities'[kind])]
    BY GroupedIs
  <2>2. \A kind \in {"fine", "coarse"} : Build!Groups(communities'[kind]) = {}
    BY <1>1 DEF Build!Groups, Build!NoCommunities
  <2>3. Grouped' = [kind \in {"fine", "coarse"} |-> {}]
    BY <2>1, <2>2, Zenon
  <2>. QED
    BY <2>3
<1>. QED
  BY <1>2, <1>3, <1>4, <1>5, BeginMaps

(* Climbing, compressing, going through the relations and grouping the     *)
(* members leave the communities as they are.                              *)
LEMMA LoopsStutter ==
  ASSUME ForestOK, ForestOK', TreesOK,
         \/ \E r \in todo : Build!NextRelation(r)
         \/ Build!GroupPositions \/ Build!ClimbToRoot \/ Build!LeftFound \/ Build!MemberFound
  PROVE  UNCHANGED Build!Partition!vars
<1>1. UNCHANGED <<graph, resolution, parents, communities>> /\ resolution # "none"
  BY Zenon DEF Build!NextRelation, Build!GroupPositions, Build!ClimbToRoot, Build!LeftFound,
     Build!MemberFound, TreesOK
<1>2. TreesOf' = TreesOf
  <2>1. \A n \in graph.nodes : Build!Position(n) \in Build!Positions
    BY <1>1, ForestGiven
  <2>. QED
    BY <1>1, <2>1, SameTrees
<1>3. ASSUME \A kind : resolution = kind => Unmerged(kind)' = Unmerged(kind)
      PROVE  UNCHANGED Build!Partition!vars
  BY <1>1, <1>2, <1>3, StutterStep
<1>4. ASSUME UNCHANGED todo, UNCHANGED Build!InUnion, Build!InUnion => UNCHANGED goal.relation
      PROVE  UNCHANGED Build!Partition!vars
  <2>1. \A kind : Unmerged(kind)' = Unmerged(kind)
    BY <1>1, <1>4, SameUnmerged
  <2>. QED
    BY <1>3, <2>1
<1>5. ASSUME NEW r \in todo, Build!NextRelation(r) PROVE UNCHANGED Build!Partition!vars
  <2>1. step = "relation" /\ todo' = todo \ {r}
    BY <1>5 DEF Build!NextRelation
  <2>2. \A kind : resolution = kind => (Build!Joins(r, resolution) <=> r \in Build!JoiningRelations(kind))
    BY DEF Build!JoiningRelations, ForestOK
  <2>3. \A kind : resolution = kind => Unmerged(kind)' = Unmerged(kind)
    <3>. SUFFICES ASSUME NEW kind, resolution = kind PROVE Unmerged(kind)' = Unmerged(kind)
      OBVIOUS
    <3>1. CASE Build!Joins(r, resolution)
      <4>1. Build!Find(Build!Position(r.source), "left", r)
        BY <1>5, <3>1, Zenon DEF Build!NextRelation
      <4>2. Build!InUnion' /\ ~Build!InUnion /\ goal'.relation = r
        BY <2>1, <4>1 DEF Build!Find, Build!InUnion
      <4>. QED
        BY <1>1, <2>1, <2>2, <3>1, <4>2, SameUnmerged
    <3>2. CASE ~Build!Joins(r, resolution)
      <4>1. step' = step /\ ~Build!InUnion /\ ~Build!InUnion'
        BY <1>5, <2>1, <3>2 DEF Build!NextRelation, Build!InUnion
      <4>. QED
        BY <1>1, <2>1, <2>2, <3>2, <4>1, SameUnmerged
    <3>. QED
      BY <3>1, <3>2
  <2>. QED
    BY <1>3, <2>3
<1>6. CASE Build!GroupPositions
  <2>1. step = "relation" /\ UNCHANGED todo
    BY <1>6 DEF Build!GroupPositions
  <2>2. step' = "number" \/ goal'.for = "member"
    BY <1>6 DEF Build!GroupPositions, Build!Find
  <2>. QED
    BY <1>4, <2>1, <2>2 DEF Build!InUnion
<1>7. CASE Build!ClimbToRoot
  BY <1>4, <1>7 DEF Build!ClimbToRoot, Build!InUnion
<1>8. CASE Build!LeftFound
  <2>1. step = "found" /\ goal.for = "left" /\ UNCHANGED todo
    BY <1>8 DEF Build!LeftFound
  <2>2. step' = "root" /\ goal'.for = "right" /\ goal'.relation = goal.relation
    BY <1>8 DEF Build!LeftFound, Build!Find
  <2>. QED
    BY <1>4, <2>1, <2>2 DEF Build!InUnion
<1>9. CASE Build!MemberFound
  <2>1. step = "found" /\ goal.for = "member" /\ UNCHANGED todo
    BY <1>9 DEF Build!MemberFound
  <2>2. step' = "number" \/ goal'.for = "member"
    BY <1>9 DEF Build!MemberFound, Build!Find
  <2>. QED
    BY <1>4, <2>1, <2>2 DEF Build!InUnion
<1>. QED
  BY <1>5, <1>6, <1>7, <1>8, <1>9


LEMMA CompressStutters ==
  ASSUME ForestOK, ForestOK', TreesOK, Build!Compress
  PROVE  UNCHANGED Build!Partition!vars
<1>1. /\ step = "compress" /\ step' \in {"compress", "found"} /\ resolution # "none" /\ FindOK
      /\ UNCHANGED <<graph, resolution, todo, goal, root, communities>>
  BY DEF Build!Compress, TreesOK, Finding
<1>2. \A kind : Unmerged(kind)' = Unmerged(kind)
  <2>1. Build!InUnion' = Build!InUnion
    BY <1>1 DEF Build!InUnion
  <2>. QED
    BY <1>1, <2>1, SameUnmerged
<1>3. TreesOf' = TreesOf
  <2>1. PICK c, r : c \in Build!Positions /\ c = climbing /\ r = root
    BY <1>1 DEF ForestOK, Finding
  <2>2. RootAt(parents, Build!Positions, c, r)
    BY <1>1, <2>1 DEF FindOK
  <2>3. UNCHANGED graph /\ resolution # "none"
    BY <1>1
  <2>4. CASE UNCHANGED parents
    <3>1. \A n \in graph.nodes : Build!Position(n) \in Build!Positions
      BY <1>1, ForestGiven
    <3>. QED
      BY <2>3, <2>4, <3>1, SameTrees
  <2>5. CASE parents' = [parents EXCEPT ![c] = r]
    BY <2>1, <2>2, <2>3, <2>5, CompressedTrees, Zenon
  <2>. QED
    BY <2>1, <2>4, <2>5 DEF Build!Compress
<1>. QED
  BY <1>1, <1>2, <1>3, StutterStep

LEMMA PartitionStep ==
  ASSUME StoreOK, ForestOK, ForestOK', TreesOK, NumberedOK, [Next]_vars
  PROVE  [Build!Partition!Next]_(Build!Partition!vars)
<1>1. ASSUME UNCHANGED build, UNCHANGED communities
      PROVE  UNCHANGED Build!Partition!vars
  <2>1. UNCHANGED <<graph, resolution, step, todo, parents, goal, communities>>
    BY <1>1 DEF build
  <2>2. \A kind : Unmerged(kind)' = Unmerged(kind)
    <3>1. Build!InUnion' = Build!InUnion
      BY <2>1 DEF Build!InUnion
    <3>. QED
      BY <2>1, <3>1, SameUnmerged
  <2>3. resolution # "none" => TreesOf' = TreesOf
    BY <2>1, ForestGiven, SameTrees
  <2>. QED
    BY <2>1, <2>2, <2>3, StutterStep
<1>2. CASE BuildStarts
  BY <1>2, BeginStep
<1>3. CASE BuildContinues
  BY <1>3, LoopsStutter, CompressStutters, MergeStep, FinishStep, Zenon DEF BuildContinues, Build!Step
<1>4. CASE BuildEnds
  BY <1>1, <1>4 DEF BuildEnds
<1>5. CASE ActivationStep /\ UNCHANGED <<build, package>>
  <2>1. UNCHANGED communities
    BY <1>5, Zenon DEF ActivationStep, SeedQuery, SeedRead, SearchFound, SeedsFound, RoutingIndex,
       NextPath, CycleClosed, NodeBudgetSpent, TargetVisited, TargetRevisited, FinishActivation, Considering
  <2>2. UNCHANGED build
    BY <1>5, Zenon
  <2>. QED
    BY <1>1, <2>1, <2>2
<1>6. CASE ContextStep /\ UNCHANGED build
  <2>1. UNCHANGED communities
    BY <1>6, Assembles
  <2>. QED
    BY <1>1, <1>6, <2>1
<1>7. CASE OtherConnection /\ UNCHANGED <<build, package>>
  <2>1. UNCHANGED communities /\ UNCHANGED build
    BY <1>7, Zenon DEF OtherConnection
  <2>. QED
    BY <1>1, <2>1
<1>8. CASE UNCHANGED vars
  <2>1. UNCHANGED communities /\ UNCHANGED build
    BY <1>8, Zenon DEF vars, contextVars, activationVars
  <2>. QED
    BY <1>1, <2>1
<1>. QED
  BY <1>2, <1>3, <1>4, <1>5, <1>6, <1>7, <1>8, Zenon DEF Next, CallStep

(* The union-find forest implements PartitionMerge: every joining relation *)
(* merges the communities of its ends once, whatever the order, climbing,  *)
(* compressing and grouping change no community, and the communities that  *)
(* are numbered are the merged ones (community.rs:485-509).                *)
THEOREM BuildMerges == Spec => MergesAsPromised
<1>1. Init => Build!Partition!Init
  BY PartitionInit
<1>2. RetrievalInv /\ RetrievalInv' /\ TreesOK /\ NumberedOK /\ [Next]_vars
        => [Build!Partition!Next]_(Build!Partition!vars)
  BY PartitionStep DEF RetrievalInv
<1>. QED
  BY <1>1, <1>2, RetrievalInvariant, BuildInvariant, PTL
     DEF Spec, MergesAsPromised, Build!MergesAsPromised, Build!Partition!Spec
=============================================================================
