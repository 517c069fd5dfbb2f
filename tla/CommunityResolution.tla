------------------------- MODULE CommunityResolution -------------------------
(***************************************************************************)
(* How build_communities of memory3d-core computes the communities of the  *)
(* graph it has read: build_resolution, once for the fine and once for the *)
(* coarse resolution, with its union-find forest over the nodes in content *)
(* order, loop iteration by loop iteration.                                *)
(*                                                                         *)
(* The relations come in any order: the code's own, by source, target and  *)
(* name, depends on node IDs, which must not show in the communities.      *)
(***************************************************************************)
EXTENDS Integers, FiniteSets

CONSTANTS
  Content,   \* by node, the rank of its kind and text
  Thresholds \* CommunityPolicy: the weight threshold of each resolution

VARIABLES
  graph,       \* the nodes and relation weights that were read
  resolution,  \* the resolution being built, "none" outside a build
  step,        \* where build_resolution stands
  todo,        \* the relations its loop has not come to
  parents,     \* the forest, over positions in content order
  goal,        \* what the find that runs is for
  root, current, \* its loop variables
  keptRoot,    \* left_root
  roots,       \* components: the root found for each position
  communities  \* by resolution, the community_id of each node

vars == <<graph, resolution, step, todo, parents, goal, root, current, keptRoot,
          roots, communities>>
forest == <<todo, parents, goal, root, current, keptRoot, roots>>

NoCommunities == [n \in {} |-> 0]
NoGraph == [nodes |-> {}, weight |-> [r \in {} |-> 0]]
NoRelation == [source |-> 0, target |-> 0, name |-> 0]
NoGoal == [for |-> "none", node |-> 0, relation |-> NoRelation]

Init ==
  /\ graph = NoGraph
  /\ resolution = "none"
  /\ step = "idle"
  /\ todo = {}
  /\ parents = <<>>
  /\ goal = NoGoal
  /\ root = 0 /\ current = 0 /\ keptRoot = 0
  /\ roots = <<>>
  /\ communities = [fine |-> NoCommunities, coarse |-> NoCommunities]

-----------------------------------------------------------------------------
(* The order of kind, text and ID, and the place of a node in it. *)
Precedes(m, n) == Content[m] < Content[n] \/ (Content[m] = Content[n] /\ m < n)

Position(n) == Cardinality({m \in graph.nodes : Precedes(m, n)}) + 1
Positions == 1 .. Cardinality(graph.nodes)

Joins(r, kind) ==
  /\ graph.weight[r] >= Thresholds[kind]
  /\ kind = "fine" =>
       \E q \in DOMAIN graph.weight :
         /\ graph.weight[q] >= Thresholds[kind]
         /\ q.source = r.target /\ q.target = r.source

-----------------------------------------------------------------------------
(* The start of build_resolution: every position is its own root. *)
Begin(kind) ==
  /\ resolution' = kind
  /\ step' = "relation"
  /\ todo' = DOMAIN graph'.weight
  /\ parents' = [i \in 1 .. Cardinality(graph'.nodes) |-> i]
  /\ goal' = NoGoal
  /\ root' = 0 /\ current' = 0 /\ keptRoot' = 0
  /\ roots' = <<>>

(* build_communities, with the lists of nodes and relations it has read. *)
Build(nodes, weight) ==
  /\ step = "idle"
  /\ graph' = [nodes |-> nodes, weight |-> weight]
  /\ communities' = [fine |-> NoCommunities, coarse |-> NoCommunities]
  /\ Begin("fine")

Find(node, for, relation) ==
  /\ goal' = [for |-> for, node |-> node, relation |-> relation]
  /\ root' = node
  /\ current' = node
  /\ step' = "root"

(* The loop over the relations: one that joins is handed to union, *)
NextRelation(r) ==
  /\ step = "relation"
  /\ todo' = todo \ {r}
  /\ IF Joins(r, resolution)
     THEN Find(Position(r.source), "left", r)
     ELSE UNCHANGED <<step, goal, root, current>>
  /\ UNCHANGED <<graph, resolution, parents, keptRoot, roots, communities>>

(* after it the loop over the positions. *)
GroupPositions ==
  /\ step = "relation"
  /\ todo = {}
  /\ IF Positions = {}
     THEN step' = "number" /\ UNCHANGED <<goal, root, current>>
     ELSE Find(1, "member", NoRelation)
  /\ UNCHANGED <<graph, resolution, todo, parents, keptRoot, roots, communities>>

(* find: up to the root, *)
ClimbToRoot ==
  /\ step = "root"
  /\ IF parents[root] # root
     THEN root' = parents[root] /\ UNCHANGED step
     ELSE step' = "compress" /\ UNCHANGED root
  /\ UNCHANGED <<graph, resolution, todo, parents, goal, current, keptRoot, roots, communities>>

(* and once more from the start, leaving the root behind as every parent. *)
Compress ==
  /\ step = "compress"
  /\ IF parents[current] # current
     THEN /\ parents' = [parents EXCEPT ![current] = root]
          /\ current' = parents[current]
          /\ UNCHANGED step
     ELSE step' = "found" /\ UNCHANGED <<parents, current>>
  /\ UNCHANGED <<graph, resolution, todo, goal, root, keptRoot, roots, communities>>

LeftFound ==
  /\ step = "found"
  /\ goal.for = "left"
  /\ keptRoot' = root
  /\ Find(Position(goal.relation.target), "right", goal.relation)
  /\ UNCHANGED <<graph, resolution, todo, parents, roots, communities>>

(* Mutant: the ends are merged, not their roots. *)
MergeEnds(left, right) == [parents EXCEPT ![goal.node] = left]

(* Mutant: the parents of the ends are set without a look at their roots.  *)
EndsWithoutRoots(left, right) ==
  [parents EXCEPT ![goal.node] = Position(goal.relation.source)]

(* union: the larger root goes under the smaller one. *)
Merged(left, right) ==
  IF left < right THEN [parents EXCEPT ![right] = left]
                  ELSE [parents EXCEPT ![left] = right]

RightFound ==
  /\ step = "found"
  /\ goal.for = "right"
  /\ parents' = Merged(keptRoot, root)
  /\ step' = "relation"
  /\ UNCHANGED <<graph, resolution, todo, goal, root, current, keptRoot, roots, communities>>

MemberFound ==
  /\ step = "found"
  /\ goal.for = "member"
  /\ roots' = [i \in DOMAIN roots \cup {goal.node} |->
                 IF i = goal.node THEN root ELSE roots[i]]
  /\ IF goal.node + 1 \in Positions
     THEN Find(goal.node + 1, "member", NoRelation)
     ELSE step' = "number" /\ UNCHANGED <<goal, root, current>>
  /\ UNCHANGED <<graph, resolution, todo, parents, keptRoot, communities>>

(* Mutant: a group has the number of its root.                             *)
NumberByRoot(i) == roots[i]

(* The groups, in the order of their least members, count from 1. *)
Number(i) ==
  LET least(j) == {k \in Positions : roots[k] = roots[j]
                     /\ \A l \in Positions : roots[l] = roots[j] => k <= l}
      first == CHOOSE k \in least(i) : TRUE
  IN Cardinality({k \in Positions : k <= first /\ k \in least(k)})

NumberGroups ==
  /\ step = "number"
  /\ communities' = [communities EXCEPT ![resolution] =
                       [n \in graph.nodes |-> Number(Position(n))]]
  /\ UNCHANGED graph
  /\ IF resolution = "fine"
     THEN Begin("coarse")
     ELSE step' = "idle" /\ resolution' = "none" /\ UNCHANGED forest

Step ==
  \/ \E r \in todo : NextRelation(r)
  \/ GroupPositions
  \/ ClimbToRoot \/ Compress
  \/ LeftFound \/ RightFound \/ MemberFound
  \/ NumberGroups
-----------------------------------------------------------------------------
TypeOK ==
  /\ step \in {"idle", "relation", "root", "compress", "found", "number"}
  /\ resolution \in {"none", "fine", "coarse"}
  /\ todo \subseteq DOMAIN graph.weight
  /\ resolution # "none" => parents \in [Positions -> Positions]
  /\ roots \in [DOMAIN roots -> Positions]

(* No parent comes after its child, in whatever order relations are merged  *)
(* and however far the compression has come: both loops of find end, at the *)
(* least position of the tree (community.rs:523-536).                       *)
ParentsDescend == \A i \in DOMAIN parents : parents[i] <= i

(* The communities of the forest.                                           *)
RootOf(i) ==
  LET up[j \in Positions] == IF parents[j] = j THEN j ELSE up[parents[j]] IN up[i]

Trees == {{n \in graph.nodes : RootOf(Position(n)) = i} : i \in Positions} \ {{}}

Groups(label) == {{n \in DOMAIN label : label[n] = label[m]} : m \in DOMAIN label}

JoiningRelations(kind) == {r \in DOMAIN graph.weight : Joins(r, kind)}

InUnion == goal.for \in {"left", "right"} /\ step \in {"root", "compress", "found"}

Partition == INSTANCE PartitionMerge WITH
  members <- graph.nodes,
  joining <- [kind \in {"fine", "coarse"} |-> JoiningRelations(kind)],
  pending <- IF resolution = "none" THEN {}
             ELSE (todo \cap JoiningRelations(resolution))
                    \cup (IF InUnion THEN {goal.relation} ELSE {}),
  blocks  <- IF resolution = "none" THEN {} ELSE Trees,
  result  <- [kind \in {"fine", "coarse"} |-> Groups(communities[kind])]

(* The forest merges the communities of each joining relation once and      *)
(* changes none otherwise: climbing, compressing a path and grouping the    *)
(* members leave every community as it is (community.rs:485-509).           *)
MergesAsPromised == Partition!Spec

(* Nodes share a community_id when joining relations connect them, and      *)
(* communities are numbered by their first member in content order: neither *)
(* IDs nor the order of the relations show (community.rs:500-519).          *)
Connected(kind, m, n) ==
  \A S \in SUBSET graph.nodes :
    m \in S /\ (\A r \in JoiningRelations(kind) : r.source \in S <=> r.target \in S) => n \in S

CommunitiesAreComponents ==
  \A kind \in {"fine", "coarse"} : \A n \in DOMAIN communities[kind] :
    LET firsts == {m \in graph.nodes :
                     \A k \in graph.nodes : Precedes(k, m) => ~Connected(kind, m, k)}
        first == CHOOSE m \in firsts : Connected(kind, n, m)
    IN communities[kind][n] = Cardinality({m \in firsts : ~Precedes(first, m)})
=============================================================================
