------------------------ MODULE CommunityOverlayProofs ------------------------
(***************************************************************************)
(* Proofs about CommunityOverlay for every set of connections, weights and *)
(* policies and every bound; freshness for a single connection.            *)
(***************************************************************************)
EXTENDS CommunityOverlay, FiniteSetTheorems, TLAPS

USE DEF BuildPhases, RoutePhases, Phases, Replies, Resolutions

(* The stored graph: node IDs are numbered, no relation dangles and applied *)
(* bundles share no node.                                                   *)
GraphOK ==
  /\ nodeSeq \in Nat
  /\ nodes \subseteq 1 .. nodeSeq
  /\ weight \in [DOMAIN weight -> Weights]
  /\ DOMAIN weight \subseteq Relation
  /\ IsFiniteSet(DOMAIN weight)
  /\ \A r \in DOMAIN weight : {r.source, r.target} \subseteq nodes
  /\ bundles \subseteq SUBSET nodes
  /\ \A b \in bundles : IsFiniteSet(b) /\ b # {}
  /\ \A a, b \in bundles : a # b => a \cap b = {}
  /\ revision \in Nat

(* The stored overlay. *)
RowsOK ==
  /\ build \subseteq [revision : Nat, policy : Policies]
  /\ memberships = [resolution \in Resolutions |-> memberships[resolution]]
  /\ \A resolution \in Resolutions :
       memberships[resolution] \in [DOMAIN memberships[resolution] -> SUBSET Nat]
  /\ MembershipsWhole
  /\ FineRefinesCoarse

IsWork(w) == w = [policy |-> w.policy, bundle |-> w.bundle, nodes |-> w.nodes,
                  weight |-> w.weight, revision |-> w.revision]

(* What the calls under way have read. *)
CallsOK ==
  /\ phase \in [Connections -> Phases]
  /\ work = [c \in Connections |-> work[c]]
  /\ reply \in Replies
  /\ \A c \in Connections :
       /\ IsWork(work[c])
       /\ phase[c] \in BuildPhases \cup RoutePhases => work[c].policy \in Policies
       /\ phase[c] \in BuildPhases => work[c].nodes \subseteq Nat
       /\ phase[c] \in {"build_revision", "build_write"} =>
            work[c].weight \in [DOMAIN work[c].weight -> Weights]
       /\ phase[c] = "build_write" => work[c].revision \in Nat

(* The inductive invariant of any number of connections. *)
OverlayInv == GraphOK /\ RowsOK /\ CallsOK

-----------------------------------------------------------------------------
LEMMA PolicyFacts ==
  ASSUME NEW p \in Policies
  PROVE  p.fine \in Nat /\ p.coarse \in Nat /\ p.coarse <= p.fine
BY PoliciesValid DEF Policy

(* A node is in its own component. *)
LEMMA OwnComponent ==
  ASSUME NEW N, NEW joining, NEW n \in N PROVE n \in Component(N, joining, n)
BY DEF Component

(* Whatever was read, the communities it gives cover the nodes read, with   *)
(* the fine ones inside the coarse ones.                                    *)
LEMMA CommunitiesNest ==
  ASSUME NEW N, NEW w, w \in [DOMAIN w -> Weights], NEW p \in Policies,
         NEW m \in N, NEW n \in N,
         Communities(N, w, p)["fine"][m] = Communities(N, w, p)["fine"][n]
  PROVE  Communities(N, w, p)["coarse"][m] = Communities(N, w, p)["coarse"][n]
<1>. DEFINE F == Joining(w, p, "fine")
            C == Joining(w, p, "coarse")
            Closed(S, joining) == \A r \in joining : r.source \in S <=> r.target \in S
<1>1. F \subseteq C
  <2>1. \A r \in DOMAIN w : w[r] \in Nat
    BY PoliciesValid
  <2>2. \A r \in DOMAIN w : w[r] >= p.fine => w[r] >= p.coarse
    BY <2>1, PolicyFacts
  <2>. QED
    BY <2>2 DEF Joining, Heavy, Threshold
<1>2. Component(N, F, m) = Component(N, F, n)
  BY DEF Communities
<1>3. m \in Component(N, F, n) /\ n \in Component(N, F, m)
  BY <1>2, OwnComponent
<1>4. \A S \in SUBSET N : Closed(S, C) => Closed(S, F)
  BY <1>1
<1>5. \A S \in SUBSET N : Closed(S, C) => (m \in S <=> n \in S)
  BY <1>3, <1>4 DEF Component
<1>6. Component(N, C, m) = Component(N, C, n)
  BY <1>5 DEF Component
<1>. QED
  BY <1>6 DEF Communities

LEMMA CommunitiesShape ==
  ASSUME NEW N \in SUBSET Nat, NEW w, NEW p
  PROVE  /\ Communities(N, w, p) =
              [resolution \in Resolutions |-> Communities(N, w, p)[resolution]]
         /\ \A resolution \in Resolutions :
              Communities(N, w, p)[resolution] \in [N -> SUBSET Nat]
BY DEF Communities, Component

-----------------------------------------------------------------------------
(* Control. *)

LEMMA EnterCalls ==
  ASSUME CallsOK, NEW c \in Connections, NEW p \in Phases, NEW w, Enter(c, p, w),
         IsWork(w),
         p \in BuildPhases \cup RoutePhases => w.policy \in Policies,
         p \in BuildPhases => w.nodes \subseteq Nat,
         p \in {"build_revision", "build_write"} => w.weight \in [DOMAIN w.weight -> Weights],
         p = "build_write" => w.revision \in Nat
  PROVE  CallsOK'
<1>1. /\ phase' \in [Connections -> Phases] /\ phase'[c] = p
      /\ \A d \in Connections \ {c} : phase'[d] = phase[d]
  BY DEF CallsOK, Enter
<1>2. /\ work' = [d \in Connections |-> work'[d]] /\ work'[c] = w
      /\ \A d \in Connections \ {c} : work'[d] = work[d]
  BY DEF CallsOK, Enter
<1>3. reply' \in Replies
  BY DEF Enter
<1>4. ASSUME NEW d \in Connections
      PROVE  /\ IsWork(work'[d])
             /\ phase'[d] \in BuildPhases \cup RoutePhases => work'[d].policy \in Policies
             /\ phase'[d] \in BuildPhases => work'[d].nodes \subseteq Nat
             /\ phase'[d] \in {"build_revision", "build_write"} =>
                  work'[d].weight \in [DOMAIN work'[d].weight -> Weights]
             /\ phase'[d] = "build_write" => work'[d].revision \in Nat
  <2>1. CASE d = c
    BY <1>1, <1>2, <2>1
  <2>2. CASE d # c
    BY <1>1, <1>2, <2>2 DEF CallsOK
  <2>. QED
    BY <2>1, <2>2
<1>. QED
  BY <1>1, <1>2, <1>3, <1>4 DEF CallsOK

LEMMA ReturnCalls ==
  ASSUME CallsOK, NEW c \in Connections, NEW answer \in Replies, Return(c, answer)
  PROVE  CallsOK'
<1>1. /\ phase' \in [Connections -> Phases] /\ phase'[c] = "idle"
      /\ \A d \in Connections \ {c} : phase'[d] = phase[d]
  BY DEF CallsOK, Return
<1>2. /\ work' = [d \in Connections |-> work'[d]] /\ work'[c] = NoWork
      /\ \A d \in Connections \ {c} : work'[d] = work[d]
  BY DEF CallsOK, Return
<1>3. reply' \in Replies
  BY DEF Return
<1>4. ASSUME NEW d \in Connections
      PROVE  /\ IsWork(work'[d])
             /\ phase'[d] \in BuildPhases \cup RoutePhases => work'[d].policy \in Policies
             /\ phase'[d] \in BuildPhases => work'[d].nodes \subseteq Nat
             /\ phase'[d] \in {"build_revision", "build_write"} =>
                  work'[d].weight \in [DOMAIN work'[d].weight -> Weights]
             /\ phase'[d] = "build_write" => work'[d].revision \in Nat
  <2>1. CASE d = c
    BY <1>1, <1>2, <2>1 DEF IsWork, NoWork, Work
  <2>2. CASE d # c
    BY <1>1, <1>2, <2>2 DEF CallsOK
  <2>. QED
    BY <2>1, <2>2
<1>. QED
  BY <1>1, <1>2, <1>3, <1>4 DEF CallsOK

LEMMA UnchangedTables ==
  ASSUME GraphOK, RowsOK, UNCHANGED <<graph, overlay>>
  PROVE  GraphOK' /\ RowsOK'
BY DEF GraphOK, RowsOK, MembershipsWhole, FineRefinesCoarse, graph, overlay

LEMMA RefuseInv ==
  ASSUME OverlayInv, NEW c \in Connections, NEW answer \in Replies, Refuse(c, answer)
  PROVE  OverlayInv'
BY ReturnCalls, UnchangedTables DEF OverlayInv, Refuse

(* New nodes leave the overlay's rows as they are. *)
LEMMA SameRows ==
  ASSUME RowsOK, UNCHANGED overlay, nodes \subseteq nodes'
  PROVE  RowsOK'
BY DEF RowsOK, MembershipsWhole, FineRefinesCoarse, overlay

-----------------------------------------------------------------------------
(* Writers of the graph. *)

LEMMA FiniteUnion ==
  ASSUME NEW S, NEW T, IsFiniteSet(S), IsFiniteSet(T) PROVE IsFiniteSet(S \cup T)
BY FS_Union, Zenon

LEMMA InsertedWeights ==
  ASSUME GraphOK, NEW new, new \in [DOMAIN new -> Weights], DOMAIN new \subseteq Relation,
         IsFiniteSet(DOMAIN new), InsertRelations(new)
  PROVE  /\ weight' \in [DOMAIN weight' -> Weights]
         /\ DOMAIN weight' = DOMAIN weight \cup DOMAIN new
         /\ DOMAIN weight' \subseteq Relation
         /\ IsFiniteSet(DOMAIN weight')
<1>1. DOMAIN weight' = DOMAIN weight \cup DOMAIN new
  BY DEF InsertRelations
<1>2. \A r \in DOMAIN weight' : weight'[r] \in Weights
  BY <1>1 DEF InsertRelations, GraphOK
<1>3. IsFiniteSet(DOMAIN weight')
  <2>1. IsFiniteSet(DOMAIN weight)
    BY DEF GraphOK
  <2>. QED
    BY <1>1, <2>1, FiniteUnion
<1>4. weight' = [r \in DOMAIN weight' |-> weight'[r]]
  BY <1>1 DEF InsertRelations
<1>5. weight' \in [DOMAIN weight' -> Weights]
  BY <1>2, <1>4
<1>. QED
  BY <1>1, <1>3, <1>5 DEF GraphOK

LEMMA AddNodesInv ==
  ASSUME OverlayInv, NEW c \in Connections, NEW n \in 1 .. MaxNodes, AddNodes(c, n)
  PROVE  OverlayInv'
<1>. n \in Nat /\ nodeSeq \in Nat /\ revision \in Nat
  BY BoundsAreNat DEF OverlayInv, GraphOK
<1>1. nodes \subseteq nodes' /\ nodeSeq' \in Nat /\ nodeSeq <= nodeSeq' /\ revision' \in Nat
  BY DEF AddNodes, Revised
<1>2. nodes' \subseteq 1 .. nodeSeq'
  <2>1. \A m \in nodes : m \in 1 .. nodeSeq
    BY DEF OverlayInv, GraphOK
  <2>2. \A m \in nodes' : m \in nodes \/ m \in nodeSeq + 1 .. nodeSeq + n
    BY DEF AddNodes
  <2>3. nodeSeq' = nodeSeq + n
    BY DEF AddNodes
  <2>. QED
    BY <2>1, <2>2, <2>3
<1>3. GraphOK'
  BY <1>1, <1>2 DEF OverlayInv, GraphOK, AddNodes
<1>4. RowsOK'
  BY <1>1, SameRows DEF OverlayInv, AddNodes
<1>5. CallsOK'
  BY ReturnCalls DEF OverlayInv, AddNodes
<1>. QED
  BY <1>3, <1>4, <1>5 DEF OverlayInv

LEMMA BatchFacts ==
  ASSUME GraphOK, NEW q \in OrdinaryRelation, NEW r \in OrdinaryRelation,
         NEW new \in [{q, r} -> Weights]
  PROVE  /\ new \in [DOMAIN new -> Weights]
         /\ DOMAIN new \subseteq Relation
         /\ IsFiniteSet(DOMAIN new)
         /\ Cardinality(DOMAIN new) \in Nat \ {0}
<1>1. DOMAIN new = {q, r} /\ {q, r} = {q} \cup {r}
  OBVIOUS
<1>2. OrdinaryRelation \subseteq Relation
  BY DEF OrdinaryRelation, Relation, GraphOK
<1>3. IsFiniteSet({q}) /\ IsFiniteSet({r})
  BY FS_Singleton
<1>4. IsFiniteSet(DOMAIN new)
  BY <1>1, <1>3, FiniteUnion
<1>5. Cardinality(DOMAIN new) \in Nat \ {0}
  BY <1>1, <1>4, FS_CardinalityType, FS_EmptySet
<1>. QED
  BY <1>1, <1>2, <1>4, <1>5

LEMMA AddRelationsInv ==
  ASSUME OverlayInv, NEW c \in Connections,
         NEW q \in OrdinaryRelation, NEW s \in OrdinaryRelation,
         NEW new \in [{q, s} -> Weights], AddRelations(c, new)
  PROVE  OverlayInv'
<1>1. CASE Refuse(c, "NodeNotFound") \/ Refuse(c, "Database")
  BY <1>1, RefuseInv
<1>2. CASE /\ ~EndpointMissing(DOMAIN new)
           /\ InsertRelations(new)
           /\ Revised(Cardinality(DOMAIN new))
           /\ UNCHANGED <<nodes, nodeSeq, bundles, overlay>>
           /\ Return(c, "Stored")
  <2>0. GraphOK /\ RowsOK /\ CallsOK
    BY DEF OverlayInv
  <2>1. /\ weight' \in [DOMAIN weight' -> Weights]
        /\ DOMAIN weight' = DOMAIN weight \cup DOMAIN new
        /\ DOMAIN weight' \subseteq Relation
        /\ IsFiniteSet(DOMAIN weight')
    BY <1>2, <2>0, BatchFacts, InsertedWeights
  <2>2. \A r \in DOMAIN weight' : {r.source, r.target} \subseteq nodes'
    BY <1>2, <2>0, <2>1 DEF EndpointMissing, GraphOK
  <2>3. revision' \in Nat
    BY <1>2, <2>0, BatchFacts DEF Revised, GraphOK
  <2>4. GraphOK'
    BY <1>2, <2>0, <2>1, <2>2, <2>3 DEF GraphOK
  <2>5. RowsOK'
    BY <1>2, <2>0, SameRows
  <2>6. CallsOK'
    BY <1>2, <2>0, ReturnCalls
  <2>. QED
    BY <2>4, <2>5, <2>6 DEF OverlayInv
<1>. QED
  BY <1>1, <1>2 DEF AddRelations

LEMMA OneColumn == Cardinality({"weight"} \cap RevisedColumns) = 1
<1>1. {"weight"} \cap RevisedColumns = {"weight"}
  BY DEF RevisedColumns
<1>. QED
  BY <1>1, FS_Singleton

LEMMA UpdateRelationWeightInv ==
  ASSUME OverlayInv, NEW c \in Connections, NEW r, NEW w \in Weights,
         UpdateRelationWeight(c, r, w)
  PROVE  OverlayInv'
<1>1. CASE Refuse(c, "RelationNotFound")
  BY <1>1, RefuseInv
<1>2. CASE /\ r \in DOMAIN weight
           /\ weight' = [weight EXCEPT ![r] = w]
           /\ Revised(Cardinality({"weight"} \cap RevisedColumns))
           /\ UNCHANGED <<nodes, nodeSeq, bundles, overlay>>
           /\ Return(c, "Updated")
  <2>1. GraphOK'
    BY <1>2, OneColumn DEF OverlayInv, GraphOK, Revised
  <2>2. RowsOK'
    BY <1>2, SameRows DEF OverlayInv
  <2>3. CallsOK'
    BY <1>2, ReturnCalls DEF OverlayInv
  <2>. QED
    BY <2>1, <2>2, <2>3 DEF OverlayInv
<1>. QED
  BY <1>1, <1>2 DEF UpdateRelationWeight

LEMMA UpdateNodeCoordinatesInv ==
  ASSUME OverlayInv, NEW c \in Connections, NEW n, UpdateNodeCoordinates(c, n)
  PROVE  OverlayInv'
<1>1. CASE Refuse(c, "NodeNotFound")
  BY <1>1, RefuseInv
<1>2. CASE /\ Revised(1)
           /\ UNCHANGED <<nodes, nodeSeq, weight, bundles, overlay>>
           /\ Return(c, "Updated")
  <2>1. GraphOK'
    BY <1>2 DEF OverlayInv, GraphOK, Revised
  <2>2. RowsOK'
    BY <1>2, SameRows DEF OverlayInv
  <2>3. CallsOK'
    BY <1>2, ReturnCalls DEF OverlayInv
  <2>. QED
    BY <2>1, <2>2, <2>3 DEF OverlayInv
<1>. QED
  BY <1>1, <1>2 DEF UpdateNodeCoordinates

(* What an applied bundle adds: fresh nodes and at most one relation.       *)
LEMMA BundleAdds ==
  ASSUME OverlayInv, NEW c \in Connections, NEW size \in 1 .. 2, ApplyBundle(c, size)
  PROVE  \E new, derived :
           /\ new = nodeSeq + 1 .. nodeSeq + size
           /\ IsFiniteSet(new) /\ new # {} /\ new \cap nodes = {}
           /\ nodes' = nodes \cup new /\ nodes' \subseteq 1 .. nodeSeq' /\ nodeSeq' \in Nat
           /\ bundles' = bundles \cup {new}
           /\ derived \subseteq Relation /\ IsFiniteSet(derived)
           /\ \A r \in derived : {r.source, r.target} \subseteq new
           /\ InsertRelations([r \in derived |-> FullWeight])
           /\ Revised(size + Cardinality(derived))
           /\ Cardinality(derived) \in Nat
<1>. DEFINE new == nodeSeq + 1 .. nodeSeq + size
            first == [source |-> nodeSeq + 2, target |-> nodeSeq + 1, name |-> Projected]
            derived == IF size = 1 THEN {} ELSE {first}
<1>0. nodeSeq \in Nat /\ size \in Nat /\ size >= 1 /\ nodeSeq' = nodeSeq + size
  BY DEF OverlayInv, GraphOK, ApplyBundle
<1>1. IsFiniteSet(new)
  BY <1>0, FS_Interval
<1>2. nodeSeq + 1 \in new
  BY <1>0
<1>3. \A m \in nodes : m \in 1 .. nodeSeq
  BY DEF OverlayInv, GraphOK
<1>4. new \cap nodes = {} /\ \A m \in nodes \cup new : m \in 1 .. nodeSeq'
  BY <1>0, <1>3
<1>5. first \in Relation
  BY <1>0 DEF Relation
<1>6. derived \subseteq Relation /\ IsFiniteSet(derived) /\ Cardinality(derived) \in Nat
  <2>1. CASE derived = {}
    BY <2>1, FS_EmptySet
  <2>2. CASE derived = {first}
    BY <1>5, <2>2, FS_Singleton
  <2>. QED
    BY <2>1, <2>2
<1>7. \A r \in derived : {r.source, r.target} \subseteq new
  BY <1>0
<1>8. /\ nodes' = nodes \cup new
      /\ bundles' = bundles \cup {new}
      /\ InsertRelations([r \in derived |-> FullWeight])
      /\ Revised(size + Cardinality(derived))
  BY DEF ApplyBundle
<1>. HIDE DEF new, derived, first
<1>9. new # {} /\ nodes' \subseteq 1 .. nodeSeq' /\ nodeSeq' \in Nat
  BY <1>0, <1>2, <1>4, <1>8
<1>10. new = nodeSeq + 1 .. nodeSeq + size
  BY DEF new
<1>. QED
  BY <1>1, <1>4, <1>6, <1>7, <1>8, <1>9, <1>10

LEMMA ApplyBundleInv ==
  ASSUME OverlayInv, NEW c \in Connections, NEW size \in 1 .. 2, ApplyBundle(c, size)
  PROVE  OverlayInv'
<1>0. GraphOK /\ RowsOK /\ CallsOK
  BY DEF OverlayInv
<1>1. PICK new, derived :
           /\ IsFiniteSet(new) /\ new # {} /\ new \cap nodes = {}
           /\ nodes' = nodes \cup new /\ nodes' \subseteq 1 .. nodeSeq' /\ nodeSeq' \in Nat
           /\ bundles' = bundles \cup {new}
           /\ derived \subseteq Relation /\ IsFiniteSet(derived)
           /\ \A r \in derived : {r.source, r.target} \subseteq new
           /\ InsertRelations([r \in derived |-> FullWeight])
           /\ Revised(size + Cardinality(derived))
           /\ Cardinality(derived) \in Nat
  BY BundleAdds
<1>. DEFINE added == [r \in derived |-> FullWeight]
<1>2. DOMAIN added = derived /\ added \in [DOMAIN added -> Weights]
  BY PoliciesValid
<1>3. /\ weight' \in [DOMAIN weight' -> Weights]
      /\ DOMAIN weight' = DOMAIN weight \cup derived
      /\ DOMAIN weight' \subseteq Relation
      /\ IsFiniteSet(DOMAIN weight')
  <2>. HIDE DEF added
  <2>1. InsertRelations(added)
    BY <1>1 DEF added
  <2>. QED
    BY <1>0, <1>1, <1>2, <2>1, InsertedWeights
<1>4. \A r \in DOMAIN weight' : {r.source, r.target} \subseteq nodes'
  BY <1>0, <1>1, <1>3 DEF GraphOK
<1>5. /\ bundles' \subseteq SUBSET nodes'
      /\ \A b \in bundles' : IsFiniteSet(b) /\ b # {}
      /\ \A a, b \in bundles' : a # b => a \cap b = {}
  BY <1>0, <1>1 DEF GraphOK
<1>6. revision' \in Nat
  BY <1>0, <1>1 DEF Revised, GraphOK
<1>7. GraphOK'
  BY <1>1, <1>3, <1>4, <1>5, <1>6 DEF GraphOK
<1>8. RowsOK'
  BY <1>0, <1>1, SameRows DEF ApplyBundle
<1>9. CallsOK'
  BY <1>0, ReturnCalls DEF ApplyBundle
<1>. QED
  BY <1>7, <1>8, <1>9 DEF OverlayInv

(* A rollback keeps what the deleted nodes do not touch; their memberships  *)
(* cascade in both resolutions.                                             *)
LEMMA RollbackWriteInv ==
  ASSUME OverlayInv, NEW c \in Connections, RollbackWrite(c)
  PROVE  OverlayInv'
<1>. DEFINE b == work[c].bundle
            touching == {r \in DOMAIN weight : r.source \in b \/ r.target \in b}
<1>0. GraphOK /\ RowsOK /\ CallsOK
  BY DEF OverlayInv
<1>1. CASE Refuse(c, "RolledBack")
  BY <1>1, RefuseInv
<1>2. CASE /\ b \in bundles
           /\ weight' = Restricted(weight, DOMAIN weight \ touching)
           /\ nodes' = nodes \ b
           /\ bundles' = bundles \ {b}
           /\ memberships' = [resolution \in Resolutions |->
                                Restricted(memberships[resolution], nodes \ b)]
           /\ Revised(Cardinality(b) + Cardinality(touching))
           /\ UNCHANGED <<nodeSeq, build>>
           /\ Return(c, "RolledBack")
  <2>1. /\ DOMAIN weight' = DOMAIN weight \ touching
        /\ \A r \in DOMAIN weight' : weight'[r] = weight[r]
        /\ weight' = [r \in DOMAIN weight' |-> weight'[r]]
    BY <1>2 DEF Restricted
  <2>2. weight' \in [DOMAIN weight' -> Weights] /\ DOMAIN weight' \subseteq Relation
    <3>1. \A r \in DOMAIN weight : weight[r] \in Weights
      BY <1>0 DEF GraphOK
    <3>2. DOMAIN weight \subseteq Relation
      BY <1>0 DEF GraphOK
    <3>3. \A r \in DOMAIN weight' : r \in DOMAIN weight /\ weight'[r] \in Weights
      BY <2>1, <3>1
    <3>4. weight' = [r \in DOMAIN weight' |-> weight'[r]]
      BY <2>1
    <3>5. weight' \in [DOMAIN weight' -> Weights]
      BY <3>3, <3>4
    <3>. QED
      BY <3>2, <3>3, <3>5
  <2>3. IsFiniteSet(DOMAIN weight) /\ IsFiniteSet(touching) /\ IsFiniteSet(DOMAIN weight')
    <3>1. IsFiniteSet(DOMAIN weight)
      BY <1>0 DEF GraphOK
    <3>2. touching \subseteq DOMAIN weight /\ DOMAIN weight' \subseteq DOMAIN weight
      BY <2>1
    <3>. QED
      BY <3>1, <3>2, FS_Subset
  <2>4. \A r \in DOMAIN weight' : {r.source, r.target} \subseteq nodes'
    BY <1>0, <1>2, <2>1 DEF GraphOK
  <2>5. /\ bundles' \subseteq SUBSET nodes'
        /\ \A a \in bundles' : IsFiniteSet(a) /\ a # {}
        /\ \A a, d \in bundles' : a # d => a \cap d = {}
    BY <1>0, <1>2 DEF GraphOK
  <2>6. revision' \in Nat
    <3>1. IsFiniteSet(b) /\ revision \in Nat
      BY <1>0, <1>2 DEF GraphOK
    <3>2. Cardinality(b) \in Nat /\ Cardinality(touching) \in Nat
      BY <2>3, <3>1, FS_CardinalityType
    <3>. QED
      BY <1>2, <3>1, <3>2 DEF Revised
  <2>7. GraphOK'
    BY <1>0, <1>2, <2>2, <2>3, <2>4, <2>5, <2>6 DEF GraphOK
  <2>8. \A resolution \in Resolutions :
          /\ DOMAIN memberships'[resolution] = DOMAIN memberships[resolution] \cap (nodes \ b)
          /\ \A n \in DOMAIN memberships'[resolution] :
               memberships'[resolution][n] = memberships[resolution][n]
          /\ memberships'[resolution] \in [DOMAIN memberships'[resolution] -> SUBSET Nat]
    BY <1>0, <1>2 DEF Restricted, RowsOK
  <2>9. build' = {} => memberships' = NoMemberships
    <3>. SUFFICES ASSUME build = {} PROVE memberships' = NoMemberships
      BY <1>2
    <3>1. memberships = NoMemberships
      BY <1>0 DEF RowsOK, MembershipsWhole
    <3>2. \A resolution \in Resolutions :
            Restricted(memberships[resolution], nodes \ b) = [n \in {} |-> {}]
      BY <3>1 DEF Restricted, NoMemberships
    <3>. QED
      BY <1>2, <3>2 DEF NoMemberships
  <2>10. memberships' = [resolution \in Resolutions |-> memberships'[resolution]]
    BY <1>2
  <2>11. FineRefinesCoarse'
    BY <1>0, <2>8 DEF FineRefinesCoarse, RowsOK, MembershipsWhole
  <2>12. MembershipsWhole'
    BY <1>0, <1>2, <2>8, <2>9 DEF MembershipsWhole, RowsOK
  <2>13. RowsOK'
    BY <1>0, <1>2, <2>8, <2>10, <2>11, <2>12 DEF RowsOK
  <2>14. CallsOK'
    BY <1>0, <1>2, ReturnCalls
  <2>. QED
    BY <2>7, <2>13, <2>14 DEF OverlayInv
<1>. QED
  BY <1>1, <1>2 DEF RollbackWrite

LEMMA RollbackCheckInv ==
  ASSUME OverlayInv, NEW c \in Connections, NEW b \in bundles, RollbackCheck(c, b)
  PROVE  OverlayInv'
<1>1. CASE Refuse(c, "EvidenceRollbackBlocked")
  BY <1>1, RefuseInv
<1>2. CASE Enter(c, "rollback_write", [NoWork EXCEPT !.bundle = b])
  <2>1. IsWork([NoWork EXCEPT !.bundle = b])
    BY DEF NoWork, IsWork, Work
  <2>. QED
    BY <1>2, <2>1, EnterCalls, UnchangedTables DEF OverlayInv, Enter
<1>. QED
  BY <1>1, <1>2 DEF RollbackCheck

-----------------------------------------------------------------------------
(* Builds, deletions and the routing index. *)

LEMMA BuildReadsInv ==
  ASSUME OverlayInv, NEW c \in Connections,
         (\E p \in Policies : BuildNodes(c, p)) \/ BuildRelations(c) \/ BuildRevision(c)
  PROVE  OverlayInv'
<1>0. GraphOK /\ RowsOK /\ CallsOK
  BY DEF OverlayInv
<1>1. ASSUME NEW p \in Policies, BuildNodes(c, p) PROVE OverlayInv'
  <2>. DEFINE w == Work(p, nodes, 0)
  <2>0. IsWork(w) /\ w.policy = p /\ w.nodes = nodes
    BY DEF Work, IsWork
  <2>. HIDE DEF w
  <2>1. Enter(c, "build_relations", w) /\ w.policy \in Policies /\ w.nodes \subseteq Nat
    <3>1. nodes \subseteq Nat
      BY <1>0 DEF GraphOK
    <3>. QED
      BY <1>1, <2>0, <3>1 DEF BuildNodes, w
  <2>. QED
    BY <1>0, <2>0, <2>1, EnterCalls, UnchangedTables DEF OverlayInv, Enter
<1>2. CASE BuildRelations(c)
  <2>. DEFINE w == [work[c] EXCEPT !.weight = weight]
  <2>1. Enter(c, "build_revision", w) /\ phase[c] = "build_relations"
    BY <1>2 DEF BuildRelations
  <2>2. IsWork(work[c]) /\ work[c].policy \in Policies /\ work[c].nodes \subseteq Nat
    BY <1>0, <2>1 DEF CallsOK
  <2>3. IsWork(w) /\ w.policy = work[c].policy /\ w.nodes = work[c].nodes /\ w.weight = weight
    BY <2>2 DEF IsWork
  <2>4. weight \in [DOMAIN weight -> Weights]
    BY <1>0 DEF GraphOK
  <2>. HIDE DEF w
  <2>. QED
    BY <1>0, <2>1, <2>2, <2>3, <2>4, EnterCalls, UnchangedTables DEF OverlayInv, Enter
<1>3. CASE BuildRevision(c)
  <2>1. CASE Refuse(c, "InvalidDatabase")
    BY <2>1, RefuseInv
  <2>2. CASE Enter(c, "build_write", [work[c] EXCEPT !.revision = revision])
    <3>. DEFINE w == [work[c] EXCEPT !.revision = revision]
    <3>1. /\ IsWork(work[c]) /\ work[c].policy \in Policies /\ work[c].nodes \subseteq Nat
          /\ work[c].weight \in [DOMAIN work[c].weight -> Weights]
      BY <1>0, <1>3 DEF CallsOK, BuildRevision
    <3>2. /\ IsWork(w) /\ w.policy = work[c].policy /\ w.nodes = work[c].nodes
          /\ w.weight = work[c].weight /\ w.revision = revision
      BY <3>1 DEF IsWork
    <3>3. revision \in Nat
      BY <1>0 DEF GraphOK
    <3>4. Enter(c, "build_write", w)
      BY <2>2
    <3>. HIDE DEF w
    <3>. QED
      BY <1>0, <3>1, <3>2, <3>3, <3>4, EnterCalls, UnchangedTables DEF OverlayInv, Enter
  <2>. QED
    BY <1>3, <2>1, <2>2 DEF BuildRevision
<1>. QED
  BY <1>1, <1>2, <1>3

LEMMA BuildWriteInv ==
  ASSUME OverlayInv, NEW c \in Connections, BuildWrite(c)
  PROVE  OverlayInv'
<1>0. GraphOK /\ RowsOK /\ CallsOK
  BY DEF OverlayInv
<1>1. CASE Refuse(c, "Database")
  BY <1>1, RefuseInv
<1>2. CASE /\ ~BuildViolatesConstraint(work[c])
           /\ build' = {[revision |-> work[c].revision, policy |-> work[c].policy]}
           /\ memberships' = Communities(work[c].nodes, work[c].weight, work[c].policy)
           /\ UNCHANGED graph
           /\ Return(c, "Built")
  <2>. DEFINE N == work[c].nodes
              w == work[c].weight
              p == work[c].policy
  <2>1. /\ p \in Policies /\ N \in SUBSET Nat /\ N \subseteq nodes
        /\ w \in [DOMAIN w -> Weights] /\ work[c].revision \in Nat
    BY <1>0, <1>2 DEF CallsOK, BuildWrite, BuildViolatesConstraint
  <2>2. /\ memberships' = [resolution \in Resolutions |-> memberships'[resolution]]
        /\ \A resolution \in Resolutions : memberships'[resolution] \in [N -> SUBSET Nat]
    <3>. HIDE DEF N, w, p
    <3>1. memberships' = Communities(N, w, p)
      BY <1>2 DEF N, w, p
    <3>. DEFINE found == Communities(N, w, p)
    <3>2. /\ found = [resolution \in Resolutions |-> found[resolution]]
          /\ \A resolution \in Resolutions : found[resolution] \in [N -> SUBSET Nat]
      BY <2>1, CommunitiesShape
    <3>. HIDE DEF found
    <3>3. memberships' = found
      BY <3>1 DEF found
    <3>. QED
      BY <3>2, <3>3
  <2>3. \A m, n \in N : memberships'["fine"][m] = memberships'["fine"][n] =>
                          memberships'["coarse"][m] = memberships'["coarse"][n]
    <3>. HIDE DEF N, w, p
    <3>1. memberships' = Communities(N, w, p)
      BY <1>2 DEF N, w, p
    <3>. QED
      BY <2>1, <3>1, CommunitiesNest
  <2>4. DOMAIN memberships'["fine"] = N /\ DOMAIN memberships'["coarse"] = N
    BY <2>2
  <2>5. FineRefinesCoarse' /\ MembershipsWhole'
    <3>1. nodes' = nodes /\ build' # {}
      BY <1>2 DEF graph
    <3>. HIDE DEF N
    <3>. QED
      BY <2>1, <2>3, <2>4, <3>1 DEF FineRefinesCoarse, MembershipsWhole
  <2>6. build' \subseteq [revision : Nat, policy : Policies]
    BY <1>2, <2>1
  <2>7. RowsOK'
    BY <2>2, <2>5, <2>6 DEF RowsOK
  <2>8. GraphOK'
    BY <1>0, <1>2 DEF GraphOK, graph
  <2>9. CallsOK'
    BY <1>0, <1>2, ReturnCalls
  <2>. QED
    BY <2>7, <2>8, <2>9 DEF OverlayInv
<1>. QED
  BY <1>1, <1>2 DEF BuildWrite

LEMMA DeleteInv ==
  ASSUME OverlayInv, NEW c \in Connections, DeleteCommunities(c)
  PROVE  OverlayInv'
<1>1. GraphOK'
  BY DEF OverlayInv, GraphOK, DeleteCommunities, graph
<1>2. RowsOK'
  BY DEF RowsOK, DeleteCommunities, NoMemberships, MembershipsWhole, FineRefinesCoarse
<1>3. CallsOK'
  BY ReturnCalls DEF OverlayInv, DeleteCommunities
<1>. QED
  BY <1>1, <1>2, <1>3 DEF OverlayInv

LEMMA RouteInv ==
  ASSUME OverlayInv, NEW c \in Connections,
         (\E p \in Policies : RouteRevision(c, p)) \/ RouteBuild(c) \/ RouteMemberships(c)
  PROVE  OverlayInv'
<1>0. GraphOK /\ RowsOK /\ CallsOK
  BY DEF OverlayInv
<1>1. ASSUME NEW p \in Policies, RouteRevision(c, p) PROVE OverlayInv'
  <2>. DEFINE w == Work(p, {}, revision)
  <2>1. Enter(c, "route_build", w) /\ w.policy \in Policies /\ IsWork(w)
    BY <1>1 DEF RouteRevision, IsWork, Work
  <2>. QED
    BY <1>0, <2>1, EnterCalls, UnchangedTables DEF OverlayInv, Enter
<1>2. ASSUME NEW answer \in Replies, Refuse(c, answer) PROVE OverlayInv'
  BY <1>2, RefuseInv
<1>3. CASE RouteBuild(c) /\ Enter(c, "route_memberships", work[c])
  <2>1. work[c].policy \in Policies /\ IsWork(work[c])
    BY <1>0, <1>3 DEF RouteBuild, CallsOK
  <2>. QED
    BY <1>0, <1>3, <2>1, EnterCalls, UnchangedTables DEF OverlayInv, Enter
<1>4. CASE RouteBuild(c)
  BY <1>2, <1>3, <1>4 DEF RouteBuild
<1>5. CASE RouteMemberships(c)
  BY <1>2, <1>5 DEF RouteMemberships
<1>. QED
  BY <1>1, <1>4, <1>5

-----------------------------------------------------------------------------
LEMMA InitOverlayInv == Init => OverlayInv
<1>. SUFFICES ASSUME Init PROVE OverlayInv
  OBVIOUS
<1>1. GraphOK
  <2>1. DOMAIN weight = {} /\ weight \in [DOMAIN weight -> Weights]
    BY DEF Init, NoRelations
  <2>. QED
    BY <2>1, FS_EmptySet DEF Init, GraphOK
<1>2. RowsOK
  BY DEF Init, RowsOK, NoMemberships, MembershipsWhole, FineRefinesCoarse
<1>3. CallsOK
  BY DEF Init, CallsOK, NoWork, Work, IsWork
<1>. QED
  BY <1>1, <1>2, <1>3 DEF OverlayInv

LEMMA NextOverlayInv == OverlayInv /\ [Next]_vars => OverlayInv'
<1>. SUFFICES ASSUME OverlayInv, [Next]_vars PROVE OverlayInv'
  OBVIOUS
<1>1. CASE UNCHANGED vars
  <2>1. UNCHANGED <<graph, overlay>> /\ UNCHANGED <<phase, work, reply>>
    BY <1>1 DEF vars, graph, overlay
  <2>2. CallsOK'
    BY <2>1 DEF OverlayInv, CallsOK
  <2>. QED
    BY <2>1, <2>2, UnchangedTables DEF OverlayInv
<1>2. ASSUME NEW c \in Connections, GraphStep(c) PROVE OverlayInv'
  BY <1>2, AddNodesInv, AddRelationsInv, UpdateRelationWeightInv, UpdateNodeCoordinatesInv,
     ApplyBundleInv, RollbackCheckInv, RollbackWriteInv DEF GraphStep
<1>3. ASSUME NEW c \in Connections, OverlayStep(c) PROVE OverlayInv'
  BY <1>3, BuildReadsInv, BuildWriteInv, DeleteInv, RouteInv DEF OverlayStep
<1>4. ASSUME NEW c \in Connections, CallFails(c) PROVE OverlayInv'
  BY <1>4, RefuseInv DEF CallFails
<1>. QED
  BY <1>1, <1>2, <1>3, <1>4 DEF Next

THEOREM OverlayInvariant == Spec => []OverlayInv
BY InitOverlayInv, NextOverlayInv, PTL DEF Spec

(* The graph, the overlay's rows and the calls are well typed; no relation  *)
(* loses its nodes to a rollback.                                           *)
THEOREM OverlayTypeCorrect == Spec => []TypeOK
<1>1. OverlayInv => TypeOK
  BY DEF OverlayInv, GraphOK, RowsOK, CallsOK, TypeOK
<1>. QED
  BY <1>1, OverlayInvariant, PTL

(* Memberships name stored nodes, in both resolutions, for any number of    *)
(* connections.                                                             *)
THEOREM MembershipsAlwaysWhole == Spec => []MembershipsWhole
<1>1. OverlayInv => MembershipsWhole
  BY DEF OverlayInv, RowsOK
<1>. QED
  BY <1>1, OverlayInvariant, PTL

(* The fine resolution refines the coarse one, for any number of            *)
(* connections, any weights and any policies.                               *)
THEOREM FineAlwaysRefinesCoarse == Spec => []FineRefinesCoarse
<1>1. OverlayInv => FineRefinesCoarse
  BY DEF OverlayInv, RowsOK
<1>. QED
  BY <1>1, OverlayInvariant, PTL

-----------------------------------------------------------------------------
(* Freshness, for a single connection: what its build has read is still     *)
(* stored, and a row whose revision is the graph's is of that graph.        *)
ReadsFresh(c) ==
  /\ phase[c] \in BuildPhases => work[c].nodes = nodes
  /\ phase[c] \in {"build_revision", "build_write"} => work[c].weight = weight
  /\ phase[c] \in {"build_write", "route_build"} => work[c].revision = revision
  /\ phase[c] = "route_memberships" =>
       \E row \in build : row.revision = revision /\ row.policy = work[c].policy

FreshInv ==
  /\ \A row \in build : row.revision <= revision
  /\ CurrentOverlayFits
  /\ \A c \in Connections : ReadsFresh(c)

(* A writer of the graph changes no table or raises the revision.           *)
LEMMA WritesRevise ==
  ASSUME OverlayInv, NEW c \in Connections, GraphStep(c)
  PROVE  \/ UNCHANGED <<graph, overlay>> /\ phase'[c] \in {"idle", "rollback_write"}
         \/ revision < revision' /\ build' = build /\ phase'[c] = "idle"
<1>0. GraphOK /\ revision \in Nat /\ phase \in [Connections -> Phases]
  BY DEF OverlayInv, GraphOK, CallsOK
<1>1. ASSUME NEW answer, Refuse(c, answer)
      PROVE  UNCHANGED <<graph, overlay>> /\ phase'[c] = "idle"
  BY <1>0, <1>1 DEF Refuse, Return
<1>2. ASSUME NEW answer, Return(c, answer) PROVE phase'[c] = "idle"
  BY <1>0, <1>2 DEF Return
<1>3. ASSUME NEW n \in 1 .. MaxNodes, AddNodes(c, n)
      PROVE  revision < revision' /\ build' = build /\ phase'[c] = "idle"
  BY <1>0, <1>2, <1>3, BoundsAreNat DEF AddNodes, Revised, overlay
<1>4. ASSUME NEW q \in OrdinaryRelation, NEW r \in OrdinaryRelation,
             NEW new \in [{q, r} -> Weights], AddRelations(c, new),
             Revised(Cardinality(DOMAIN new)), UNCHANGED overlay, Return(c, "Stored")
      PROVE  revision < revision' /\ build' = build /\ phase'[c] = "idle"
  <2>1. Cardinality(DOMAIN new) \in Nat \ {0}
    BY <1>0, BatchFacts
  <2>. QED
    BY <1>0, <1>2, <1>4, <2>1 DEF Revised, overlay
<1>5. ASSUME Revised(Cardinality({"weight"} \cap RevisedColumns)), UNCHANGED overlay,
             Return(c, "Updated")
      PROVE  revision < revision' /\ build' = build /\ phase'[c] = "idle"
  BY <1>0, <1>2, <1>5, OneColumn DEF Revised, overlay
<1>6. ASSUME Revised(1), UNCHANGED overlay, Return(c, "Updated")
      PROVE  revision < revision' /\ build' = build /\ phase'[c] = "idle"
  BY <1>0, <1>2, <1>6 DEF Revised, overlay
<1>7. ASSUME NEW size \in 1 .. 2, ApplyBundle(c, size)
      PROVE  revision < revision' /\ build' = build /\ phase'[c] = "idle"
  <2>1. PICK derived : Cardinality(derived) \in Nat /\ Revised(size + Cardinality(derived))
    BY <1>7, BundleAdds
  <2>. QED
    BY <1>0, <1>2, <1>7, <2>1 DEF Revised, ApplyBundle, overlay
<1>8. ASSUME NEW b \in bundles, RollbackCheck(c, b)
      PROVE  UNCHANGED <<graph, overlay>> /\ phase'[c] \in {"idle", "rollback_write"}
  BY <1>0, <1>1, <1>8 DEF RollbackCheck, Enter
<1>9. ASSUME NEW b \in bundles, NEW touching, touching \subseteq DOMAIN weight,
             Revised(Cardinality(b) + Cardinality(touching)), UNCHANGED build,
             Return(c, "RolledBack")
      PROVE  revision < revision' /\ build' = build /\ phase'[c] = "idle"
  <2>1. IsFiniteSet(b) /\ b # {} /\ IsFiniteSet(DOMAIN weight)
    BY <1>0 DEF GraphOK
  <2>2. IsFiniteSet(touching)
    BY <1>9, <2>1, FS_Subset
  <2>3. Cardinality(b) \in Nat \ {0} /\ Cardinality(touching) \in Nat
    BY <2>1, <2>2, FS_CardinalityType, FS_EmptySet
  <2>. QED
    BY <1>0, <1>2, <1>9, <2>3 DEF Revised
<1>10. CASE \E q, r \in OrdinaryRelation : \E new \in [{q, r} -> Weights] : AddRelations(c, new)
  BY <1>1, <1>4, <1>10 DEF AddRelations
<1>11. CASE \E r \in DOMAIN weight \cup OrdinaryRelation, w \in Weights :
              UpdateRelationWeight(c, r, w)
  BY <1>1, <1>5, <1>11 DEF UpdateRelationWeight
<1>12. CASE \E n \in 1 .. MaxNodes : UpdateNodeCoordinates(c, n)
  BY <1>1, <1>6, <1>12 DEF UpdateNodeCoordinates
<1>13. CASE RollbackWrite(c)
  <2>. DEFINE b == work[c].bundle
              touching == {r \in DOMAIN weight : r.source \in b \/ r.target \in b}
  <2>1. \/ Refuse(c, "RolledBack")
        \/ /\ b \in bundles
           /\ Revised(Cardinality(b) + Cardinality(touching))
           /\ UNCHANGED build
           /\ Return(c, "RolledBack")
    BY <1>13 DEF RollbackWrite
  <2>2. touching \subseteq DOMAIN weight
    OBVIOUS
  <2>. HIDE DEF b, touching
  <2>. QED
    BY <1>1, <1>9, <2>1, <2>2
<1>. QED
  BY <1>3, <1>7, <1>8, <1>10, <1>11, <1>12, <1>13 DEF GraphStep

(* A call that only reads or is refused leaves the rows as fresh as before. *)
LEMMA SameFresh ==
  ASSUME FreshInv, UNCHANGED <<graph, overlay>>, \A c \in Connections : ReadsFresh(c)'
  PROVE  FreshInv'
BY DEF FreshInv, CurrentOverlayFits, graph, overlay

LEMMA NextFreshInv ==
  ASSUME \A c, d \in Connections : c = d
  PROVE  OverlayInv /\ FreshInv /\ [Next]_vars => FreshInv'
<1>. SUFFICES ASSUME OverlayInv, FreshInv, [Next]_vars PROVE FreshInv'
  OBVIOUS
<1>0. GraphOK /\ RowsOK /\ CallsOK /\ revision \in Nat /\ phase \in [Connections -> Phases]
      /\ work = [c \in Connections |-> work[c]] /\ \A c \in Connections : IsWork(work[c])
  BY DEF OverlayInv, GraphOK, CallsOK
<1>1. CASE UNCHANGED vars
  <2>1. UNCHANGED <<graph, overlay>> /\ UNCHANGED <<phase, work>>
    BY <1>1 DEF vars, graph, overlay
  <2>2. ASSUME NEW c \in Connections PROVE ReadsFresh(c)'
    BY <2>1 DEF FreshInv, ReadsFresh, graph, overlay
  <2>. QED
    BY <2>1, <2>2, SameFresh
<1>2. ASSUME NEW c \in Connections, UNCHANGED <<graph, overlay>>,
             phase'[c] \in {"idle", "rollback_write"}
      PROVE  FreshInv'
  <2>1. ASSUME NEW d \in Connections PROVE ReadsFresh(d)'
    <3>1. d = c
      OBVIOUS
    <3>. QED
      BY <1>2, <3>1 DEF ReadsFresh
  <2>. QED
    BY <1>2, <2>1, SameFresh
<1>3. ASSUME NEW c \in Connections, NEW answer, Refuse(c, answer) PROVE FreshInv'
  BY <1>0, <1>2, <1>3 DEF Refuse, Return
<1>4. ASSUME NEW c \in Connections, GraphStep(c) PROVE FreshInv'
  <2>1. CASE revision < revision' /\ build' = build /\ phase'[c] = "idle"
    <3>1. revision' \in Nat
      BY NextOverlayInv DEF OverlayInv, GraphOK
    <3>2. \A row \in build' : row.revision <= revision /\ row.revision \in Nat
      BY <1>0, <2>1 DEF FreshInv, RowsOK
    <3>3. \A row \in build' : row.revision <= revision' /\ row.revision # revision'
      BY <1>0, <2>1, <3>1, <3>2
    <3>4. ASSUME NEW d \in Connections PROVE ReadsFresh(d)'
      <4>1. d = c
        OBVIOUS
      <4>. QED
        BY <2>1, <4>1 DEF ReadsFresh
    <3>. QED
      BY <3>3, <3>4 DEF FreshInv, CurrentOverlayFits
  <2>. QED
    BY <1>2, <1>4, <2>1, WritesRevise
(* The reads of a build and of a routing index are of the stored graph. *)
<1>5. ASSUME NEW c \in Connections, NEW p, NEW w, Enter(c, p, w), p # "rollback_write",
             /\ p \in BuildPhases => w.nodes = nodes
             /\ p \in {"build_revision", "build_write"} => w.weight = weight
             /\ p \in {"build_write", "route_build"} => w.revision = revision
             /\ p = "route_memberships" =>
                  \E row \in build : row.revision = revision /\ row.policy = w.policy
      PROVE  FreshInv'
  <2>1. UNCHANGED <<graph, overlay>> /\ phase'[c] = p /\ work'[c] = w
    BY <1>0, <1>5 DEF Enter
  <2>2. ASSUME NEW d \in Connections PROVE ReadsFresh(d)'
    <3>1. d = c
      OBVIOUS
    <3>. QED
      BY <1>5, <2>1, <3>1 DEF ReadsFresh, graph, overlay
  <2>. QED
    BY <2>1, <2>2, SameFresh
<1>6. ASSUME NEW c \in Connections, NEW p \in Policies, BuildNodes(c, p) PROVE FreshInv'
  <2>1. Work(p, nodes, 0).nodes = nodes
    BY DEF Work
  <2>. QED
    BY <1>5, <1>6, <2>1 DEF BuildNodes
<1>7. ASSUME NEW c \in Connections, NEW p \in Policies, RouteRevision(c, p) PROVE FreshInv'
  <2>1. Work(p, {}, revision).revision = revision
    BY DEF Work
  <2>. QED
    BY <1>5, <1>7, <2>1 DEF RouteRevision
<1>8. ASSUME NEW c \in Connections, BuildRelations(c) PROVE FreshInv'
  <2>. DEFINE w == [work[c] EXCEPT !.weight = weight]
  <2>1. w.nodes = work[c].nodes /\ w.weight = weight
    BY <1>0 DEF IsWork
  <2>2. work[c].nodes = nodes /\ Enter(c, "build_revision", w)
    BY <1>8 DEF BuildRelations, FreshInv, ReadsFresh
  <2>. HIDE DEF w
  <2>. QED
    BY <1>5, <2>1, <2>2
<1>9. ASSUME NEW c \in Connections, BuildRevision(c) PROVE FreshInv'
  <2>. DEFINE w == [work[c] EXCEPT !.revision = revision]
  <2>1. w.nodes = work[c].nodes /\ w.weight = work[c].weight /\ w.revision = revision
    BY <1>0 DEF IsWork
  <2>2. work[c].nodes = nodes /\ work[c].weight = weight
    BY <1>9 DEF BuildRevision, FreshInv, ReadsFresh
  <2>3. Refuse(c, "InvalidDatabase") \/ Enter(c, "build_write", w)
    BY <1>9 DEF BuildRevision
  <2>. HIDE DEF w
  <2>. QED
    BY <1>3, <1>5, <2>1, <2>2, <2>3
<1>10. ASSUME NEW c \in Connections, BuildWrite(c) PROVE FreshInv'
  <2>1. work[c].nodes = nodes /\ work[c].weight = weight /\ work[c].revision = revision
    BY <1>10 DEF BuildWrite, FreshInv, ReadsFresh
  <2>2. CASE /\ build' = {[revision |-> work[c].revision, policy |-> work[c].policy]}
             /\ memberships' = Communities(work[c].nodes, work[c].weight, work[c].policy)
             /\ UNCHANGED graph
             /\ Return(c, "Built")
    <3>1. UNCHANGED <<nodes, weight, revision>> /\ phase'[c] = "idle"
      BY <1>0, <2>2 DEF graph, Return
    <3>2. ASSUME NEW d \in Connections PROVE ReadsFresh(d)'
      <4>1. d = c
        OBVIOUS
      <4>. QED
        BY <3>1, <4>1 DEF ReadsFresh
    <3>3. CurrentOverlayFits' /\ \A row \in build' : row.revision <= revision'
      BY <1>0, <2>1, <2>2, <3>1 DEF CurrentOverlayFits
    <3>. QED
      BY <3>2, <3>3 DEF FreshInv
  <2>. QED
    BY <1>3, <1>10, <2>2 DEF BuildWrite
<1>11. ASSUME NEW c \in Connections, DeleteCommunities(c) PROVE FreshInv'
  <2>1. build' = {} /\ phase'[c] = "idle"
    BY <1>0, <1>11 DEF DeleteCommunities, Return
  <2>2. ASSUME NEW d \in Connections PROVE ReadsFresh(d)'
    <3>1. d = c
      OBVIOUS
    <3>. QED
      BY <2>1, <3>1 DEF ReadsFresh
  <2>. QED
    BY <2>1, <2>2 DEF FreshInv, CurrentOverlayFits
<1>12. ASSUME NEW c \in Connections, RouteBuild(c) PROVE FreshInv'
  <2>1. work[c].revision = revision
    BY <1>12 DEF RouteBuild, FreshInv, ReadsFresh
  <2>2. CASE /\ Enter(c, "route_memberships", work[c])
             /\ \E row \in build : row.revision = work[c].revision
                                   /\ SameParameters(row, work[c].policy)
    BY <1>5, <2>1, <2>2 DEF SameParameters
  <2>. QED
    BY <1>3, <1>12, <2>2 DEF RouteBuild
<1>13. ASSUME NEW c \in Connections, RouteMemberships(c) PROVE FreshInv'
  BY <1>3, <1>13 DEF RouteMemberships
<1>. QED
  BY <1>1, <1>3, <1>4, <1>6, <1>7, <1>8, <1>9, <1>10, <1>11, <1>12, <1>13
  DEF Next, OverlayStep, CallFails

(* With one connection, the overlay that passes for current is that of the  *)
(* stored graph: every write raises the revision, and nothing is written    *)
(* between the reads of a build and its transaction.                        *)
THEOREM CurrentOverlayAlwaysFits ==
  ASSUME \A c, d \in Connections : c = d
  PROVE  Spec => []CurrentOverlayFits
<1>1. Init => FreshInv
  BY DEF Init, FreshInv, CurrentOverlayFits, ReadsFresh
<1>2. OverlayInv /\ FreshInv /\ [Next]_vars => FreshInv'
  BY NextFreshInv
<1>3. FreshInv => CurrentOverlayFits
  BY DEF FreshInv
<1>. QED
  BY <1>1, <1>2, <1>3, OverlayInvariant, PTL DEF Spec

(* With one connection, a routing index is of the stored graph and of the   *)
(* thresholds the activation asked for.                                     *)
THEOREM RoutedIndexAlwaysFits ==
  ASSUME \A c, d \in Connections : c = d
  PROVE  Spec => RoutedIndexFits
<1>. DEFINE Fits == reply' = "Routed" =>
              \E c \in Connections :
                /\ phase[c] = "route_memberships"
                /\ phase'[c] = "idle"
                /\ memberships = Communities(nodes, weight, work[c].policy)
<1>1. Init => FreshInv
  BY DEF Init, FreshInv, CurrentOverlayFits, ReadsFresh
<1>2. OverlayInv /\ FreshInv /\ [Next]_vars => FreshInv'
  BY NextFreshInv
<1>3. OverlayInv /\ FreshInv /\ [Next]_vars => [Fits]_vars
  <2>. SUFFICES ASSUME OverlayInv, FreshInv, Next, reply' = "Routed"
                PROVE  \E c \in Connections :
                         /\ phase[c] = "route_memberships"
                         /\ phase'[c] = "idle"
                         /\ memberships = Communities(nodes, weight, work[c].policy)
    OBVIOUS
  <2>1. PICK c \in Connections : RouteMemberships(c)
    <3>1. ASSUME NEW c \in Connections, GraphStep(c) PROVE FALSE
      BY <3>1 DEF GraphStep, AddNodes, AddRelations, UpdateRelationWeight,
                  UpdateNodeCoordinates, ApplyBundle, RollbackCheck, RollbackWrite,
                  Refuse, Return, Enter
    <3>2. ASSUME NEW c \in Connections, OverlayStep(c) PROVE RouteMemberships(c)
      BY <3>2 DEF OverlayStep, BuildNodes, BuildRelations, BuildRevision, BuildWrite,
                  DeleteCommunities, RouteRevision, RouteBuild, Refuse, Return, Enter
    <3>. QED
      BY <3>1, <3>2 DEF Next, CallFails, Refuse, Return
  <2>2. PICK row \in build : row.revision = revision /\ row.policy = work[c].policy
    BY <2>1 DEF RouteMemberships, FreshInv, ReadsFresh
  <2>3. phase[c] = "route_memberships" /\ phase'[c] = "idle"
    BY <2>1 DEF RouteMemberships, Refuse, Return, OverlayInv, CallsOK
  <2>. QED
    BY <2>2, <2>3 DEF FreshInv, CurrentOverlayFits
<1>. QED
  BY <1>1, <1>2, <1>3, OverlayInvariant, PTL DEF Spec, RoutedIndexFits
=============================================================================
