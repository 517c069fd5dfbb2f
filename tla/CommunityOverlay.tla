--------------------------- MODULE CommunityOverlay ---------------------------
(***************************************************************************)
(* The derived community overlay of memory3d-core and its freshness: the   *)
(* graph revision the schema's triggers count, the build that replaces the *)
(* overlay, and the routing index an activation reads it into.             *)
(*                                                                         *)
(* A transaction is one step, and so is every read a call makes outside    *)
(* one: in between another connection may commit (see EvidenceLedger).     *)
(* Bundles are those without references to earlier evidence, the only ones *)
(* a rollback accepts; to the overlay any other bundle is AddNodes and     *)
(* AddRelations in one transaction.                                        *)
(***************************************************************************)
EXTENDS Integers, FiniteSets

CONSTANTS
  Connections,   \* Repository values open on the file
  OrdinaryNames, \* relation names chosen by callers
  Weights,       \* relation weights, as ranks in 0.0 .. 1.0
  FullWeight,    \* 1.0, the weight of a projected relation
  Policies,      \* CommunityPolicy values callers pass
  MaxNodes,      \* bound on the node IDs ever given out
  MaxRelations,  \* bound on the relations callers add
  MaxRevision    \* bound on the revision

(* CommunityPolicy::validate: the coarse threshold is not above the fine one. *)
Policy == {p \in [fine : Weights, coarse : Weights] : p.coarse <= p.fine}

ASSUME PoliciesValid ==
  Weights \subseteq Nat /\ FullWeight \in Weights /\ Policies \subseteq Policy

ASSUME BoundsAreNat == {MaxNodes, MaxRelations, MaxRevision} \subseteq Nat

VARIABLES
  nodes,       \* nodes.id
  nodeSeq,     \* sqlite_sequence of nodes
  weight,      \* relations.weight, by primary key
  bundles,     \* the applied bundles, as the sets of their projected nodes
  revision,    \* community_graph_state.graph_revision
  build,       \* community_builds: at most one row
  memberships, \* community_memberships of each resolution
  phase,       \* where each connection's call stands
  work,        \* what that call was given and has read
  reply        \* what the call that last returned answered, "none" while one runs

graph == <<nodes, nodeSeq, weight, bundles, revision>>
overlay == <<build, memberships>>
vars == <<nodes, nodeSeq, weight, bundles, revision, build, memberships, phase, work, reply>>

Projected == "evidence:derived_from"
Relation == [source : Nat, target : Nat, name : OrdinaryNames \cup {Projected}]
Resolutions == {"fine", "coarse"}

BuildPhases == {"build_relations", "build_revision", "build_write"}
RoutePhases == {"route_build", "route_memberships"}
Phases == {"idle", "rollback_write"} \cup BuildPhases \cup RoutePhases
Replies == {"none", "failed", "Stored", "Updated", "Applied", "RolledBack", "Built",
            "Deleted", "Routed", "NodeNotFound", "RelationNotFound",
            "EvidenceRollbackBlocked", "CommunityArtifactsMissing",
            "CommunityArtifactsStale", "InvalidDatabase", "Database"}

NoRelations == [r \in {} |-> 0]
NoMemberships == [fine |-> [n \in {} |-> {}], coarse |-> [n \in {} |-> {}]]
Work(p, N, v) ==
  [policy |-> p, bundle |-> {}, nodes |-> N, weight |-> NoRelations, revision |-> v]
NoWork == Work([fine |-> 0, coarse |-> 0], {}, 0)

TypeOK ==
  /\ nodes \subseteq Nat
  /\ nodeSeq \in Nat
  /\ weight \in [DOMAIN weight -> Weights]
  /\ DOMAIN weight \subseteq Relation
  /\ \A r \in DOMAIN weight : {r.source, r.target} \subseteq nodes
  /\ bundles \subseteq SUBSET nodes
  /\ revision \in Nat
  /\ build \subseteq [revision : Nat, policy : Policies]
  /\ memberships = [resolution \in Resolutions |-> memberships[resolution]]
  /\ \A resolution \in Resolutions :
       memberships[resolution] \in [DOMAIN memberships[resolution] -> SUBSET Nat]
  /\ phase \in [Connections -> Phases]
  /\ reply \in Replies

Init ==
  /\ nodes = {}
  /\ nodeSeq = 0
  /\ weight = NoRelations
  /\ bundles = {}
  /\ revision = 0
  /\ build = {}
  /\ memberships = NoMemberships
  /\ phase = [c \in Connections |-> "idle"]
  /\ work = [c \in Connections |-> NoWork]
  /\ reply = "none"

-----------------------------------------------------------------------------
(* The communities of a graph, whatever algorithm finds them.              *)

Heavy(w, t) == {r \in DOMAIN w : w[r] >= t}

(* Mutant: the two calls of build_resolution get each other's threshold.   *)
SwappedThreshold(p, resolution) == IF resolution = "fine" THEN p.coarse ELSE p.fine

Threshold(p, resolution) == p[resolution]

(* The relations that join nodes: heavy ones, for the fine resolution only  *)
(* with a heavy relation back.                                              *)
Joining(w, p, resolution) ==
  LET heavy == Heavy(w, Threshold(p, resolution)) IN
  {r \in heavy : resolution = "fine" =>
                   \E q \in heavy : q.source = r.target /\ q.target = r.source}

(* The component of n: in every set that holds n and is closed.  A          *)
(* community_id stands for this set, the community's members at the build.  *)
Component(N, joining, n) ==
  {m \in N : \A S \in SUBSET N :
     n \in S /\ (\A r \in joining : r.source \in S <=> r.target \in S) => m \in S}

Communities(N, w, p) ==
  [resolution \in Resolutions |->
     [n \in N |-> Component(N, Joining(w, p, resolution), n)]]

-----------------------------------------------------------------------------
(* Control of a call.                                                      *)

Enter(c, p, w) ==
  /\ phase' = [phase EXCEPT ![c] = p]
  /\ work' = [work EXCEPT ![c] = w]
  /\ reply' = "none"
  /\ UNCHANGED <<graph, overlay>>

Return(c, answer) ==
  /\ phase' = [phase EXCEPT ![c] = "idle"]
  /\ work' = [work EXCEPT ![c] = NoWork]
  /\ reply' = answer

Refuse(c, answer) == Return(c, answer) /\ UNCHANGED <<graph, overlay>>

(* Busy, a failed commit, a clock error or the death of the process. *)
CallFails(c) == phase[c] # "idle" /\ Refuse(c, "failed")

(* The revision triggers fire once for each row; the bound stands here.     *)
Revised(rows) == revision + rows <= MaxRevision /\ revision' = revision + rows

-----------------------------------------------------------------------------
(* Writers of the graph.                                                   *)

AddNodes(c, n) ==
  /\ phase[c] = "idle"
  /\ nodeSeq + n <= MaxNodes
  /\ nodes' = nodes \cup (nodeSeq + 1 .. nodeSeq + n)
  /\ nodeSeq' = nodeSeq + n
  /\ Revised(n)
  /\ UNCHANGED <<weight, bundles, overlay>>
  /\ Return(c, "Stored")

(* Mutant: only the source of a new relation is looked up.                 *)
SourceMissing(batch) == \E r \in batch : r.source \notin nodes

EndpointMissing(batch) == \E r \in batch : ~({r.source, r.target} \subseteq nodes)

InsertRelations(new) ==
  weight' = [r \in DOMAIN weight \cup DOMAIN new |->
               IF r \in DOMAIN new THEN new[r] ELSE weight[r]]

AddRelations(c, new) ==
  /\ phase[c] = "idle"
  /\ Cardinality({r \in DOMAIN weight : r.name \in OrdinaryNames} \cup DOMAIN new) <= MaxRelations
  /\ \/ EndpointMissing(DOMAIN new) /\ Refuse(c, "NodeNotFound")
     \/ DOMAIN new \cap DOMAIN weight # {} /\ Refuse(c, "Database")
     \/ /\ ~EndpointMissing(DOMAIN new)
        /\ DOMAIN new \cap DOMAIN weight = {}
        /\ InsertRelations(new)
        /\ Revised(Cardinality(DOMAIN new))
        /\ UNCHANGED <<nodes, nodeSeq, bundles, overlay>>
        /\ Return(c, "Stored")

(* Mutant: the update trigger of relations leaves the weight out.          *)
KeyColumns == {"source_id", "target_id", "name"}

(* AFTER UPDATE OF ... ON relations: the columns whose update is a revision; *)
(* reinforcement_count, which feedback updates, is not one of them.         *)
RevisedColumns == {"source_id", "target_id", "name", "weight"}

UpdateRelationWeight(c, r, w) ==
  /\ phase[c] = "idle"
  /\ \/ r \notin DOMAIN weight /\ Refuse(c, "RelationNotFound")
     \/ /\ r \in DOMAIN weight
        /\ weight' = [weight EXCEPT ![r] = w]
        /\ Revised(Cardinality({"weight"} \cap RevisedColumns))
        /\ UNCHANGED <<nodes, nodeSeq, bundles, overlay>>
        /\ Return(c, "Updated")

(* No community depends on coordinates, but an updated node is a revision.  *)
UpdateNodeCoordinates(c, n) ==
  /\ phase[c] = "idle"
  /\ \/ n \notin nodes /\ Refuse(c, "NodeNotFound")
     \/ /\ n \in nodes
        /\ Revised(1)
        /\ UNCHANGED <<nodes, nodeSeq, weight, bundles, overlay>>
        /\ Return(c, "Updated")

(* apply_evidence_bundle of one item, or of two, the second derived from    *)
(* the first.                                                               *)
ApplyBundle(c, size) ==
  /\ phase[c] = "idle"
  /\ nodeSeq + size <= MaxNodes
  /\ LET new == nodeSeq + 1 .. nodeSeq + size
         derived == IF size = 1 THEN {}
                    ELSE {[source |-> nodeSeq + 2, target |-> nodeSeq + 1, name |-> Projected]}
     IN /\ nodes' = nodes \cup new
        /\ nodeSeq' = nodeSeq + size
        /\ bundles' = bundles \cup {new}
        /\ InsertRelations([r \in derived |-> FullWeight])
        /\ Revised(size + Cardinality(derived))
        /\ UNCHANGED overlay
        /\ Return(c, "Applied")

(* rollback_evidence_bundle: the dependency query ... *)
RollbackCheck(c, b) ==
  /\ phase[c] = "idle"
  /\ b \in bundles
  /\ \/ /\ \E r \in DOMAIN weight : (r.source \in b) # (r.target \in b)
        /\ Refuse(c, "EvidenceRollbackBlocked")
     \/ /\ \A r \in DOMAIN weight : r.source \in b <=> r.target \in b
        /\ Enter(c, "rollback_write", [NoWork EXCEPT !.bundle = b])

Restricted(f, S) == [n \in DOMAIN f \cap S |-> f[n]]

(* ... and the transaction, with the memberships of the nodes cascading.    *)
(* It finds nothing to delete where another rollback was faster.            *)
RollbackWrite(c) ==
  /\ phase[c] = "rollback_write"
  /\ LET b == work[c].bundle
         touching == {r \in DOMAIN weight : r.source \in b \/ r.target \in b}
     IN \/ b \notin bundles /\ Refuse(c, "RolledBack")
        \/ /\ b \in bundles
           /\ weight' = Restricted(weight, DOMAIN weight \ touching)
           /\ nodes' = nodes \ b
           /\ bundles' = bundles \ {b}
           /\ memberships' = [resolution \in Resolutions |->
                                Restricted(memberships[resolution], nodes \ b)]
           /\ Revised(Cardinality(b) + Cardinality(touching))
           /\ UNCHANGED <<nodeSeq, build>>
           /\ Return(c, "RolledBack")

-----------------------------------------------------------------------------
(* build_communities, delete_communities                                   *)

(* list_nodes, *)
BuildNodes(c, p) ==
  /\ phase[c] = "idle"
  /\ Enter(c, "build_relations", Work(p, nodes, 0))

(* list_relations, *)
BuildRelations(c) ==
  /\ phase[c] = "build_relations"
  /\ Enter(c, "build_revision", [work[c] EXCEPT !.weight = weight])

(* A node of a joining relation is missing among the nodes read.  Coarse    *)
(* joining relations include the fine ones.                                 *)
UnknownEndpoint(read) ==
  \E r \in Joining(read.weight, read.policy, "coarse") :
    ~({r.source, r.target} \subseteq read.nodes)

(* graph_revision and the computation of the communities, *)
BuildRevision(c) ==
  /\ phase[c] = "build_revision"
  /\ IF UnknownEndpoint(work[c])
     THEN Refuse(c, "InvalidDatabase")
     ELSE Enter(c, "build_write", [work[c] EXCEPT !.revision = revision])

(* Mutant: memberships may name deleted nodes.                             *)
NoForeignKey(read) == FALSE

(* The foreign key of a membership: its node was deleted after it was read. *)
BuildViolatesConstraint(read) == ~(read.nodes \subseteq nodes)

(* and the transaction that replaces the overlay. *)
BuildWrite(c) ==
  /\ phase[c] = "build_write"
  /\ \/ BuildViolatesConstraint(work[c]) /\ Refuse(c, "Database")
     \/ /\ ~BuildViolatesConstraint(work[c])
        /\ build' = {[revision |-> work[c].revision, policy |-> work[c].policy]}
        /\ memberships' = Communities(work[c].nodes, work[c].weight, work[c].policy)
        /\ UNCHANGED graph
        /\ Return(c, "Built")

DeleteCommunities(c) ==
  /\ phase[c] = "idle"
  /\ build' = {}
  /\ memberships' = NoMemberships
  /\ UNCHANGED graph
  /\ Return(c, "Deleted")

-----------------------------------------------------------------------------
(* community_routing_index                                                 *)

RouteRevision(c, p) ==
  /\ phase[c] = "idle"
  /\ Enter(c, "route_build", Work(p, {}, revision))

(* Mutant: the thresholds of the build are not compared.                   *)
AnyParameters(row, p) == TRUE

SameParameters(row, p) == row.policy = p

RouteBuild(c) ==
  /\ phase[c] = "route_build"
  /\ \/ build = {} /\ Refuse(c, "CommunityArtifactsMissing")
     \/ \E row \in build :
          \/ row.revision # work[c].revision /\ Refuse(c, "CommunityArtifactsStale")
          \/ /\ row.revision = work[c].revision
             /\ IF SameParameters(row, work[c].policy)
                THEN Enter(c, "route_memberships", work[c])
                ELSE Refuse(c, "InvalidDatabase")

RouteMemberships(c) ==
  /\ phase[c] = "route_memberships"
  /\ IF DOMAIN memberships["fine"] = DOMAIN memberships["coarse"]
     THEN Refuse(c, "Routed")
     ELSE Refuse(c, "InvalidDatabase")

-----------------------------------------------------------------------------
OrdinaryRelation == [source : 1 .. nodeSeq, target : 1 .. nodeSeq, name : OrdinaryNames]

GraphStep(c) ==
  \/ \E n \in 1 .. MaxNodes : AddNodes(c, n)
  \/ \E q, r \in OrdinaryRelation : \E new \in [{q, r} -> Weights] : AddRelations(c, new)
  \/ \E r \in DOMAIN weight \cup OrdinaryRelation, w \in Weights : UpdateRelationWeight(c, r, w)
  \/ \E n \in 1 .. MaxNodes : UpdateNodeCoordinates(c, n)
  \/ \E size \in 1 .. 2 : ApplyBundle(c, size)
  \/ \E b \in bundles : RollbackCheck(c, b)
  \/ RollbackWrite(c)

OverlayStep(c) ==
  \/ \E p \in Policies : BuildNodes(c, p) \/ RouteRevision(c, p)
  \/ BuildRelations(c) \/ BuildRevision(c) \/ BuildWrite(c)
  \/ DeleteCommunities(c)
  \/ RouteBuild(c) \/ RouteMemberships(c)

Next == \E c \in Connections : GraphStep(c) \/ OverlayStep(c) \/ CallFails(c)

Spec == Init /\ [][Next]_vars

-----------------------------------------------------------------------------
(* The overlay that passes for current is that of the stored graph          *)
(* ("Overlay matches the current raw graph", community.rs:162), over any    *)
(* order of graph writes, builds and rollbacks by one connection.           *)
CurrentOverlayFits ==
  \A row \in build : row.revision = revision =>
    memberships = Communities(nodes, weight, row.policy)

(* A routing index is of the graph and of the thresholds the activation     *)
(* asked for, in the moment it is read (community.rs:373-437).              *)
RoutedIndexFits ==
  [][ reply' = "Routed" =>
        \E c \in Connections :
          /\ phase[c] = "route_memberships"
          /\ phase'[c] = "idle"
          /\ memberships = Communities(nodes, weight, work[c].policy) ]_vars

(* Memberships name stored nodes, both resolutions have the same ones and   *)
(* none are left without a build, whatever build, rollback or deletion ran  *)
(* in between: an index never "lacks one community resolution".             *)
MembershipsWhole ==
  /\ DOMAIN memberships["fine"] = DOMAIN memberships["coarse"]
  /\ DOMAIN memberships["fine"] \subseteq nodes
  /\ build = {} => memberships = NoMemberships

(* Nodes of one fine community are in one coarse community, so that the two *)
(* questions of community_route (retrieval.rs:1060-1069) nest, also when    *)
(* the build read nodes and relations of two different graphs.              *)
FineRefinesCoarse ==
  \A m, n \in DOMAIN memberships["fine"] :
    memberships["fine"][m] = memberships["fine"][n] =>
      memberships["coarse"][m] = memberships["coarse"][n]
=============================================================================
