---------------------------- MODULE PartitionMerge ----------------------------
(***************************************************************************)
(* What the two resolutions of the community overlay promise, whatever     *)
(* algorithm computes them: all nodes start apart, every joining relation  *)
(* merges the communities of its two ends once, and nothing else changes a *)
(* community.  CommunityResolution implements it with a union-find forest. *)
(***************************************************************************)

VARIABLES
  members,    \* the nodes of the graph that was read
  joining,    \* by resolution, the relations that join their ends
  resolution, \* the resolution being built: "fine", then "coarse"
  pending,    \* its joining relations not merged yet
  blocks,     \* the communities so far
  result      \* the communities of the finished resolutions

vars == <<members, joining, resolution, pending, blocks, result>>

Apart(S) == {{n} : n \in S}

Block(n) == CHOOSE B \in blocks : n \in B

Init ==
  /\ members = {}
  /\ joining = [fine |-> {}, coarse |-> {}]
  /\ resolution = "none"
  /\ pending = {}
  /\ blocks = {}
  /\ result = [fine |-> {}, coarse |-> {}]

(* A build reads a graph: what it was before does not matter to a build. *)
Begin ==
  /\ resolution = "none"
  /\ resolution' = "fine"
  /\ pending' = joining'["fine"]
  /\ blocks' = Apart(members')
  /\ result' = [fine |-> {}, coarse |-> {}]

Merge(r) ==
  /\ pending' = pending \ {r}
  /\ LET joined == Block(r.source) \cup Block(r.target) IN
     blocks' = {B \in blocks : B \cap joined = {}} \cup {joined}
  /\ UNCHANGED <<members, joining, resolution, result>>

Finish ==
  /\ resolution # "none"
  /\ pending = {}
  /\ result' = [result EXCEPT ![resolution] = blocks]
  /\ IF resolution = "fine"
     THEN /\ resolution' = "coarse"
          /\ pending' = joining["coarse"]
          /\ blocks' = Apart(members)
     ELSE /\ resolution' = "none"
          /\ pending' = {}
          /\ blocks' = {}
  /\ UNCHANGED <<members, joining>>

Next == Begin \/ (\E r \in pending : Merge(r)) \/ Finish

Spec == Init /\ [][Next]_vars
=============================================================================
