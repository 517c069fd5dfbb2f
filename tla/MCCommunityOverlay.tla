------------------------- MODULE MCCommunityOverlay -------------------------
(* Small instances of CommunityOverlay: weights below, between and above    *)
(* the thresholds.                                                          *)
EXTENDS CommunityOverlay, TLC

CONSTANTS c1, c2

(* multi_resolution_v1 and a policy of one threshold. *)
TwoThresholds == [fine |-> 2, coarse |-> 1]
OneThreshold == [fine |-> 1, coarse |-> 1]

OnePolicy == {TwoThresholds}
TwoPolicies == {TwoThresholds, OneThreshold}

(* Nothing tells the connections apart. *)
Alike == Permutations(Connections)
=============================================================================
