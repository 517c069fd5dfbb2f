--------------------------- MODULE MCDatabaseFile ---------------------------
(* Two processes, and files of every kind the path may hold.                *)
EXTENDS DatabaseFile

CONSTANTS p1, p2

TwoNodes == {1, 2}
OneEdge == {<<1, 2>>}

(* A file as this or an earlier version of the code leaves it: nodes 1 and  *)
(* 2, linked, and ID 3 given once.                                          *)
Historical(v) ==
  [Empty EXCEPT !.format = "memory3d", !.version = v, !.tables = v > 0,
                !.batches = 1 .. (IF v < 6 THEN v ELSE 6),
                !.nodes = IF v > 0 THEN {1, 2} ELSE {}, !.seq = IF v > 0 THEN 3 ELSE 0,
                !.edges = IF v > 0 THEN {<<1, 2>>} ELSE {},
                !.terms = IF v >= 2 THEN {1, 2} ELSE {},
                !.revision = IF v >= 5 THEN 4 ELSE 0, !.triggers = v >= 5,
                !.overlay = IF v >= 5 THEN Overlay(4, {1, 2}, 4) ELSE NoOverlay]

Files ==
  {NoFile, Empty, [Empty EXCEPT !.tables = TRUE],
   [Empty EXCEPT !.tables = TRUE, !.format = "other"],
   [Historical(6) EXCEPT !.bad = {2}]}
  \cup {Historical(v) : v \in 0 .. 8}

Plan(a, b) == [p \in Processes |-> IF p = p1 THEN a ELSE b]

AllPlans ==
  {Plan(a, b) :
     a \in {<<"add", "rollback", "add">>, <<"demo", "demo">>, <<"demo --replace", "demo --replace">>,
            <<"build", "add">>},
     b \in {<<"add">>, <<"demo">>, <<"rollback">>, <<"build">>, <<"check">>}}
=============================================================================
