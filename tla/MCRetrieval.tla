----------------------------- MODULE MCRetrieval -----------------------------
(* Four memories; content order is not ID order, 3 and 4 have the same      *)
(* content.  The query matches 1 and 2, or nothing.  Memories 5 and 6 are   *)
(* of bundles that may be applied; the query matches 5 too.                 *)
EXTENDS Retrieval

Contents == <<2, 1, 3, 3, 1, 3>>
TwoKinds == <<"a", "b", "b", "b", "b", "b">>
OneImportant == <<0, 0, 0, 1, 0, 0>>
WeightThresholds == [fine |-> 40, coarse |-> 20]
Half == 20

Rel(s, t, n) == [source |-> s, target |-> t, name |-> n]
Pair(a, b) == [from |-> a, to |-> b]

ItemOf(n, k, s, a, b) == [node |-> n, bundle |-> k, scope |-> s, accepted |-> a, bytes |-> b]
NewItem(n, k) == ItemOf(n, k, TRUE, TRUE, 1)

(* 2 again, now superseding 1; 1 and 4 again, in conflict; and an item that *)
(* contradicts 3.  The first two can only be stored after a rollback.       *)
ThreeBundles ==
  {[key |-> 3, items |-> [e \in {2} |-> NewItem(5, 3)],
    conflicts |-> {}, supersessions |-> {Pair(2, 1)}],
   [key |-> 4, items |-> [e \in {1, 4} |-> NewItem(IF e = 1 THEN 5 ELSE 6, 4)],
    conflicts |-> {Pair(4, 1)}, supersessions |-> {}],
   [key |-> 5, items |-> [e \in {5} |-> NewItem(6, 5)],
    conflicts |-> {Pair(5, 3)}, supersessions |-> {}]}

NoEvidence == [items |-> [n \in {} |-> NoItem], conflicts |-> {}, supersessions |-> {}]
NoFeedback == [r \in {} |-> {}]

Case(c, w, f, l) == [call |-> c, weight |-> w, feedback |-> f, ledger |-> l]

Wide ==
  [kind |-> "activate", matches |-> <<2, 1, 0, 0, 1, 0>>, filter |-> {"a", "b"}, hops |-> 3, seedLimit |-> 2, limit |-> 4,
   maxNodes |-> 9, maxEdges |-> 90, includeSeeds |-> TRUE, scanLimit |-> 9, decay |-> FALSE,
   resultLimit |-> 9, candidateScan |-> 9, maxBytes |-> 9, minScore |-> 0, writes |-> 0]

Graphs(R, W) == UNION {[S -> W] : S \in SUBSET R}

(* Two ways to 3 with the same number of hops, a cycle, parallel relations. *)
Diamond == {Rel(1, 3, 1), Rel(1, 4, 1), Rel(3, 4, 1), Rel(4, 3, 1), Rel(3, 2, 1)}
Web == Diamond \cup {Rel(2, 1, 1), Rel(2, 3, 1), Rel(1, 3, 2)}

Searches ==
  {Case([Wide EXCEPT !.kind = "search", !.filter = k, !.limit = l],
        [r \in {} |-> 0], NoFeedback, NoEvidence) :
     k \in {{"a"}, {"b"}, {"a", "b"}}, l \in 1 .. 2}

Walks ==
  {Case([Wide EXCEPT !.includeSeeds = b], w, NoFeedback, NoEvidence) :
     b \in BOOLEAN, w \in Graphs(Diamond \cup {Rel(2, 4, 1)}, {0, 20, 40})}

(* Every budget at, below and above what the walk needs. *)
Tight ==
  {Case([Wide EXCEPT !.kind = k, !.hops = h, !.seedLimit = s, !.maxNodes = n, !.maxEdges = e],
        [r \in Web |-> IF r.target = 3 THEN 20 ELSE 40], NoFeedback, NoEvidence) :
     k \in {"activate", "feedback"}, h \in 0 .. 2, s \in 1 .. 2, n \in 1 .. 4, e \in 1 .. 5}

Event(k, a) == [kind |-> k, age |-> a]
WithFeedback ==
  {Case([Wide EXCEPT !.kind = "feedback", !.decay = d, !.scanLimit = l],
        [r \in Web |-> IF r.source = 1 THEN 20 ELSE 40],
        [r \in S |-> es], NoEvidence) :
     d \in BOOLEAN, l \in {1, 9}, S \in SUBSET {Rel(1, 3, 1), Rel(1, 4, 1), Rel(3, 4, 1)},
     es \in {{Event("positive", "old")}, {Event("negative", "new"), Event("negative", "future")},
             {Event("positive", "new"), Event("negative", "old")}}}

Routed ==
  {Case([Wide EXCEPT !.kind = "community", !.scanLimit = l], w, NoFeedback, NoEvidence) :
     l \in {1, 9},
     w \in {f \in Graphs({Rel(1, 3, 1), Rel(1, 4, 1), Rel(3, 1, 1), Rel(4, 3, 1)}, {20, 40}) :
              Cardinality(DOMAIN f) >= 2}}

(* Evidence n at node n with its projected relations, as bundles leave it,  *)
(* and ordinary relations.                                                  *)
WithProjection(c, s, R, w) ==
  [r \in {Rel(p.from, p.to, ConflictsWith) : p \in c}
         \cup {Rel(p.from, p.to, Supersedes) : p \in s} \cup R |->
     IF r \in R THEN w ELSE Unit]
Pairs == {Pair(1, 2), Pair(3, 4), Pair(4, 1)}
Within(pairs, f) == {p \in pairs : {p.from, p.to} \subseteq DOMAIN f}
Contexts ==
  {Case([Wide EXCEPT !.kind = "context", !.limit = 2, !.resultLimit = k[1], !.candidateScan = k[2],
                     !.maxBytes = k[3], !.minScore = k[4]],
        WithProjection(Within(c, f), Within(s, f), {Rel(1, 3, 3), Rel(2, 4, 3)}, Half), NoFeedback,
        [items |-> f, conflicts |-> Within(c, f), supersessions |-> Within(s, f)]) :
     k \in {<<9, 9, 9, 0>>, <<2, 9, 9, 0>>, <<9, 3, 9, 0>>, <<9, 4, 9, 0>>, <<9, 9, 5, 0>>, <<9, 9, 9, Scale>>},
     c \in SUBSET Pairs, s \in SUBSET Pairs,
     f \in {[n \in 1 .. 4 |-> ItemOf(n, 1, TRUE, TRUE, n)],
            [n \in 1 .. 4 |-> ItemOf(n, 1, n # 1, n # 2, 1)],
            [n \in {1, 3, 4} |-> ItemOf(n, 1, TRUE, TRUE, n)]}}

(* Another connection rolls the bundle of 1 and 4 or that of 2 and 3 back,  *)
(* applies a new one, or sets a weight.                                     *)
Raced ==
  {Case([Wide EXCEPT !.kind = k, !.hops = 2, !.writes = IF k = "context" THEN 3 ELSE 2],
        WithProjection(c, s, {Rel(1, 4, 3), Rel(2, 3, 3)}, Unit),
        [r \in f |-> {Event("positive", "new")}],
        [items |-> [n \in 1 .. 4 |-> ItemOf(n, IF n \in {1, 4} THEN 1 ELSE 2, TRUE, TRUE, n)],
         conflicts |-> c, supersessions |-> s]) :
     k \in CallKinds, c \in SUBSET {Pair(1, 4)}, s \in SUBSET {Pair(4, 1)},
     f \in SUBSET {Rel(2, 3, 3)}}

(* Two seeds reach 3, and 4 lies behind it; the lower seed may score less. *)
ZeroWeights ==
  {Case([Wide EXCEPT !.kind = k, !.matches = m], w, NoFeedback, NoEvidence) :
     k \in {"activate", "feedback", "community"}, m \in {<<2, 1, 0, 0, 0, 0>>, <<1, 2, 0, 0, 0, 0>>},
     w \in [{Rel(1, 3, 1), Rel(2, 3, 1), Rel(3, 4, 1)} -> {0, 40}]}

Unmatched ==
  {Case([Wide EXCEPT !.kind = k, !.matches = [n \in MemoryNodes |-> 0]],
        [r \in {Rel(1, 4, 1)} |-> 40], NoFeedback, NoEvidence) : k \in CallKinds}

AllCases ==
  Unmatched \cup Searches \cup Walks \cup ZeroWeights \cup Tight \cup WithFeedback \cup Routed \cup Contexts \cup Raced
=============================================================================
