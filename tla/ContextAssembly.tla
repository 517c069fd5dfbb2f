--------------------------- MODULE ContextAssembly ---------------------------
(***************************************************************************)
(* assemble_evidence_context of memory3d-core: the ranked candidates of an *)
(* activation are inspected in order, each with several statements of its  *)
(* own, until the candidates end or a limit is reached.                    *)
(*                                                                         *)
(* A candidate is a node.  From its evidence ID on, everything is read by  *)
(* that ID, which may meanwhile have been rolled back and stored again with*)
(* another node and other references.                                      *)
(***************************************************************************)
EXTENDS Activation

VARIABLES
  scanned,     \* candidate_work
  skipped,     \* ordinary_candidates_skipped
  candidate,   \* the node inspected, its evidence ID, and what was read for that ID
  conflicted,  \* what visible_conflicts has returned for it
  admitted, excluded,
  bytes,       \* estimated_text_bytes
  stopReason

package == <<scanned, skipped, candidate, conflicted, admitted, excluded, bytes, stopReason>>
contextVars == <<activationVars, package>>

NoItem == [node |-> 0, bundle |-> 0, scope |-> FALSE, accepted |-> FALSE, bytes |-> 0]
Candidate(result, e) ==
  [node |-> result.node, score |-> result.score, id |-> e, item |-> NoItem, rivals |-> {}]
NoCandidate == Candidate([node |-> 0, score |-> 0], 0)

ContextInit ==
  /\ ActivationInit
  /\ scanned = 0 /\ skipped = 0
  /\ candidate = NoCandidate /\ conflicted = {}
  /\ admitted = <<>> /\ excluded = <<>>
  /\ bytes = 0
  /\ stopReason = "none"

-----------------------------------------------------------------------------
(* Mutant: only the conflicts an item states itself count.                 *)
OwnConflicts(e) == {p.to : p \in {q \in ledger.conflicts : q.from = e}}

(* reference_targets *)
Targets(pairs, e) == {p.to : p \in {q \in pairs : q.from = e}}

Sources(pairs, e) == {p.from : p \in {q \in pairs : q.to = e}}

VisibleConflicts(e) == Targets(ledger.conflicts, e) \cup Sources(ledger.conflicts, e)

SupersededBy(e) == Sources(ledger.supersessions, e)

(* Mutant: the scan sees the results after the limit of the activation.    *)
TruncatedCandidates == Limited(Limited(results, call.limit), call.candidateScan)

RankedCandidates == Limited(results, call.candidateScan)

(* What is read of a candidate, statement by statement. *)
Reading(from) ==
  /\ phase = from
  /\ UNCHANGED <<stored, began, communities, call, hits, seeds, stats, walk, results>>

Skip == skipped' = skipped + 1 /\ phase' = "candidate"

EvidenceAt(n) == {e \in DOMAIN ledger.items : ledger.items[e].node = n}

(* get_evidence_by_node, its own query: the evidence ID of the node. *)
NextCandidate ==
  /\ Reading("candidate")
  /\ scanned < Len(RankedCandidates)
  /\ scanned' = scanned + 1
  /\ LET result == RankedCandidates[scanned + 1] IN
     \/ \E e \in EvidenceAt(result.node) :
          candidate' = Candidate(result, e) /\ phase' = "item" /\ UNCHANGED skipped
     \/ EvidenceAt(result.node) = {} /\ Skip /\ UNCHANGED candidate
  /\ UNCHANGED <<reply, conflicted, admitted, excluded, bytes, stopReason>>

(* get_evidence_item: an item that is gone by now counts as an ordinary one. *)
ReadItem ==
  /\ Reading("item")
  /\ IF candidate.id \in DOMAIN ledger.items
     THEN /\ candidate' = [candidate EXCEPT !.item = ledger.items[candidate.id]]
          /\ phase' = "decode"
          /\ UNCHANGED skipped
     ELSE Skip /\ UNCHANGED candidate
  /\ UNCHANGED <<reply, scanned, conflicted, admitted, excluded, bytes, stopReason>>

(* decode_stored_evidence: the node of the row, then the references of the  *)
(* ID, one table after the other.                                           *)
DecodeItem ==
  /\ Reading("decode")
  /\ IF candidate.item.node \in nodes
     THEN phase' = "conflicts_with" /\ UNCHANGED reply
     ELSE Answer("InvalidDatabase")
  /\ UNCHANGED <<scanned, skipped, candidate, conflicted, admitted, excluded, bytes, stopReason>>

ReadReferences(pairs) ==
  /\ candidate' = [candidate EXCEPT !.rivals = @ \cup Targets(pairs, candidate.id)]
  /\ UNCHANGED <<reply, scanned, skipped, conflicted, admitted, excluded, bytes, stopReason>>

ReadConflictsWith ==
  /\ Reading("conflicts_with")
  /\ ReadReferences(ledger.conflicts)
  /\ phase' = "supersedes"

ReadSupersedes ==
  /\ Reading("supersedes")
  /\ ReadReferences(ledger.supersessions)
  /\ phase' = "conflicts"

ReadConflicts ==
  /\ Reading("conflicts")
  /\ conflicted' = VisibleConflicts(candidate.id)
  /\ phase' = "superseded"
  /\ UNCHANGED <<reply, scanned, skipped, candidate, admitted, excluded, bytes, stopReason>>

(* The first reason that applies. *)
Exclusion(superseded) ==
  LET item == candidate.item
      checks == << [reason |-> "ScopeMismatch", applies |-> ~item.scope],
                   [reason |-> "Conflict",      applies |-> conflicted # {}],
                   [reason |-> "Superseded",    applies |-> superseded # {}],
                   [reason |-> "Lifecycle",     applies |-> ~item.accepted],
                   [reason |-> "LowRelevance",  applies |-> candidate.score < call.minScore],
                   [reason |-> "SizeLimit",     applies |-> bytes + item.bytes > call.maxBytes],
                   [reason |-> "none",          applies |-> TRUE] >>
      first == CHOOSE i \in DOMAIN checks :
                 checks[i].applies /\ \A j \in 1 .. i - 1 : ~checks[j].applies
  IN checks[first].reason

Judge ==
  /\ Reading("superseded")
  /\ LET reason == Exclusion(SupersededBy(candidate.id)) IN
     IF reason = "none"
     THEN /\ admitted' = Append(admitted, candidate)
          /\ bytes' = bytes + candidate.item.bytes
          /\ UNCHANGED excluded
     ELSE /\ excluded' = Append(excluded, [node |-> candidate.node, reason |-> reason])
          /\ UNCHANGED <<admitted, bytes>>
  /\ LET reached == IF Len(admitted') = call.resultLimit THEN "ResultLimit"
                    ELSE IF bytes' = call.maxBytes THEN "ByteLimit" ELSE "none"
     IN /\ stopReason' = reached
        /\ IF reached = "none" THEN phase' = "candidate" /\ UNCHANGED reply
                               ELSE Answer("Context")
  /\ UNCHANGED <<scanned, skipped, candidate, conflicted>>

(* Mutant: a full scan always reports its limit. *)
AlwaysTheLimit == IF scanned = call.candidateScan THEN "ScanLimit" ELSE "Exhausted"

ScanEnd ==
  IF scanned = call.candidateScan /\ Len(results) > scanned THEN "ScanLimit" ELSE "Exhausted"

ScanEnds ==
  /\ Reading("candidate")
  /\ scanned = Len(RankedCandidates)
  /\ stopReason' = ScanEnd
  /\ Answer("Context")
  /\ UNCHANGED <<scanned, skipped, candidate, conflicted, admitted, excluded, bytes>>

ContextStep ==
  \/ NextCandidate \/ ReadItem \/ DecodeItem \/ ReadConflictsWith \/ ReadSupersedes
  \/ ReadConflicts \/ Judge \/ ScanEnds
=============================================================================
