--------------------------- MODULE ProductionProofs ---------------------------
(***************************************************************************)
(* For every threshold, every set of amounts an extraction may report and  *)
(* either match flag: an invoice on the production graph is approved only  *)
(* if its extracted facts justify it, the workflow implements the invoice  *)
(* decision, and the audit trail tells what happened.                      *)
(***************************************************************************)
EXTENDS ExplainedWorkflow, AgentProofs, FiniteSetTheorems, WellFoundedInduction

(* What is known of the document when the graph reaches a node.             *)

Fresh ==
  /\ doc.status = "NEW" /\ doc.failure_codes = "none" /\ doc.provenance = "empty"
  /\ doc.retry_count = 0 /\ doc.amount = 0 /\ doc.has_po = FALSE

Undecided == doc.status \in {"DATA_EXTRACTED", "VALIDATED", "MISSING_DATA"}

Complete == Undecided /\ Extracted /\ doc.has_po = TRUE

WithinThreshold == doc.amount # NaN /\ doc.amount <= Threshold

MatchedPo == doc.po_match = TRUE /\ doc.match_result = "MATCH"

FailedForGood ==
  /\ doc.failure_codes # "none" /\ doc.provenance # "passed" /\ doc.retry_count \in {0, 1}

Reached ==
  \/ pc \in {"n1", "n2", "n3"} /\ Fresh
  \/ /\ pc = "n_critic_retry"
     /\ doc.status = "NEEDS_RETRY" /\ doc.failure_codes = "VERIFIER"
     /\ doc.provenance = "failed" /\ doc.retry_count = 0
  \/ pc \in {"n4", "n_threshold"} /\ Complete
  \/ pc = "n5" /\ Complete /\ WithinThreshold
  \/ /\ pc = "n5_decision" /\ Complete /\ WithinThreshold
     /\ \/ MatchedPo
        \/ doc.po_match = FALSE /\ doc.match_result = "NO_MATCH"
  \/ pc = "n6" /\ Complete /\ WithinThreshold /\ MatchedPo
  \/ pc = "n_no_match" /\ Complete /\ WithinThreshold /\ doc.po_match = FALSE
  \/ pc = "n_escalate" /\ Complete /\ doc.amount # NaN /\ doc.amount > Threshold
  \/ pc = "n_exc_no_route" /\ Complete /\ doc.amount = NaN
  \/ pc = "n_exception" /\ Undecided /\ Extracted /\ doc.has_po = FALSE
  \/ pc = "n_exc_bad_extraction" /\ doc.status = "BAD_EXTRACTION" /\ FailedForGood
  \/ pc = RAISED /\ (Undecided \/ doc.status \in {"NEW", "NEEDS_RETRY"})
  \/ /\ pc \in {"n7", END} /\ doc.status = "APPROVED"
     /\ Extracted /\ doc.has_po = TRUE /\ WithinThreshold /\ MatchedPo
  \/ /\ pc = END
     /\ \/ /\ doc.status = "ESCALATED" /\ Extracted /\ doc.has_po = TRUE
           /\ doc.amount # NaN /\ doc.amount > Threshold
        \/ doc.status = "EXCEPTION_BAD_EXTRACTION" /\ FailedForGood
        \/ doc.status = "EXCEPTION_NO_PO" /\ Extracted /\ doc.has_po = FALSE
        \/ /\ doc.status = "EXCEPTION_MATCH_FAILED" /\ Extracted /\ doc.has_po = TRUE
           /\ WithinThreshold /\ doc.po_match = FALSE
        \/ /\ doc.status = "EXCEPTION_NO_ROUTE" /\ Extracted /\ doc.has_po = TRUE
           /\ doc.amount = NaN

(* The unmodeled log holds the diversion of an amount that is not a number. *)
Logged ==
  unmodeled =
    IF pc = "n_exc_no_route" \/ (pc = END /\ doc.status = "EXCEPTION_NO_ROUTE")
    THEN <<[from |-> "n_threshold", reason |-> "no_route"]>> ELSE <<>>

IInv ==
  /\ TypeOK
  /\ doc.po_match \in BOOLEAN
  /\ Reached
  /\ Logged
  /\ UnverifiedFieldsStayDefault

-----------------------------------------------------------------------------
(* The production nodes, listed.                                            *)
LEMMA NodeSet ==
  ProductionNodes =
    {"n1", "n2", "n3", "n4", "n5", "n6", "n7", "n35", "n_threshold", "n_escalate", "n_reject",
     "n_exception", "n_critic_retry", "n_exc_bad_extraction", "n_exc_unmodeled_gate",
     "n_exc_ambiguous_route", "n_exc_no_route", "n5_decision", "n_no_match"}
BY DEF ProductionNodes, MinedNodes, PatchNodes, StationNodes, NormalizedNodes

(* The intents of the nodes a run reaches.                                  *)
LEMMA IntentTable ==
  /\ Intent["n1"] = "event" /\ Intent["n2"] = "RECEIVE_MESSAGE" /\ Intent["n3"] = "ENTER_RECORD"
  /\ Intent["n4"] = "VALIDATE_FIELDS" /\ Intent["n5"] = "MATCH_3_WAY" /\ Intent["n6"] = "APPROVE"
  /\ Intent["n7"] = "SCHEDULE_PAYMENT" /\ Intent["n_threshold"] = "THRESHOLD_AMOUNT_10K"
  /\ Intent["n_escalate"] = "ESCALATE_TO_DIRECTOR" /\ Intent["n_exception"] = "MANUAL_REVIEW_NO_PO"
  /\ Intent["n_critic_retry"] = "CRITIC_RETRY" /\ Intent["n5_decision"] = "MATCH_DECISION"
  /\ Intent["n_no_match"] = "MANUAL_REVIEW_MATCH_FAILED"
  /\ Intent["n_exc_bad_extraction"] = "ROUTE_FOR_REVIEW" /\ Intent["n_exc_no_route"] = "ROUTE_FOR_REVIEW"
BY OnProductionGraph, NodeSet DEF ProductionIntent, StationNodes

(* The edges of the nodes a run reaches.                                    *)
LEMMA EdgeTable ==
  /\ Outgoing["n1"] = <<Always("n2")>> /\ Outgoing["n2"] = <<Always("n3")>>
  /\ Outgoing["n3"] = EnterRecordEdges /\ Outgoing["n_critic_retry"] = CriticRetryEdges
  /\ Outgoing["n4"] = ValidateEdges /\ Outgoing["n_threshold"] = ThresholdEdges
  /\ Outgoing["n5"] = MatchEdges /\ Outgoing["n5_decision"] = MatchDecisionEdges
  /\ Outgoing["n6"] = ApproveEdges /\ Outgoing["n7"] = SchedulePaymentEdges
  /\ \A n \in {"n_escalate", "n_exception", "n_no_match", "n_exc_bad_extraction", "n_exc_no_route"} :
       Outgoing[n] = <<>>
BY OnProductionGraph, NodeSet DEF ProductionOutgoing

(* The handler of each node a run reaches.                                  *)
LEMMA Handlers ==
  ASSUME NEW n, Step(n)
  PROVE  /\ n \in {"n1", "n2", "n7", "n_threshold", "n5_decision"} => PassThrough(n)
         /\ n = "n3" => EnterRecord(n)
         /\ n = "n_critic_retry" => CriticRetry(n)
         /\ n = "n4" => ValidateFields(n)
         /\ n = "n5" => Match3Way(n)
         /\ n \in {"n6", "n_escalate"} => AssignStatus(n)
         /\ n \in {"n_exception", "n_no_match"} => FlagForReview(n)
         /\ n \in {"n_exc_bad_extraction", "n_exc_no_route"} => RouteForReview(n)
<1>1. /\ DOMAIN SetsStatus = {"APPROVE", "REJECT", "REJECT_INVOICE", "ESCALATE_TO_DIRECTOR", "EXECUTE_PAYMENT"}
      /\ DOMAIN ManualReview = {"MANUAL_REVIEW_NO_PO", "MANUAL_REVIEW_MATCH_FAILED", "MANUAL_REVIEW_UNMODELED_GATE"}
  BY DEF SetsStatus, ManualReview
<1>. QED BY <1>1, HandledBy, IntentTable DEF ActingIntents

(* What committing an update d does to the fields the proofs look at.       *)
LEMMA CommitMoves ==
  ASSUME NEW n \in Nodes, NEW d \in Doc, NEW evs, Commit(n, d, evs)
  PROVE  /\ doc' \in Doc
         /\ doc'.status = d.status /\ doc'.amount = d.amount /\ doc'.has_po = d.has_po
         /\ doc'.po_match = d.po_match /\ doc'.match_result = d.match_result
         /\ doc'.retry_count = d.retry_count /\ doc'.failure_codes = d.failure_codes
         /\ doc'.provenance = d.provenance
         /\ pc' \in Targets(n, doc') /\ debug' = debug
         /\ unmodeled' = IF Diverted(n, doc')
                         THEN Append(unmodeled, [from |-> n, reason |-> Reason(doc', Outgoing[n])])
                         ELSE unmodeled
BY DEF Commit, LogUnmodeled, Doc
(* When an edge written with a constructor is matched.                      *)
LEMMA WhenMatched ==
  ASSUME NEW s, NEW t, NEW atoms
  PROVE  /\ Matched(s, When(t, atoms)) <=> \A a \in atoms : Holds(a, s)
         /\ ~Matched(s, Always(t))
         /\ When(t, atoms).to = t /\ Always(t).to = t
         /\ When(t, atoms).kind = "when" /\ Always(t).kind = "always"
BY DEF Matched, When, Always

(* (In)equality with a literal, on a field that is set.                     *)
LEMMA HoldsIs ==
  ASSUME NEW s, NEW f, NEW v, s[f] # None
  PROVE  /\ Holds(Is(f, v), s) <=> s[f] = v
         /\ Holds(IsNot(f, v), s) <=> s[f] # v
BY DEF Holds, Compare, Is, IsNot

(* An edge guarded by one comparison.                                       *)
LEMMA WhenOne ==
  ASSUME NEW s, NEW t, NEW a
  PROVE  Matched(s, When(t, {a})) <=> Holds(a, s)
BY WhenMatched

(* The same for the literal FALSE.                                          *)
LEMMA HoldsNot ==
  ASSUME NEW s, NEW f, s[f] # None
  PROVE  Holds(Is(f, FALSE), s) <=> s[f] = FALSE
BY HoldsIs, Zenon

(* Where first extraction leads, by status and purchase order.               *)
LEMMA EnterRecordRoute ==
  ASSUME NEW d \in Doc
  PROVE  /\ d.status = "NEEDS_RETRY" => Selection(d, EnterRecordEdges) = {"n_critic_retry"}
         /\ d.status = "BAD_EXTRACTION" => Selection(d, EnterRecordEdges) = {"n_exc_bad_extraction"}
         /\ d.status = "DATA_EXTRACTED" /\ d.has_po = TRUE => Selection(d, EnterRecordEdges) = {"n4"}
         /\ d.status = "DATA_EXTRACTED" /\ d.has_po = FALSE => Selection(d, EnterRecordEdges) = {"n_exception"}
<1>. DEFINE out == EnterRecordEdges
<1>1. DOMAIN out = 1..5
  BY DEF EnterRecordEdges
<1>2. /\ out[1].to = "n_critic_retry" /\ out[2].to = "n_exc_bad_extraction"
      /\ out[3].to = "n4" /\ out[5].to = "n_exception"
  BY WhenMatched DEF EnterRecordEdges
<1>3. ~SameTarget(out)
  BY <1>1, <1>2 DEF SameTarget
<1>4. Fallbacks(out) = {3}
  BY <1>1 DEF EnterRecordEdges, Fallbacks, When, Always
<1>5. d.status # None /\ d.has_po # None /\ d["has_po"] = d.has_po
  BY InputsTyped, NotANumber DEF Doc
<1>6. \A v : /\ Holds(Is("status", v), d) <=> d.status = v
             /\ Holds(IsNot("status", v), d) <=> d.status # v
  BY <1>5, HoldsIs
<1>7. /\ Matched(d, out[1]) <=> d.status = "NEEDS_RETRY"
      /\ Matched(d, out[2]) <=> d.status = "BAD_EXTRACTION"
      /\ ~Matched(d, out[3])
      /\ Matched(d, out[4]) <=> d.status = "MISSING_DATA"
  <2>1. \A t, v : Matched(d, When(t, {Is("status", v)})) <=> d.status = v
    BY <1>6, WhenOne
  <2>. QED BY <2>1, WhenMatched DEF EnterRecordEdges
<1>8. Matched(d, out[5]) <=> /\ d.status # "BAD_EXTRACTION" /\ d.status # "NEEDS_RETRY"
                             /\ d.status # "MISSING_DATA" /\ d.has_po = FALSE
  <2>1. out[5] = When("n_exception", NoPoGuard)
    BY DEF EnterRecordEdges
  <2>2. Matched(d, out[5]) <=> \A a \in NoPoGuard : Holds(a, d)
    BY <2>1, WhenMatched
  <2>3. (\A a \in NoPoGuard : Holds(a, d)) <=>
          /\ Holds(IsNot("status", "BAD_EXTRACTION"), d)
          /\ Holds(IsNot("status", "NEEDS_RETRY"), d)
          /\ Holds(IsNot("status", "MISSING_DATA"), d)
          /\ Holds(Is("has_po", FALSE), d)
    BY Zenon DEF NoPoGuard
  <2>4. \A v : Holds(IsNot("status", v), d) <=> d.status # v
    BY <1>6
  <2>5. Holds(Is("has_po", FALSE), d) <=> d["has_po"] = FALSE
    BY <1>5, HoldsNot, Zenon
  <2>. QED BY <1>5, <2>2, <2>3, <2>4, <2>5, Zenon
<1>. HIDE DEF out
<1>9. Matches(d, out) = {i \in 1..5 : Matched(d, out[i])}
  BY <1>1 DEF Matches
<1>10. CASE d.status = "NEEDS_RETRY"
  <2>1. Matches(d, out) = {1}
    BY <1>7, <1>8, <1>9, <1>10
  <2>. QED BY <2>1, <1>1, <1>2, <1>3, <1>10, OnlyMatch DEF out
<1>11. CASE d.status = "BAD_EXTRACTION"
  <2>1. Matches(d, out) = {2}
    BY <1>7, <1>8, <1>9, <1>11
  <2>. QED BY <2>1, <1>1, <1>2, <1>3, <1>11, OnlyMatch DEF out
<1>12. CASE d.status = "DATA_EXTRACTED" /\ d.has_po = TRUE
  <2>1. Matches(d, out) = {}
    BY <1>7, <1>8, <1>9, <1>12
  <2>. QED BY <2>1, <1>1, <1>2, <1>3, <1>4, <1>12, OnlyFallback DEF out
<1>13. CASE d.status = "DATA_EXTRACTED" /\ d.has_po = FALSE
  <2>1. Matches(d, out) = {5}
    BY <1>7, <1>8, <1>9, <1>13
  <2>. QED BY <2>1, <1>1, <1>2, <1>3, <1>13, OnlyMatch DEF out
<1>. QED BY <1>10, <1>11, <1>12, <1>13 DEF out

(* Where the critic's extraction leads.                                      *)
LEMMA CriticRetryRoute ==
  ASSUME NEW d \in Doc
  PROVE  /\ d.status = "BAD_EXTRACTION" => Selection(d, CriticRetryEdges) = {"n_exc_bad_extraction"}
         /\ d.status = "DATA_EXTRACTED" /\ d.has_po = TRUE => Selection(d, CriticRetryEdges) = {"n4"}
         /\ d.status = "DATA_EXTRACTED" /\ d.has_po = FALSE => Selection(d, CriticRetryEdges) = {"n_exception"}
<1>. DEFINE out == CriticRetryEdges
<1>1. DOMAIN out = 1..3
  BY DEF CriticRetryEdges
<1>2. out[1].to = "n_exc_bad_extraction" /\ out[2].to = "n_exception" /\ out[3].to = "n4"
  BY WhenMatched DEF CriticRetryEdges
<1>3. ~SameTarget(out)
  BY <1>1, <1>2 DEF SameTarget
<1>4. Fallbacks(out) = {3}
  BY <1>1 DEF CriticRetryEdges, Fallbacks, When, Always
<1>5. d.status # None /\ d.has_po # None /\ d["has_po"] = d.has_po
  BY InputsTyped, NotANumber DEF Doc
<1>6. Matched(d, out[1]) <=> d.status = "BAD_EXTRACTION"
  BY <1>5, HoldsIs, WhenOne DEF CriticRetryEdges
<1>7. Matched(d, out[2]) <=> d.status # "BAD_EXTRACTION" /\ d.has_po = FALSE
  <2>1. Matched(d, out[2]) <=>
          Holds(IsNot("status", "BAD_EXTRACTION"), d) /\ Holds(Is("has_po", FALSE), d)
    <3>1. out[2] = When("n_exception", NoPoAfterRetryGuard)
      BY DEF CriticRetryEdges
    <3>2. Matched(d, out[2]) <=> \A a \in NoPoAfterRetryGuard : Holds(a, d)
      BY <3>1, WhenMatched
    <3>. QED BY <3>2, Zenon DEF NoPoAfterRetryGuard
  <2>2. Holds(IsNot("status", "BAD_EXTRACTION"), d) <=> d.status # "BAD_EXTRACTION"
    BY <1>5, HoldsIs
  <2>3. Holds(Is("has_po", FALSE), d) <=> d["has_po"] = FALSE
    BY <1>5, HoldsNot, Zenon
  <2>. QED BY <1>5, <2>1, <2>2, <2>3, Zenon
<1>8. ~Matched(d, out[3])
  BY WhenMatched DEF CriticRetryEdges
<1>. HIDE DEF out
<1>9. Matches(d, out) = {i \in 1..3 : Matched(d, out[i])}
  BY <1>1 DEF Matches
<1>10. CASE d.status = "BAD_EXTRACTION"
  <2>1. Matches(d, out) = {1}
    BY <1>6, <1>7, <1>8, <1>9, <1>10
  <2>. QED BY <2>1, <1>1, <1>2, <1>3, <1>10, OnlyMatch DEF out
<1>11. CASE d.status = "DATA_EXTRACTED" /\ d.has_po = TRUE
  <2>1. Matches(d, out) = {}
    BY <1>6, <1>7, <1>8, <1>9, <1>11
  <2>. QED BY <2>1, <1>1, <1>2, <1>3, <1>4, <1>11, OnlyFallback DEF out
<1>12. CASE d.status = "DATA_EXTRACTED" /\ d.has_po = FALSE
  <2>1. Matches(d, out) = {2}
    BY <1>6, <1>7, <1>8, <1>9, <1>12
  <2>. QED BY <2>1, <1>1, <1>2, <1>3, <1>12, OnlyMatch DEF out
<1>. QED BY <1>10, <1>11, <1>12 DEF out

(* The threshold gateway: a NaN amount satisfies neither of its conditions.  *)
LEMMA ThresholdRoute ==
  ASSUME NEW d \in Doc
  PROVE  /\ d.amount = NaN => /\ Selection(d, ThresholdEdges) = {}
                              /\ Reason(d, ThresholdEdges) = "no_route"
         /\ d.amount # NaN /\ d.amount > Threshold => Selection(d, ThresholdEdges) = {"n_escalate"}
         /\ d.amount # NaN /\ d.amount <= Threshold => Selection(d, ThresholdEdges) = {"n5"}
<1>. DEFINE out == ThresholdEdges
<1>1. DOMAIN out = 1..2 /\ Len(out) = 2
  BY DEF ThresholdEdges
<1>2. out[1].to = "n_escalate" /\ out[2].to = "n5"
  BY WhenMatched DEF ThresholdEdges
<1>3. ~SameTarget(out)
  BY <1>1, <1>2 DEF SameTarget
<1>4. Fallbacks(out) = {}
  BY <1>1 DEF ThresholdEdges, Fallbacks, When
<1>5. d.amount # None /\ (d.amount = NaN \/ d.amount \in Nat)
  <2>1. d.amount = NaN \/ d.amount \in Nat
    BY InputsTyped DEF Doc, Values
  <2>. QED BY <2>1, NotANumber
<1>6. Matched(d, out[1]) <=> d.amount # NaN /\ d.amount > Threshold
  <2>1. Matched(d, out[1]) <=> Holds(Above("amount", Threshold), d)
    BY WhenOne DEF ThresholdEdges
  <2>. QED BY <2>1, <1>5 DEF Holds, Compare, Above
<1>7. Matched(d, out[2]) <=> d.amount # NaN /\ d.amount <= Threshold
  <2>1. Matched(d, out[2]) <=> Holds(AtMost("amount", Threshold), d)
    BY WhenOne DEF ThresholdEdges
  <2>. QED BY <2>1, <1>5 DEF Holds, Compare, AtMost
<1>. HIDE DEF out
<1>8. Matches(d, out) = {i \in 1..2 : Matched(d, out[i])}
  BY <1>1 DEF Matches
<1>9. CASE d.amount = NaN
  <2>1. Matches(d, out) = {}
    BY <1>6, <1>7, <1>8, <1>9
  <2>. QED BY <2>1, <1>1, <1>3, <1>4, <1>9, NoEdge DEF out
<1>10. CASE d.amount # NaN /\ d.amount > Threshold
  <2>1. Matches(d, out) = {1}
    BY <1>5, <1>6, <1>7, <1>8, <1>10, ThresholdIsAmount
  <2>. QED BY <2>1, <1>1, <1>2, <1>3, <1>5, <1>10, ThresholdIsAmount, OnlyMatch DEF out
<1>11. CASE d.amount # NaN /\ d.amount <= Threshold
  <2>1. Matches(d, out) = {2}
    BY <1>5, <1>6, <1>7, <1>8, <1>11, ThresholdIsAmount
  <2>. QED BY <2>1, <1>1, <1>2, <1>3, <1>5, <1>11, ThresholdIsAmount, OnlyMatch DEF out
<1>. QED BY <1>9, <1>10, <1>11 DEF out

(* Where the match decision leads.                                          *)
LEMMA MatchDecisionRoute ==
  ASSUME NEW d \in Doc
  PROVE  /\ d.match_result = "MATCH" => Selection(d, MatchDecisionEdges) = {"n6"}
         /\ d.match_result = "NO_MATCH" => Selection(d, MatchDecisionEdges) = {"n_no_match"}
<1>. DEFINE out == MatchDecisionEdges
<1>1. DOMAIN out = 1..3
  BY DEF MatchDecisionEdges
<1>2. out[1].to = "n6" /\ out[2].to = "n_no_match" /\ out[3].to = "n_exc_unmodeled_gate"
  BY WhenMatched DEF MatchDecisionEdges
<1>3. ~SameTarget(out)
  BY <1>1, <1>2 DEF SameTarget
<1>4. d.match_result # None
  BY InputsTyped DEF Doc, MatchResults
<1>5. /\ Matched(d, out[1]) <=> d.match_result = "MATCH"
      /\ Matched(d, out[2]) <=> d.match_result = "NO_MATCH"
      /\ Matched(d, out[3]) <=> d.match_result = "UNKNOWN"
  BY <1>4, HoldsIs, WhenOne DEF MatchDecisionEdges
<1>. HIDE DEF out
<1>6. Matches(d, out) = {i \in 1..3 : Matched(d, out[i])}
  BY <1>1 DEF Matches
<1>7. CASE d.match_result = "MATCH"
  <2>1. Matches(d, out) = {1}
    BY <1>5, <1>6, <1>7
  <2>. QED BY <2>1, <1>1, <1>2, <1>3, <1>7, OnlyMatch DEF out
<1>8. CASE d.match_result = "NO_MATCH"
  <2>1. Matches(d, out) = {2}
    BY <1>5, <1>6, <1>8
  <2>. QED BY <2>1, <1>1, <1>2, <1>3, <1>8, OnlyMatch DEF out
<1>. QED BY <1>7, <1>8 DEF out

-----------------------------------------------------------------------------
(* Where a committed handler call goes.                                      *)

LEMMA Walk ==
  ASSUME NEW n \in Nodes, NEW d \in Doc, NEW evs, Commit(n, d, evs),
         NEW t, Selection(doc', Outgoing[n]) = {t}, Outgoing[n] # <<>>, n # "n35"
  PROVE  pc' = Hop(t) /\ unmodeled' = unmodeled
<1>1. ~Leaves(n) /\ ~Diverted(n, doc')
  BY OnProductionGraph DEF Leaves, Diverted
<1>2. Targets(n, doc') = {Hop(t)}
  BY <1>1 DEF Targets
<1>. QED BY <1>1, <1>2, CommitMoves

(* A node with one unconditional edge is left along it.                     *)
LEMMA WalkLone ==
  ASSUME NEW n \in Nodes, NEW d \in Doc, NEW evs, Commit(n, d, evs),
         NEW t, Outgoing[n] = <<Always(t)>>, n # "n35"
  PROVE  pc' = Hop(t) /\ unmodeled' = unmodeled
<1>1. DOMAIN Outgoing[n] = {1} /\ Outgoing[n][1].to = t /\ Outgoing[n] # <<>>
  BY DEF Always
<1>2. Selection(doc', Outgoing[n]) = {t}
  BY <1>1, LoneEdge
<1>. QED BY <1>1, <1>2, Walk

(* A node without edges ends the run.                                       *)
LEMMA Stop ==
  ASSUME NEW n \in Nodes, NEW d \in Doc, NEW evs, Commit(n, d, evs), Outgoing[n] = <<>>
  PROVE  pc' = END /\ unmodeled' = unmodeled
<1>1. Leaves(n) /\ ~Diverted(n, doc')
  BY DEF Leaves, Diverted
<1>2. Targets(n, doc') = {END}
  BY <1>1 DEF Targets
<1>. QED BY <1>1, <1>2, CommitMoves

(* Only n35 is replaced by END.                                             *)
LEMMA Hops ==
  /\ \A t \in ProductionNodes : t # "n35" => Hop(t) = t
  /\ Hop("n35") = END
BY OnProductionGraph, NodeSet DEF Hop

(* The station of a run nothing routes.                                     *)
LEMMA NoRouteSink == Sink("no_route") = "n_exc_no_route"
BY OnProductionGraph, Hops, NodeSet DEF Sink, StationKey, ProductionStationMap

(* The three ways an extraction can end.                                     *)
LEMMA ExtractionOutcome ==
  ASSUME NEW d \in Doc, NEW failed, NEW r \in Extractions(d, failed)
  PROVE  /\ r.retry_count = d.retry_count /\ r.po_match = d.po_match
         /\ \/ /\ r.status = "BAD_EXTRACTION" /\ r.failure_codes # "none"
               /\ r.provenance = "empty" /\ r.amount = d.amount /\ r.has_po = d.has_po
            \/ /\ r.status = "DATA_EXTRACTED" /\ r.failure_codes = "none"
               /\ r.provenance = "passed" /\ r.has_po \in BOOLEAN
            \/ /\ r.status = failed /\ r.failure_codes = "VERIFIER" /\ r.provenance = "failed"
               /\ ~debug => r.amount = d.amount /\ r.has_po = d.has_po
<1>1. CASE \E family \in {"LLM_ERROR", "REJECTED"} : r = Refused(d, family)
  BY <1>1 DEF Refused, Doc
<1>2. CASE \E a \in Values, p \in BOOLEAN : r = Verified(d, a, p)
  BY <1>2 DEF Verified, Doc
<1>3. CASE \E f \in Leftover(d) : r = Unverified(d, failed, f.amount, f.has_po)
  <2>1. PICK f \in Leftover(d) : r = Unverified(d, failed, f.amount, f.has_po)
    BY <1>3
  <2>2. ~debug => f.amount = d.amount /\ f.has_po = d.has_po
    BY DEF Leftover
  <2>. HIDE DEF Leftover
  <2>. QED BY <2>1, <2>2 DEF Unverified, Doc
<1>. QED BY <1>1, <1>2, <1>3 DEF Extractions
-----------------------------------------------------------------------------
(* One step at each node.                                                    *)

USE DEF RAISED, END

(* The start event and the receive task only log.                            *)
LEMMA StepToExtraction ==
  ASSUME IInv, NEW n \in {"n1", "n2"}, Step(n)
  PROVE  IInv'
<1>1. pc = n /\ n \in Nodes /\ doc \in Doc /\ TypeOK'
  BY HandledBy, StepTyped, OnProductionGraph, NodeSet DEF IInv, TypeOK
<1>2. Commit(n, doc, DecisionEvents(n))
  BY Handlers DEF PassThrough
<1>3. Fresh /\ unmodeled = <<>>
  BY <1>1 DEF IInv, Reached, Logged
<1>4. pc' \in {"n2", "n3"} /\ unmodeled' = unmodeled
  BY <1>1, <1>2, WalkLone, EdgeTable, Hops, NodeSet
<1>. QED BY <1>1, <1>2, <1>3, <1>4, CommitMoves
         DEF IInv, Reached, Fresh, Logged, UnverifiedFieldsStayDefault

(* First extraction.                                                        *)
LEMMA EnterRecordStep ==
  ASSUME IInv, Step("n3")
  PROVE  IInv'
<1>1. pc = "n3" /\ "n3" \in Nodes /\ doc \in Doc /\ TypeOK'
  BY HandledBy, StepTyped, OnProductionGraph, NodeSet DEF IInv, TypeOK
<1>2. Fresh /\ unmodeled = <<>>
  BY <1>1 DEF IInv, Reached, Logged
<1>3. CASE Raise
  BY <1>1, <1>2, <1>3 DEF Raise, IInv, Reached, Fresh, Logged, UnverifiedFieldsStayDefault
<1>4. ASSUME NEW d \in Extractions(doc, "NEEDS_RETRY"),
             Commit("n3", d, ExtractionEvents("n3", "extraction", d))
      PROVE  IInv'
  <2>1. d \in Doc
    BY <1>1, ExtractionsTyped
  <2>2. /\ doc'.status = d.status /\ doc'.amount = d.amount /\ doc'.has_po = d.has_po
        /\ doc'.po_match = d.po_match /\ doc'.retry_count = d.retry_count
        /\ doc'.failure_codes = d.failure_codes /\ doc'.provenance = d.provenance
        /\ debug' = debug /\ doc' \in Doc
    BY <2>1, <1>1, <1>4, CommitMoves
  <2>3. \A t \in ProductionNodes \ {"n35"} :
          Selection(doc', Outgoing["n3"]) = {t} => pc' = t /\ unmodeled' = unmodeled
    <3>1. Outgoing["n3"] # <<>>
      BY EdgeTable DEF EnterRecordEdges
    <3>. QED BY <3>1, <2>1, <1>1, <1>4, Walk, Hops
  <2>4. /\ doc'.status = "NEEDS_RETRY" => pc' = "n_critic_retry"
        /\ doc'.status = "BAD_EXTRACTION" => pc' = "n_exc_bad_extraction"
        /\ doc'.status = "DATA_EXTRACTED" /\ doc'.has_po = TRUE => pc' = "n4"
        /\ doc'.status = "DATA_EXTRACTED" /\ doc'.has_po = FALSE => pc' = "n_exception"
    BY <2>2, <2>3, EnterRecordRoute, EdgeTable, NodeSet
  <2>5. doc.retry_count = 0 /\ doc.amount = 0 /\ doc.has_po = FALSE /\ doc.po_match \in BOOLEAN
    BY <1>2 DEF Fresh, IInv
  <2>6. /\ doc'.retry_count = 0 /\ doc'.po_match \in BOOLEAN
        /\ \/ /\ doc'.status = "BAD_EXTRACTION" /\ doc'.failure_codes # "none"
              /\ doc'.provenance = "empty" /\ doc'.amount = 0 /\ doc'.has_po = FALSE
           \/ /\ doc'.status = "DATA_EXTRACTED" /\ doc'.failure_codes = "none"
              /\ doc'.provenance = "passed" /\ doc'.has_po \in BOOLEAN
           \/ /\ doc'.status = "NEEDS_RETRY" /\ doc'.failure_codes = "VERIFIER"
              /\ doc'.provenance = "failed"
              /\ ~debug => doc'.amount = 0 /\ doc'.has_po = FALSE
    BY <1>1, <1>4, <2>2, <2>5, ExtractionOutcome
  <2>7. unmodeled' = unmodeled
    BY <2>2, <2>3, <2>6, EnterRecordRoute, EdgeTable, NodeSet
  <2>. QED BY <1>1, <1>2, <2>2, <2>4, <2>6, <2>7
           DEF IInv, Reached, FailedForGood, Complete, Undecided, Extracted, Logged,
               UnverifiedFieldsStayDefault
<1>. QED BY <1>2, <1>3, <1>4, Handlers DEF EnterRecord, Fresh
(* The critic's extraction.                                                 *)
LEMMA CriticRetryStep ==
  ASSUME IInv, Step("n_critic_retry")
  PROVE  IInv'
<1>. DEFINE n == "n_critic_retry"
            retried == [doc EXCEPT !.retry_count = @ + 1]
<1>1. pc = n /\ n \in Nodes /\ doc \in Doc /\ TypeOK'
  BY HandledBy, StepTyped, OnProductionGraph, NodeSet DEF IInv, TypeOK
<1>2. /\ unmodeled = <<>> /\ doc.status = "NEEDS_RETRY" /\ doc.retry_count = 0
      /\ doc.provenance = "failed" /\ doc.po_match \in BOOLEAN
      /\ ~debug => doc.amount = 0 /\ doc.has_po = FALSE
  BY <1>1 DEF IInv, Reached, Logged, UnverifiedFieldsStayDefault
<1>3. CASE Raise
  BY <1>1, <1>2, <1>3 DEF Raise, IInv, Reached, Logged, UnverifiedFieldsStayDefault
<1>4. ASSUME NEW d \in Extractions(retried, "BAD_EXTRACTION"),
             Commit(n, d, ExtractionEvents(n, "critic_retry_executed", d))
      PROVE  IInv'
  <2>1. /\ retried \in Doc /\ retried.retry_count = 1 /\ retried.po_match = doc.po_match
        /\ retried.amount = doc.amount /\ retried.has_po = doc.has_po
    <3>1. doc.retry_count \in Nat /\ doc.retry_count + 1 = 1 /\ doc.retry_count + 1 \in Nat
      BY <1>2
    <3>2. retried \in Doc
      BY <1>1, <3>1 DEF Doc
    <3>3. retried.retry_count = 1
      BY <1>1, <3>1 DEF Doc
    <3>. QED BY <1>1, <3>2, <3>3 DEF Doc
  <2>. HIDE DEF retried
  <2>2. d \in Doc
    BY <2>1, ExtractionsTyped
  <2>3. /\ doc'.status = d.status /\ doc'.amount = d.amount /\ doc'.has_po = d.has_po
        /\ doc'.po_match = d.po_match /\ doc'.retry_count = d.retry_count
        /\ doc'.failure_codes = d.failure_codes /\ doc'.provenance = d.provenance
        /\ debug' = debug /\ doc' \in Doc
    BY <2>2, <1>1, <1>4, CommitMoves
  <2>4. \A t \in ProductionNodes \ {"n35"} :
          Selection(doc', Outgoing[n]) = {t} => pc' = t /\ unmodeled' = unmodeled
    <3>1. Outgoing[n] # <<>>
      BY EdgeTable DEF CriticRetryEdges
    <3>. QED BY <3>1, <2>2, <1>1, <1>4, Walk, Hops
  <2>5. /\ doc'.status = "BAD_EXTRACTION" => pc' = "n_exc_bad_extraction"
        /\ doc'.status = "DATA_EXTRACTED" /\ doc'.has_po = TRUE => pc' = "n4"
        /\ doc'.status = "DATA_EXTRACTED" /\ doc'.has_po = FALSE => pc' = "n_exception"
    BY <2>3, <2>4, CriticRetryRoute, EdgeTable, NodeSet
  <2>6. /\ doc'.retry_count = 1 /\ doc'.po_match \in BOOLEAN
        /\ \/ /\ doc'.status = "BAD_EXTRACTION" /\ doc'.failure_codes # "none"
              /\ doc'.provenance # "passed"
              /\ ~debug => doc'.amount = 0 /\ doc'.has_po = FALSE
           \/ /\ doc'.status = "DATA_EXTRACTED" /\ doc'.failure_codes = "none"
              /\ doc'.provenance = "passed" /\ doc'.has_po \in BOOLEAN
    BY <1>2, <1>4, <2>1, <2>3, ExtractionOutcome
  <2>7. unmodeled' = unmodeled
    BY <2>3, <2>4, <2>6, CriticRetryRoute, EdgeTable, NodeSet
  <2>. QED BY <1>1, <1>2, <2>3, <2>5, <2>6, <2>7
           DEF IInv, Reached, FailedForGood, Complete, Undecided, Extracted, Logged,
               UnverifiedFieldsStayDefault
<1>. QED BY <1>3, <1>4, Handlers DEF CriticRetry

(* The validator.                                                           *)
LEMMA ValidateFieldsStep ==
  ASSUME IInv, Step("n4")
  PROVE  IInv'
<1>1. pc = "n4" /\ "n4" \in Nodes /\ doc \in Doc /\ TypeOK'
  BY HandledBy, StepTyped, OnProductionGraph, NodeSet DEF IInv, TypeOK
<1>2. Complete /\ unmodeled = <<>>
  BY <1>1 DEF IInv, Reached, Logged
<1>3. CASE Raise
  BY <1>1, <1>2, <1>3 DEF Raise, IInv, Reached, Logged, Complete, Undecided, Extracted,
                          UnverifiedFieldsStayDefault
<1>4. ASSUME NEW s \in {"VALIDATED", "MISSING_DATA", doc.status},
             Commit("n4", [doc EXCEPT !.status = s], <<>>)
      PROVE  IInv'
  <2>. DEFINE d == [doc EXCEPT !.status = s]
  <2>1. s \in {"DATA_EXTRACTED", "VALIDATED", "MISSING_DATA"}
    BY <1>2 DEF Complete, Undecided
  <2>2. /\ d \in Doc /\ d.status = s /\ d.amount = doc.amount /\ d.has_po = doc.has_po
        /\ d.po_match = doc.po_match /\ d.failure_codes = doc.failure_codes
        /\ d.provenance = doc.provenance
    BY <1>1, <2>1 DEF Doc, Statuses
  <2>. HIDE DEF d
  <2>3. Commit("n4", d, <<>>)
    BY <1>4 DEF d
  <2>4. pc' = "n_threshold" /\ unmodeled' = unmodeled
    BY <1>1, <2>2, <2>3, WalkLone, EdgeTable, Hops, NodeSet DEF ValidateEdges
  <2>. QED BY <1>1, <1>2, <2>1, <2>2, <2>3, <2>4, CommitMoves
           DEF IInv, Reached, Complete, Undecided, Extracted, Logged, UnverifiedFieldsStayDefault
<1>. QED BY <1>3, <1>4, Handlers DEF ValidateFields

(* The threshold gateway.                                                   *)
LEMMA ThresholdStep ==
  ASSUME IInv, Step("n_threshold")
  PROVE  IInv'
<1>. DEFINE n == "n_threshold"
<1>1. pc = n /\ n \in Nodes /\ doc \in Doc /\ TypeOK'
  BY HandledBy, StepTyped, OnProductionGraph, NodeSet DEF IInv, TypeOK
<1>2. Commit(n, doc, DecisionEvents(n))
  BY Handlers DEF PassThrough
<1>3. Complete /\ unmodeled = <<>>
  BY <1>1 DEF IInv, Reached, Logged
<1>4. /\ doc' \in Doc /\ doc'.status = doc.status /\ doc'.amount = doc.amount
      /\ doc'.has_po = doc.has_po /\ doc'.po_match = doc.po_match
      /\ doc'.failure_codes = doc.failure_codes /\ doc'.provenance = doc.provenance
      /\ debug' = debug
  BY <1>1, <1>2, CommitMoves
<1>5. Outgoing[n] = ThresholdEdges /\ Outgoing[n] # <<>> /\ ~Leaves(n)
  BY EdgeTable, OnProductionGraph DEF ThresholdEdges, Leaves
<1>6. CASE doc.amount = NaN
  <2>1. Diverted(n, doc') /\ Reason(doc', Outgoing[n]) = "no_route"
    BY <1>4, <1>5, <1>6, ThresholdRoute DEF Diverted
  <2>2. Targets(n, doc') = {"n_exc_no_route"}
    BY <2>1, <1>5, NoRouteSink DEF Targets
  <2>3. pc' = "n_exc_no_route" /\ unmodeled' = <<[from |-> n, reason |-> "no_route"]>>
    BY <2>1, <2>2, <1>1, <1>2, <1>3, CommitMoves
  <2>. QED BY <1>1, <1>3, <1>4, <1>6, <2>3
           DEF IInv, Reached, Complete, Undecided, Extracted, Logged, UnverifiedFieldsStayDefault
<1>7. CASE doc.amount # NaN /\ doc.amount > Threshold
  <2>1. pc' = "n_escalate" /\ unmodeled' = unmodeled
    BY <1>1, <1>2, <1>4, <1>5, <1>7, ThresholdRoute, Walk, Hops, NodeSet
  <2>. QED BY <1>1, <1>3, <1>4, <1>7, <2>1
           DEF IInv, Reached, Complete, Undecided, Extracted, Logged, UnverifiedFieldsStayDefault
<1>8. CASE doc.amount # NaN /\ doc.amount <= Threshold
  <2>1. pc' = "n5" /\ unmodeled' = unmodeled
    BY <1>1, <1>2, <1>4, <1>5, <1>8, ThresholdRoute, Walk, Hops, NodeSet
  <2>. QED BY <1>1, <1>3, <1>4, <1>8, <2>1
           DEF IInv, Reached, Complete, Undecided, Extracted, Logged, WithinThreshold,
               UnverifiedFieldsStayDefault
<1>9. doc.amount = NaN \/ doc.amount \in Nat
  BY <1>1, InputsTyped DEF Doc, Values
<1>. QED BY <1>6, <1>7, <1>8, <1>9, ThresholdIsAmount
(* The 3-way match.                                                         *)
LEMMA MatchStep ==
  ASSUME IInv, Step("n5")
  PROVE  IInv'
<1>. DEFINE n == "n5"
            d == [doc EXCEPT !.match_3_way = (MatchFlag # None /\ MatchFlag),
                             !.match_result = MatchResult]
<1>1. pc = n /\ n \in Nodes /\ doc \in Doc /\ TypeOK'
  BY HandledBy, StepTyped, OnProductionGraph, NodeSet DEF IInv, TypeOK
<1>2. Complete /\ WithinThreshold /\ unmodeled = <<>> /\ doc.po_match \in BOOLEAN
  BY <1>1 DEF IInv, Reached, Logged
<1>3. MatchResult = IF doc.po_match THEN "MATCH" ELSE "NO_MATCH"
  BY <1>2, NotANumber DEF MatchResult, MatchFlag
<1>4. /\ d \in Doc /\ d.status = doc.status /\ d.amount = doc.amount /\ d.has_po = doc.has_po
      /\ d.po_match = doc.po_match /\ d.failure_codes = doc.failure_codes
      /\ d.provenance = doc.provenance /\ d.match_result = MatchResult
  BY <1>1, <1>3 DEF Doc, MatchResults
<1>. HIDE DEF d
<1>5. PICK evs : Commit(n, d, evs)
  BY Handlers DEF Match3Way, d
<1>6. /\ doc'.status = doc.status /\ doc'.amount = doc.amount /\ doc'.has_po = doc.has_po
      /\ doc'.po_match = doc.po_match /\ doc'.failure_codes = doc.failure_codes
      /\ doc'.provenance = doc.provenance /\ doc'.match_result = MatchResult
      /\ debug' = debug
  BY <1>1, <1>4, <1>5, CommitMoves
<1>7. pc' = "n5_decision" /\ unmodeled' = unmodeled
  BY <1>1, <1>4, <1>5, WalkLone, EdgeTable, Hops, NodeSet DEF MatchEdges
<1>. QED BY <1>1, <1>2, <1>3, <1>6, <1>7
         DEF IInv, Reached, Complete, Undecided, Extracted, Logged, WithinThreshold, MatchedPo,
             UnverifiedFieldsStayDefault

(* The match decision gateway.                                              *)
LEMMA MatchDecisionStep ==
  ASSUME IInv, Step("n5_decision")
  PROVE  IInv'
<1>. DEFINE n == "n5_decision"
<1>1. pc = n /\ n \in Nodes /\ doc \in Doc /\ TypeOK'
  BY HandledBy, StepTyped, OnProductionGraph, NodeSet DEF IInv, TypeOK
<1>2. Commit(n, doc, DecisionEvents(n))
  BY Handlers DEF PassThrough
<1>3. /\ Complete /\ WithinThreshold /\ unmodeled = <<>>
      /\ MatchedPo \/ (doc.po_match = FALSE /\ doc.match_result = "NO_MATCH")
  BY <1>1 DEF IInv, Reached, Logged
<1>4. /\ doc' \in Doc /\ doc'.status = doc.status /\ doc'.amount = doc.amount
      /\ doc'.has_po = doc.has_po /\ doc'.po_match = doc.po_match
      /\ doc'.failure_codes = doc.failure_codes /\ doc'.provenance = doc.provenance
      /\ doc'.match_result = doc.match_result /\ debug' = debug
  BY <1>1, <1>2, CommitMoves
<1>5. Outgoing[n] = MatchDecisionEdges /\ Outgoing[n] # <<>>
  BY EdgeTable DEF MatchDecisionEdges
<1>6. CASE MatchedPo
  <2>1. pc' = "n6" /\ unmodeled' = unmodeled
    BY <1>1, <1>2, <1>4, <1>5, <1>6, MatchDecisionRoute, Walk, Hops, NodeSet DEF MatchedPo
  <2>. QED BY <1>1, <1>3, <1>4, <1>6, <2>1
           DEF IInv, Reached, Complete, Undecided, Extracted, Logged, WithinThreshold, MatchedPo,
               UnverifiedFieldsStayDefault
<1>7. CASE doc.po_match = FALSE /\ doc.match_result = "NO_MATCH"
  <2>1. pc' = "n_no_match" /\ unmodeled' = unmodeled
    BY <1>1, <1>2, <1>4, <1>5, <1>7, MatchDecisionRoute, Walk, Hops, NodeSet
  <2>. QED BY <1>1, <1>3, <1>4, <1>7, <2>1
           DEF IInv, Reached, Complete, Undecided, Extracted, Logged, WithinThreshold,
               UnverifiedFieldsStayDefault
<1>. QED BY <1>3, <1>6, <1>7

(* n6 approves and goes on to the payment task n7, which ends the run.       *)
LEMMA ApproveStep ==
  ASSUME IInv, Step("n6")
  PROVE  IInv'
<1>. DEFINE d == [doc EXCEPT !.status = SetsStatus[Intent["n6"]]]
<1>1. pc = "n6" /\ "n6" \in Nodes /\ doc \in Doc /\ TypeOK'
  BY HandledBy, StepTyped, OnProductionGraph, NodeSet DEF IInv, TypeOK
<1>2. Complete /\ WithinThreshold /\ MatchedPo /\ unmodeled = <<>> /\ doc.po_match \in BOOLEAN
  BY <1>1 DEF IInv, Reached, Logged
<1>3. SetsStatus[Intent["n6"]] = "APPROVED"
  BY IntentTable DEF SetsStatus
<1>4. /\ d \in Doc /\ d.status = "APPROVED" /\ d.amount = doc.amount /\ d.has_po = doc.has_po
      /\ d.po_match = doc.po_match /\ d.failure_codes = doc.failure_codes
      /\ d.provenance = doc.provenance /\ d.match_result = doc.match_result
  BY <1>1, <1>3 DEF Doc, Statuses
<1>. HIDE DEF d
<1>5. Commit("n6", d, DecisionEvents("n6"))
  BY Handlers DEF AssignStatus, d
<1>6. /\ doc'.status = "APPROVED" /\ doc'.amount = doc.amount /\ doc'.has_po = doc.has_po
      /\ doc'.po_match = doc.po_match /\ doc'.failure_codes = doc.failure_codes
      /\ doc'.provenance = doc.provenance /\ doc'.match_result = doc.match_result
      /\ debug' = debug
  BY <1>1, <1>4, <1>5, CommitMoves
<1>7. pc' = "n7" /\ unmodeled' = unmodeled
  BY <1>1, <1>4, <1>5, WalkLone, EdgeTable, Hops, NodeSet DEF ApproveEdges
<1>. QED BY <1>1, <1>2, <1>6, <1>7
         DEF IInv, Reached, Complete, Extracted, Logged, WithinThreshold, MatchedPo,
             UnverifiedFieldsStayDefault

(* The payment task ends the run.                                           *)
LEMMA SchedulePaymentStep ==
  ASSUME IInv, Step("n7")
  PROVE  IInv'
<1>1. pc = "n7" /\ "n7" \in Nodes /\ doc \in Doc /\ TypeOK'
  BY HandledBy, StepTyped, OnProductionGraph, NodeSet DEF IInv, TypeOK
<1>2. Commit("n7", doc, DecisionEvents("n7"))
  BY Handlers DEF PassThrough
<1>3. /\ doc.status = "APPROVED" /\ Extracted /\ doc.has_po = TRUE /\ WithinThreshold /\ MatchedPo
      /\ unmodeled = <<>>
  BY <1>1 DEF IInv, Reached, Logged
<1>4. pc' = END /\ unmodeled' = unmodeled
  BY <1>1, <1>2, WalkLone, EdgeTable, Hops, NodeSet DEF SchedulePaymentEdges
<1>. QED BY <1>1, <1>2, <1>3, <1>4, CommitMoves
         DEF IInv, Reached, Extracted, Logged, WithinThreshold, MatchedPo, UnverifiedFieldsStayDefault

(* The stations and terminal tasks: each ends the run with the status it     *)
(* stands for.                                                               *)
LEMMA TerminalStep ==
  ASSUME IInv, Step(pc),
         pc \in {"n_no_match", "n_escalate", "n_exception", "n_exc_bad_extraction", "n_exc_no_route"}
  PROVE  IInv'
<1>. DEFINE final == CASE pc = "n_no_match" -> "EXCEPTION_MATCH_FAILED"
                       [] pc = "n_escalate" -> "ESCALATED"
                       [] pc = "n_exception" -> "EXCEPTION_NO_PO"
                       [] pc = "n_exc_bad_extraction" -> "EXCEPTION_BAD_EXTRACTION"
                       [] pc = "n_exc_no_route" -> "EXCEPTION_NO_ROUTE"
            d == [doc EXCEPT !.status = final]
<1>1. pc \in Nodes /\ doc \in Doc /\ TypeOK'
  BY StepTyped, OnProductionGraph, NodeSet DEF IInv, TypeOK
<1>2. final \in Statuses
  BY DEF Statuses
<1>3. \E evs : Commit(pc, d, evs)
  <2>1. CASE pc \in {"n_no_match", "n_exception"}
    <3>1. ManualReview[Intent[pc]] = final
      BY <2>1, IntentTable DEF ManualReview
    <3>. QED BY <2>1, <3>1, Handlers DEF FlagForReview
  <2>2. CASE pc = "n_escalate"
    <3>1. SetsStatus[Intent[pc]] = final
      BY <2>2, IntentTable DEF SetsStatus
    <3>. QED BY <2>2, <3>1, Handlers DEF AssignStatus
  <2>3. CASE pc \in {"n_exc_bad_extraction", "n_exc_no_route"}
    <3>1. ReviewStatus[ReviewReason[pc]] = final
      BY <2>3, OnProductionGraph, NodeSet DEF ProductionReviewReason, ReviewStatus
    <3>. QED BY <2>3, <3>1, Handlers DEF RouteForReview
  <2>. QED BY <2>1, <2>2, <2>3
<1>4. /\ d \in Doc /\ d.status = final /\ d.amount = doc.amount /\ d.has_po = doc.has_po
      /\ d.po_match = doc.po_match /\ d.failure_codes = doc.failure_codes
      /\ d.provenance = doc.provenance /\ d.retry_count = doc.retry_count
  BY <1>1, <1>2 DEF Doc
<1>. HIDE DEF d
<1>5. /\ doc'.status = final /\ doc'.amount = doc.amount /\ doc'.has_po = doc.has_po
      /\ doc'.po_match = doc.po_match /\ doc'.failure_codes = doc.failure_codes
      /\ doc'.provenance = doc.provenance /\ doc'.retry_count = doc.retry_count
      /\ debug' = debug
  BY <1>1, <1>3, <1>4, CommitMoves
<1>6. pc' = END /\ unmodeled' = unmodeled
  BY <1>1, <1>3, <1>4, Stop, EdgeTable
<1>7. Reached'
  BY <1>5, <1>6 DEF IInv, Reached, Complete, Extracted, WithinThreshold, FailedForGood
<1>8. Logged'
  BY <1>5, <1>6 DEF IInv, Reached, Logged
<1>. QED BY <1>1, <1>5, <1>7, <1>8 DEF IInv, UnverifiedFieldsStayDefault

-----------------------------------------------------------------------------

(* The invariant is inductive.                                              *)
LEMMA InvariantHolds == SafeSpec => []IInv
<1>1. Init => IInv
  <2>. SUFFICES ASSUME Init PROVE IInv
    OBVIOUS
  <2>1. TypeOK
    BY InitTyped
  <2>2. /\ doc.status = "NEW" /\ doc.amount = 0 /\ doc.has_po = FALSE /\ doc.po_match \in PoMatchInputs
        /\ doc.retry_count = 0 /\ doc.failure_codes = "none" /\ doc.provenance = "empty"
        /\ pc = "n1" /\ unmodeled = <<>>
    <3>1. PICK m \in PoMatchInputs, legacy \in LegacyInputs :
            doc = [status |-> "NEW", amount |-> 0, has_po |-> FALSE, po_match |-> m,
                   match_3_way |-> IF legacy = None THEN m ELSE legacy,
                   match_result |-> "UNKNOWN", retry_count |-> 0,
                   failure_codes |-> "none", provenance |-> "empty", last_gateway |-> ""]
      BY DEF Init
    <3>2. pc = "n1" /\ unmodeled = <<>>
      BY OnProductionGraph DEF Init
    <3>3. doc.has_po = FALSE
      BY <3>1
    <3>. QED BY <3>1, <3>2, <3>3
  <2>3. doc.po_match \in BOOLEAN
    BY <2>2, OnProductionGraph
  <2>4. Reached
    BY <2>2 DEF Reached, Fresh
  <2>5. Logged /\ UnverifiedFieldsStayDefault
    BY <2>2 DEF Logged, UnverifiedFieldsStayDefault
  <2>. QED BY <2>1, <2>3, <2>4, <2>5 DEF IInv
<1>2. IInv /\ [Next]_vars => IInv'
  <2>1. ASSUME IInv, NEW n \in Nodes, Step(n) PROVE IInv'
    <3>1. pc = n
      BY <2>1, HandledBy
    <3>2. pc \in {"n1", "n2", "n3", "n_critic_retry", "n4", "n_threshold", "n5", "n5_decision",
                  "n6", "n7", "n_no_match", "n_escalate", "n_exception",
                  "n_exc_bad_extraction", "n_exc_no_route"}
      BY <2>1, <3>1, GraphWellFormed DEF IInv, Reached
    <3>. QED BY <2>1, <3>1, <3>2, StepToExtraction, EnterRecordStep, CriticRetryStep,
                ValidateFieldsStep, ThresholdStep, MatchStep, MatchDecisionStep, ApproveStep,
                SchedulePaymentStep, TerminalStep
  <2>2. IInv /\ UNCHANGED vars => IInv'
    BY DEF vars, IInv, TypeOK, Reached, Fresh, Complete, Undecided, Extracted, WithinThreshold,
           MatchedPo, FailedForGood, Logged, UnverifiedFieldsStayDefault
  <2>. QED BY <2>1, <2>2 DEF Next
<1>. QED BY <1>1, <1>2, PTL DEF SafeSpec

(* No invoice is approved unless its verified facts justify it.              *)
THEOREM ApprovalIsJustified == SafeSpec => []ApprovalJustified
<1>1. IInv => ApprovalJustified
  BY DEF IInv, Reached, Fresh, Complete, Undecided, Extracted, WithinThreshold, MatchedPo,
         ApprovalJustified
<1>. QED BY <1>1, InvariantHolds, PTL

(* A finished run's status is final and the one its facts call for.          *)
THEOREM OutcomeIsJustified == SafeSpec => []OutcomeJustified
<1>1. IInv => OutcomeJustified
  <2>. SUFFICES ASSUME IInv, pc = END PROVE Justifies(doc.status)
    BY DEF OutcomeJustified
  <2>1. CASE doc.status = "APPROVED"
    BY <2>1 DEF Justifies
  <2>2. CASE doc.status = "ESCALATED"
    BY <2>2 DEF IInv, Reached, Justifies
  <2>3. CASE doc.status = "EXCEPTION_BAD_EXTRACTION"
    BY <2>3 DEF IInv, Reached, FailedForGood, Justifies
  <2>4. CASE doc.status = "EXCEPTION_NO_PO"
    BY <2>4 DEF IInv, Reached, Justifies
  <2>5. CASE doc.status = "EXCEPTION_MATCH_FAILED"
    BY <2>5 DEF IInv, Reached, WithinThreshold, Justifies
  <2>6. CASE doc.status = "EXCEPTION_NO_ROUTE"
    BY <2>6 DEF IInv, Reached, Justifies
  <2>. QED BY <2>1, <2>2, <2>3, <2>4, <2>5, <2>6 DEF IInv, Reached
<1>. QED BY <1>1, InvariantHolds, PTL

(* Without the debug flag, unverified fields keep their defaults.            *)
THEOREM DefaultsKept == SafeSpec => []UnverifiedFieldsStayDefault
<1>1. IInv => UnverifiedFieldsStayDefault
  BY DEF IInv
<1>. QED BY <1>1, InvariantHolds, PTL

(* The no-route station and the unmodeled log tell of the same runs.         *)
THEOREM DiversionIsLogged == SafeSpec => []DiversionLogged
<1>1. IInv => DiversionLogged
  BY DEF IInv, Reached, Fresh, Complete, Undecided, Logged, DiversionLogged
<1>. QED BY <1>1, InvariantHolds, PTL

(* The critic runs at most once, and only after a verifier failure.          *)
THEOREM CriticOnlyOnce == SafeSpec => CriticOnlyAfterVerifierFailure
<1>1. IInv => (pc = "n_critic_retry" =>
                 doc.retry_count = 0 /\ doc.status = "NEEDS_RETRY" /\ doc.failure_codes = "VERIFIER")
  BY DEF IInv, Reached
<1>. QED BY <1>1, InvariantHolds, PTL DEF CriticOnlyAfterVerifierFailure

(* The conditions of the gateways read the amount and the match result.      *)
LEMMA GatewayReads ==
  ASSUME NEW n \in Gateways
  PROVE  /\ n \in {"n_threshold", "n5_decision"} /\ Outgoing[n] # <<>> /\ ~Leaves(n)
         /\ \A i \in DOMAIN Outgoing[n] : \A a \in Outgoing[n][i].all :
              a.field \in {"amount", "match_result"}
<1>1. n \in {"n_threshold", "n5_decision"}
  BY OnProductionGraph DEF ProductionGateways
<1>2. \A i \in DOMAIN ThresholdEdges : \A a \in ThresholdEdges[i].all : a.field = "amount"
  BY DEF ThresholdEdges, When, Above, AtMost
<1>3. \A i \in DOMAIN MatchDecisionEdges :
        \A a \in MatchDecisionEdges[i].all : a.field = "match_result"
  BY DEF MatchDecisionEdges, When, Is
<1>4. ThresholdEdges # <<>> /\ MatchDecisionEdges # <<>>
  BY DEF ThresholdEdges, MatchDecisionEdges
<1>5. ~Leaves(n) /\ Outgoing[n] # <<>>
  BY <1>1, <1>4, EdgeTable, OnProductionGraph DEF Leaves
<1>. QED BY <1>1, <1>2, <1>3, <1>5, EdgeTable

(* A gateway decides on the document it was called with, and merging its own *)
(* name into last_gateway changes nothing the decision depends on.           *)
LEMMA DecisionStands ==
  ASSUME TypeOK, NEW n \in Nodes, Step(n), Len(records') > Len(records)
  PROVE  LET r == records'[Len(records')]
         IN IF r.selected = {} THEN pc' = Sink(r.reason)
                               ELSE pc' \in {Hop(t) : t \in r.selected}
<1>. DEFINE out == Outgoing[n]
<1>1. Decides(n)
  <2>1. CASE Raise
    BY <2>1 DEF Raise, TypeOK
  <2>2. CASE \E d, evs : Commit(n, d, evs)
    BY <2>2 DEF Commit, TypeOK
  <2>. QED BY <2>1, <2>2, StepCommits
<1>2. n \in Gateways
  BY <1>1 DEF Decides
<1>3. Commit(n, doc, DecisionEvents(n))
  BY <1>2, GatewayReads, Handlers DEF PassThrough
<1>4. doc \in Doc
  BY DEF TypeOK
<1>5. \A f \in {"amount", "match_result"} : doc[f] = doc'[f]
  BY <1>3, <1>4 DEF Commit, Doc
<1>6. Selection(doc, out) = Selection(doc', out) /\ Reason(doc, out) = Reason(doc', out)
  BY <1>2, <1>5, GatewayReads, SameFieldsSameRoute
<1>7. /\ records' = Append(records, Decision(n)) /\ records \in Seq(Decisions)
      /\ records'[Len(records')] = Decision(n)
  BY <1>1, <1>3 DEF Commit, TypeOK
<1>8. pc' \in Targets(n, doc')
  BY <1>3 DEF Commit
<1>9. Decision(n).selected = Selection(doc', out) /\ Decision(n).reason = Reason(doc', out)
  BY <1>6 DEF Decision
<1>. HIDE DEF out
<1>10. Targets(n, doc') = IF Selection(doc', out) = {} THEN {Sink(Reason(doc', out))}
                          ELSE {Hop(t) : t \in Selection(doc', out)}
  BY <1>2, GatewayReads DEF Targets, Diverted, out
<1>. QED BY <1>7, <1>8, <1>9, <1>10

(* The decision a gateway records is the one the graph follows.              *)
THEOREM RecordsAreFollowed == SafeSpec => RecordedDecisionFollowed
<1>. DEFINE Followed ==
       Len(records') > Len(records) =>
         LET r == records'[Len(records')]
         IN IF r.selected = {} THEN pc' = Sink(r.reason)
                               ELSE pc' \in {Hop(t) : t \in r.selected}
<1>1. TypeOK /\ [Next]_vars => [Followed]_vars
  BY DecisionStands DEF Next
<1>. QED BY <1>1, TypeCorrect, PTL DEF SafeSpec, RecordedDecisionFollowed

(* The production graph is one of those DiversionsFailClosed is about.       *)
THEOREM ProductionFailsClosed == SafeSpec => []FailsClosed
<1>1. \A r \in {"no_route", "ambiguous_route"} : StationKey(r) \in DOMAIN StationMap
  BY OnProductionGraph DEF StationKey, ProductionStationMap
<1>2. /\ StationMap[StationKey("no_route")] = "n_exc_no_route"
      /\ StationMap[StationKey("ambiguous_route")] = "n_exc_ambiguous_route"
  BY OnProductionGraph DEF StationKey, ProductionStationMap
<1>3. /\ ReviewNodes("no_route") = {"n_exc_no_route"}
      /\ ReviewNodes("ambiguous_route") = {"n_exc_ambiguous_route"}
  BY OnProductionGraph, NodeSet
     DEF ReviewNodes, ReviewedAs, ReviewStatus, ProductionReviewReason, ProductionIntent, StationNodes
<1>4. Outgoing["n_exc_no_route"] = <<>> /\ Outgoing["n_exc_ambiguous_route"] = <<>>
  BY OnProductionGraph, NodeSet DEF ProductionOutgoing
<1>5. StationsEndRuns
  BY <1>1, <1>2, <1>3, <1>4, OnProductionGraph DEF StationsEndRuns
<1>. QED BY <1>5, DiversionsFailClosed

-----------------------------------------------------------------------------
(* No run goes on for ever.                                                  *)

(* The most handler calls a run may still make once it has come to a node.  *)
CallsLeft(n) ==
  CASE n = "n1" -> 10 [] n = "n2" -> 9 [] n = "n3" -> 8 [] n = "n_critic_retry" -> 7
    [] n = "n4" -> 6 [] n = "n_threshold" -> 5 [] n = "n5" -> 4 [] n = "n5_decision" -> 3
    [] n = "n6" -> 2
    [] n \in {END, RAISED} -> 0
    [] OTHER -> 1

CallsRunOut == [][CallsLeft(pc') < CallsLeft(pc)]_vars

(* Every edge, every station and every end is further down.                 *)
LEMMA TargetsDescend ==
  ASSUME NEW n \in Nodes, NEW d, NEW t \in Targets(n, d)
  PROVE  CallsLeft(t) < CallsLeft(n) /\ CallsLeft(n) \in Nat
<1>1. n \in ProductionNodes /\ CallsLeft(n) \in 1..10
  BY OnProductionGraph, NodeSet DEF CallsLeft
<1>2. CASE Leaves(n)
  BY <1>1, <1>2 DEF Targets, CallsLeft
<1>3. CASE Diverted(n, d)
  <2>1. n \notin {"n35", "n_escalate", "n_reject", "n_exception", "n_exc_bad_extraction",
                  "n_exc_unmodeled_gate", "n_exc_ambiguous_route", "n_exc_no_route", "n_no_match"}
    BY <1>3, OnProductionGraph, NodeSet DEF Diverted, Leaves, ProductionOutgoing
  <2>6. n # "n7"
    <3>1. Selection(d, <<Always("n35")>>) = {"n35"}
      <4>1. DOMAIN <<Always("n35")>> = {1} /\ <<Always("n35")>>[1].to = "n35"
        BY DEF Always
      <4>. QED BY <4>1, LoneEdge
    <3>. QED BY <1>3, <3>1, EdgeTable DEF Diverted, SchedulePaymentEdges
  <2>2. CallsLeft(n) > 1
    BY <1>1, <2>1, <2>6, NodeSet DEF CallsLeft
  <2>3. \A r : CallsLeft(Sink(r)) <= 1
    BY OnProductionGraph, Hops, NodeSet DEF Sink, StationKey, ProductionStationMap, CallsLeft
  <2>4. t = Sink(Reason(d, Outgoing[n]))
    BY <1>3 DEF Targets, Diverted
  <2>5. CallsLeft(t) <= 1 /\ CallsLeft(t) \in Nat
    BY <2>3, <2>4 DEF CallsLeft
  <2>. QED BY <1>1, <2>2, <2>5
<1>4. CASE ~Leaves(n) /\ ~Diverted(n, d)
  <2>1. PICK e \in OutEdges(n) : t = Hop(e.to)
    BY <1>4 DEF Targets, Selection, OutEdges
  <2>. DEFINE Tos(out) == {out[i].to : i \in DOMAIN out}
  <2>2. e.to \in Tos(Outgoing[n])
    BY <2>1 DEF OutEdges
  <2>3. \A to, atoms : When(to, atoms).to = to /\ Always(to).to = to
    BY DEF When, Always
  <2>4. /\ Tos(EnterRecordEdges) = {"n_critic_retry", "n_exc_bad_extraction", "n4", "n_reject", "n_exception"}
        /\ Tos(CriticRetryEdges) = {"n_exc_bad_extraction", "n_exception", "n4"}
        /\ Tos(ThresholdEdges) = {"n_escalate", "n5"}
        /\ Tos(MatchDecisionEdges) = {"n6", "n_no_match", "n_exc_unmodeled_gate"}
    BY <2>3 DEF EnterRecordEdges, CriticRetryEdges, ThresholdEdges, MatchDecisionEdges
  <2>5. \A to : Tos(<<Always(to)>>) = {to}
    BY <2>3
  <2>. HIDE DEF Tos
  <2>6. \/ n = "n1" /\ e.to = "n2"
        \/ n = "n2" /\ e.to = "n3"
        \/ n = "n3" /\ e.to \in {"n_critic_retry", "n_exc_bad_extraction", "n4", "n_reject", "n_exception"}
        \/ n = "n_critic_retry" /\ e.to \in {"n_exc_bad_extraction", "n_exception", "n4"}
        \/ n = "n4" /\ e.to = "n_threshold"
        \/ n = "n_threshold" /\ e.to \in {"n_escalate", "n5"}
        \/ n = "n5" /\ e.to = "n5_decision"
        \/ n = "n5_decision" /\ e.to \in {"n6", "n_no_match", "n_exc_unmodeled_gate"}
        \/ n = "n6" /\ e.to = "n7"
        \/ n = "n7" /\ e.to = "n35"
        \/ Outgoing[n] = <<>>
    BY <1>1, <2>2, <2>4, <2>5, OnProductionGraph
       DEF ProductionOutgoing, ValidateEdges, MatchEdges, ApproveEdges, SchedulePaymentEdges
  <2>7. Outgoing[n] # <<>>
    BY <1>4 DEF Leaves
  <2>8. Hop("n35") = END /\ \A to \in ProductionNodes : to # "n35" => Hop(to) = to
    BY Hops
  <2>. QED BY <1>1, <2>1, <2>6, <2>7, <2>8, NodeSet DEF CallsLeft
<1>. QED BY <1>2, <1>3, <1>4

(* Every handler call takes the run strictly further down: whatever the LLM *)
(* and the verifier answer, the retry is not taken twice, no diversion leads *)
(* back, and a run is over after ten calls at most. *)
THEOREM RunsEnd == SafeSpec => CallsRunOut
<1>1. TypeOK /\ [Next]_vars => [CallsLeft(pc') < CallsLeft(pc)]_vars
  <2>1. ASSUME NEW n \in Nodes, Step(n) PROVE CallsLeft(pc') < CallsLeft(pc)
    <3>1. pc = n
      BY <2>1, HandledBy
    <3>2. CASE Raise
      <4>1. CallsLeft(pc') = 0
        BY <3>2 DEF Raise, CallsLeft
      <4>2. CallsLeft(n) > 0
        BY OnProductionGraph, NodeSet DEF CallsLeft
      <4>. QED BY <3>1, <4>1, <4>2
    <3>3. CASE \E d, evs : Commit(n, d, evs)
      <4>1. \E d : pc' \in Targets(n, d)
        BY <3>3 DEF Commit
      <4>. QED BY <3>1, <4>1, TargetsDescend
    <3>. QED BY <2>1, <3>2, <3>3, StepCommits
  <2>. QED BY <2>1 DEF Next
<1>. QED BY <1>1, TypeCorrect, PTL DEF SafeSpec, CallsRunOut

-----------------------------------------------------------------------------
(* The workflow implements the decision.                                     *)

(* Both stations are in the graph, so no route raises.                      *)
LEMMA CommitNeverRaises ==
  ASSUME NEW n \in Nodes, NEW d, NEW evs, Commit(n, d, evs)
  PROVE  pc' # RAISED
<1>1. pc' \in Targets(n, doc')
  BY DEF Commit
<1>2. \A t \in Nodes : Hop(t) # RAISED
  BY GraphWellFormed DEF Hop
<1>3. Selection(doc', Outgoing[n]) \subseteq Nodes
  BY GraphWellFormed DEF Selection, OutEdges
<1>4. \A r : Sink(r) # RAISED
  BY <1>2, OnProductionGraph, GraphWellFormed DEF Sink, StationKey, ProductionStationMap
<1>. QED BY <1>1, <1>2, <1>3, <1>4 DEF Targets

LEMMA DecisionInitially == Init => Promise!Init
<1>. SUFFICES ASSUME Init PROVE Promise!Init
  OBVIOUS
<1>1. PICK m \in PoMatchInputs, legacy \in LegacyInputs :
        doc = [status |-> "NEW", amount |-> 0, has_po |-> FALSE, po_match |-> m,
               match_3_way |-> IF legacy = None THEN m ELSE legacy,
               match_result |-> "UNKNOWN", retry_count |-> 0,
               failure_codes |-> "none", provenance |-> "empty", last_gateway |-> ""]
  BY DEF Init
<1>2. doc.po_match \in PoMatchInputs /\ doc.provenance = "empty" /\ doc.status = "NEW" /\ pc = "n1"
  BY <1>1, OnProductionGraph DEF Init
<1>3. DecidedOn = Promise!Unknown
  BY <1>2 DEF DecidedOn, Promise!Unknown
<1>4. DecidedAs = "open"
  BY <1>2 DEF DecidedAs, FinalStatuses
<1>. QED BY <1>2, <1>3, <1>4 DEF Promise!Init

(* An extraction may fix the facts, and decides nothing.                    *)
LEMMA ExtractionVerifies ==
  ASSUME IInv, NEW n \in {"n3", "n_critic_retry"}, Step(n), ~Raise
  PROVE  Promise!Verify \/ UNCHANGED Promise!vars
<1>1. pc = n /\ n \in Nodes /\ doc \in Doc /\ TypeOK'
  BY HandledBy, StepTyped, OnProductionGraph, NodeSet DEF IInv, TypeOK
<1>2. DecidedAs = "open" /\ DecidedOn = Promise!Unknown
  <2>1. doc.provenance # "passed" /\ doc.status \in {"NEW", "NEEDS_RETRY"}
    BY <1>1 DEF IInv, Reached, Fresh
  <2>. QED BY <1>1, <2>1 DEF DecidedAs, DecidedOn, FinalStatuses, Promise!Unknown
<1>3. PICK d \in Doc : /\ d.status \in {"NEEDS_RETRY", "BAD_EXTRACTION", "DATA_EXTRACTED"}
                       /\ \E evs : Commit(n, d, evs)
  <2>1. CASE n = "n3"
    <3>1. PICK d \in Extractions(doc, "NEEDS_RETRY") : \E evs : Commit(n, d, evs)
      BY <2>1, <1>1, Handlers DEF EnterRecord, IInv, Reached, Fresh
    <3>2. d \in Doc
      BY <1>1, ExtractionsTyped
    <3>3. d.status \in {"NEEDS_RETRY", "BAD_EXTRACTION", "DATA_EXTRACTED"}
      BY <1>1, ExtractionOutcome
    <3>. QED BY <3>1, <3>2, <3>3
  <2>2. CASE n = "n_critic_retry"
    <3>. DEFINE retried == [doc EXCEPT !.retry_count = @ + 1]
    <3>1. PICK d \in Extractions(retried, "BAD_EXTRACTION") : \E evs : Commit(n, d, evs)
      BY <2>2, Handlers DEF CriticRetry
    <3>2. retried \in Doc
      <4>1. doc.retry_count \in Nat
        BY <1>1 DEF Doc
      <4>2. doc.retry_count + 1 \in Nat
        BY <4>1
      <4>. QED BY <1>1, <4>2 DEF Doc
    <3>. HIDE DEF retried
    <3>3. d \in Doc
      BY <3>2, ExtractionsTyped
    <3>4. d.status \in {"NEEDS_RETRY", "BAD_EXTRACTION", "DATA_EXTRACTED"}
      BY <3>2, ExtractionOutcome
    <3>. QED BY <3>1, <3>3, <3>4
  <2>. QED BY <2>1, <2>2
<1>4. doc' \in Doc /\ doc'.status = d.status /\ pc' # RAISED
  BY <1>1, <1>3, CommitMoves, CommitNeverRaises
<1>5. DecidedAs' = "open"
  BY <1>3, <1>4 DEF DecidedAs, FinalStatuses
<1>6. doc'.po_match = doc.po_match
  BY <1>1, OnlyExtractionWritesFields DEF IInv
<1>7. DecidedOn' \in Promise!Facts \/ DecidedOn' = Promise!Unknown
  BY <1>4 DEF DecidedOn, Promise!Facts, Promise!Unknown, Doc, Values
<1>8. ~Promise!Unknown.verified
  BY DEF Promise!Unknown
<1>. QED BY <1>2, <1>5, <1>6, <1>7, <1>8 DEF Promise!Verify, Promise!vars

(* A final status is the outcome the facts call for.                        *)
LEMMA FinalIsOutcome ==
  IInv /\ pc # RAISED /\ doc.status \in FinalStatuses => doc.status = Promise!Outcome
<1>. SUFFICES ASSUME IInv, pc # RAISED, doc.status \in FinalStatuses
              PROVE  doc.status = Promise!Outcome
  OBVIOUS
<1>1. CASE doc.status = "EXCEPTION_BAD_EXTRACTION"
  <2>1. doc.provenance # "passed"
    BY <1>1 DEF IInv, Reached, Fresh, Complete, Undecided, FailedForGood
  <2>. QED BY <1>1, <2>1 DEF Promise!Outcome, DecidedOn
<1>2. CASE doc.status # "EXCEPTION_BAD_EXTRACTION"
  <2>. DEFINE f == [verified |-> TRUE, amount |-> doc.amount, has_po |-> doc.has_po]
  <2>1. doc.provenance = "passed"
    BY <1>2 DEF IInv, Reached, Fresh, Complete, Undecided, Extracted, FailedForGood, FinalStatuses
  <2>2. DecidedOn = f /\ f.verified = TRUE /\ f.amount = doc.amount /\ f.has_po = doc.has_po
    BY <2>1 DEF DecidedOn
  <2>3. CASE doc.status = "EXCEPTION_NO_PO"
    BY <2>2, <2>3 DEF IInv, Reached, Fresh, Complete, Undecided, Promise!Outcome
  <2>4. CASE doc.status = "EXCEPTION_NO_ROUTE"
    BY <2>2, <2>4 DEF IInv, Reached, Fresh, Complete, Undecided, Promise!Outcome
  <2>5. doc.amount \in Nat \cup {NaN}
    BY InputsTyped DEF IInv, TypeOK, Doc, Values
  <2>6. CASE doc.status = "ESCALATED"
    BY <2>2, <2>5, <2>6, ThresholdIsAmount
       DEF IInv, Reached, Fresh, Complete, Undecided, Promise!Outcome
  <2>7. CASE doc.status = "EXCEPTION_MATCH_FAILED"
    BY <2>2, <2>5, <2>7, ThresholdIsAmount
       DEF IInv, Reached, Fresh, Complete, Undecided, WithinThreshold, Promise!Outcome
  <2>8. CASE doc.status = "APPROVED"
    BY <2>2, <2>5, <2>8, ThresholdIsAmount
       DEF IInv, Reached, Fresh, Complete, Undecided, WithinThreshold, MatchedPo, Promise!Outcome
  <2>. QED BY <1>2, <2>3, <2>4, <2>6, <2>7, <2>8 DEF FinalStatuses
<1>. QED BY <1>1, <1>2

(* Any other handler decides, or does nothing the decision sees.            *)
LEMMA OthersDecide ==
  ASSUME IInv, IInv', NEW n \in Nodes \ {"n3", "n_critic_retry"}, Step(n), ~Raise
  PROVE  Promise!Decide \/ UNCHANGED Promise!vars
<1>1. pc = n /\ doc \in Doc
  BY HandledBy DEF IInv, TypeOK
<1>2. n \in {"n1", "n2", "n4", "n_threshold", "n5", "n5_decision", "n6", "n7", "n_no_match",
             "n_escalate", "n_exception", "n_exc_bad_extraction", "n_exc_no_route"}
  BY <1>1, GraphWellFormed DEF IInv, Reached
<1>3. Intent[n] \notin {"ENTER_RECORD", "CRITIC_RETRY"}
  BY <1>2, IntentTable, Handlers, HandledBy
<1>4. doc'.po_match = doc.po_match /\ SameExtraction(doc', doc)
  BY <1>3, OnlyExtractionWritesFields DEF IInv
<1>5. DecidedOn' = DecidedOn
  BY <1>4 DEF DecidedOn, SameExtraction
<1>6. pc' # RAISED
  BY StepCommits, CommitNeverRaises
<1>7. CASE n = "n7"
  <2>1. Commit(n, doc, DecisionEvents(n))
    BY <1>7, Handlers DEF PassThrough
  <2>2. doc'.status = doc.status
    BY <2>1, <1>1, CommitMoves
  <2>. QED BY <1>1, <1>4, <1>5, <1>6, <2>2, GraphWellFormed DEF DecidedAs, Promise!vars
<1>8. CASE n # "n7"
  <2>1. DecidedAs = "open"
    BY <1>1, <1>2, <1>8 DEF IInv, Reached, Fresh, Complete, Undecided, DecidedAs, FinalStatuses
  <2>2. CASE doc'.status \in FinalStatuses
    <3>1. doc'.status = (Promise!Outcome)'
      <4>1. (IInv /\ pc # RAISED /\ doc.status \in FinalStatuses => doc.status = Promise!Outcome)'
        BY FinalIsOutcome, PTL
      <4>. QED BY <1>6, <2>2, <4>1 DEF FinalStatuses
    <3>2. (Promise!Outcome)' = Promise!Outcome
      BY <1>4, <1>5 DEF Promise!Outcome
    <3>. QED BY <1>4, <1>5, <1>6, <2>1, <2>2, <3>1, <3>2 DEF DecidedAs, Promise!Decide
  <2>3. CASE doc'.status \notin FinalStatuses
    BY <1>4, <1>5, <1>6, <2>1, <2>3 DEF DecidedAs, Promise!vars
  <2>. QED BY <2>2, <2>3
<1>. QED BY <1>7, <1>8

(* An exception fails an open decision.                                     *)
LEMMA RaisingFails ==
  ASSUME IInv, IInv', NEW n \in Nodes, Step(n), Raise
  PROVE  Promise!Fail
<1>1. pc # RAISED
  BY HandledBy, GraphWellFormed
<1>2. UNCHANGED doc /\ pc' = RAISED
  BY DEF Raise
<1>3. doc.status \notin FinalStatuses
  BY <1>2 DEF IInv, Reached, Undecided, FinalStatuses
<1>. QED BY <1>1, <1>2, <1>3 DEF DecidedAs, DecidedOn, Promise!Fail

(* The agent on the production graph implements the decision: nothing but    *)
(* the verified facts and the match flag enters an outcome, no outcome is    *)
(* taken back, and facts are fixed once (ImplementsDecision less fairness). *)
THEOREM DecisionImplemented == SafeSpec => Promise!SafeSpec
<1>1. IInv /\ IInv' /\ [Next]_vars => [Promise!Next]_Promise!vars
  <2>1. ASSUME IInv, IInv', NEW n \in Nodes, Step(n) PROVE Promise!Next \/ UNCHANGED Promise!vars
    BY <2>1, ExtractionVerifies, OthersDecide, RaisingFails DEF Promise!Next
  <2>2. UNCHANGED vars => UNCHANGED Promise!vars
    BY DEF vars, Promise!vars, DecidedOn, DecidedAs
  <2>. QED BY <2>1, <2>2 DEF Next
<1>. QED BY <1>1, DecisionInitially, InvariantHolds, PTL DEF SafeSpec, Promise!SafeSpec

-----------------------------------------------------------------------------
(* The trail: what an audit log of a run tells is what happened.             *)

(* The exception stations speak last, and only of the run's exception.       *)
Stationed ==
  IF pc = END /\ doc.status \in ExceptionStatuses
  THEN /\ Has(audit, "exception_station")
       /\ ExpectedStatus(Latest(audit, "exception_station").value) = doc.status
       /\ Latest(audit, "exception_station").gateway = doc.last_gateway
  ELSE ~Has(audit, "exception_station")

DiversionShown ==
  \E i \in Positions(audit, "route_decision") : audit[i].value \in {"ambiguous_route", "no_route"}

(* The gateway that decided last is the last one heard of, and a diversion   *)
(* is both shown and logged.                                                *)
Routed ==
  /\ doc.last_gateway = IF Has(audit, "route_decision")
                        THEN Latest(audit, "route_decision").node ELSE ""
  /\ DiversionShown <=> unmodeled # <<>>

(* Every retry is heard of, and the last with what it left.                  *)
Retried ==
  /\ doc.retry_count = Cardinality(Positions(audit, "critic_retry_executed"))
  /\ Has(audit, "critic_retry_executed") =>
       Latest(audit, "critic_retry_executed").value =
         IF doc.provenance = "passed" THEN "DATA_EXTRACTED" ELSE "BAD_EXTRACTION"

Verdict == ExtractionExplanation(audit).status_after

(* The verifier is first heard of at first extraction; until a retry its     *)
(* last word is the one that extraction was judged by.                       *)
Attempted ==
  /\ pc \in {"n1", "n2", "n3"} => ~Has(audit, "verifier_summary")
  /\ Has(audit, "verifier_summary") => Verdict \in {"DATA_EXTRACTED", "NEEDS_RETRY", "BAD_EXTRACTION"}
  /\ pc \notin {"n1", "n2", "n3", RAISED} /\ doc.retry_count = 0 =>
       Has(audit, "extraction") /\ (ExtractionExplanation(audit).valid <=> Verdict = "DATA_EXTRACTED")

TrailInv == Stationed /\ Routed /\ Retried /\ Attempted

-----------------------------------------------------------------------------
(* What is heard of in a log that grows.                                    *)

(* A set of positions has a last one.                                       *)
LEMMA LastPosition ==
  ASSUME NEW n \in Nat, NEW S, S \subseteq 1..n, S # {}
  PROVE  Max(S) \in S /\ \A i \in S : i <= Max(S)
<1>. DEFINE T == {n - i : i \in S}
<1>1. T \subseteq Nat /\ T # {}
  <2>1. \A i \in S : n - i \in Nat
    OBVIOUS
  <2>. QED BY <2>1
<1>. HIDE DEF T
<1>2. \E x \in T : \A y \in T : ~(<<y, x>> \in OpToRel(<, Nat))
  BY <1>1, NatLessThanWellFounded, WFMin
<1>3. PICK x \in T : \A y \in T : ~(<<y, x>> \in OpToRel(<, Nat))
  BY <1>2
<1>4. \A y \in T : ~(y < x)
  BY <1>1, <1>3 DEF OpToRel
<1>5. PICK m \in S : x = n - m
  BY DEF T
<1>6. \A i \in S : n - i \in T
  BY DEF T
<1>7. \A i \in S : m >= i
  BY <1>4, <1>5, <1>6
<1>8. Max(S) \in S /\ \A i \in S : Max(S) >= i
  BY <1>7 DEF Max
<1>. QED BY <1>8

(* The last event of a family, where its position is known.                 *)
LEMMA LatestAt ==
  ASSUME NEW log \in Seq(Events), NEW kind, NEW m \in Positions(log, kind),
         \A i \in Positions(log, kind) : i <= m
  PROVE  Latest(log, kind) = log[m]
<1>1. Positions(log, kind) \subseteq 1..Len(log) /\ Len(log) \in Nat
  BY DEF Positions
<1>2. Max(Positions(log, kind)) \in Positions(log, kind) /\ m <= Max(Positions(log, kind))
  BY <1>1, LastPosition
<1>3. Max(Positions(log, kind)) = m
  BY <1>1, <1>2
<1>. QED BY <1>3 DEF Latest

(* Events of other families change nothing.                                 *)
LEMMA Unheard ==
  ASSUME NEW log \in Seq(Events), NEW evs \in Seq(Events), NEW kind,
         \A j \in DOMAIN evs : evs[j].event # kind
  PROVE  /\ Positions(log \o evs, kind) = Positions(log, kind)
         /\ \A i \in Positions(log, kind) : (log \o evs)[i] = log[i]
         /\ Has(log \o evs, kind) <=> Has(log, kind)
         /\ Has(log, kind) => Latest(log \o evs, kind) = Latest(log, kind)
<1>1. /\ Len(log \o evs) = Len(log) + Len(evs) /\ Len(log) \in Nat /\ Len(evs) \in Nat
      /\ DOMAIN log = 1..Len(log) /\ DOMAIN evs = 1..Len(evs)
      /\ DOMAIN (log \o evs) = 1..(Len(log) + Len(evs))
  OBVIOUS
<1>2. \A i \in DOMAIN log : (log \o evs)[i] = log[i]
  OBVIOUS
<1>3. \A i \in DOMAIN (log \o evs) \ DOMAIN log : (log \o evs)[i].event # kind
  <2>. TAKE i \in DOMAIN (log \o evs) \ DOMAIN log
  <2>1. i - Len(log) \in DOMAIN evs /\ (log \o evs)[i] = evs[i - Len(log)]
    BY <1>1
  <2>. QED BY <2>1
<1>4. Positions(log \o evs, kind) = Positions(log, kind)
  BY <1>1, <1>2, <1>3 DEF Positions
<1>5. Positions(log, kind) \subseteq DOMAIN log
  BY DEF Positions
<1>6. Has(log, kind) => Latest(log \o evs, kind) = Latest(log, kind)
  <2>. HAVE Has(log, kind)
  <2>1. Max(Positions(log, kind)) \in DOMAIN log
    BY <1>1, <1>5, LastPosition DEF Has
  <2>. QED BY <2>1, <1>2, <1>4 DEF Latest
<1>. QED BY <1>2, <1>4, <1>5, <1>6 DEF Has

(* One event of a family is its latest, after those there were.              *)
LEMMA Heard ==
  ASSUME NEW log \in Seq(Events), NEW e \in Events
  PROVE  /\ Has(log \o <<e>>, e.event)
         /\ Latest(log \o <<e>>, e.event) = e
         /\ Positions(log \o <<e>>, e.event) = Positions(log, e.event) \cup {Len(log) + 1}
         /\ \A i \in Positions(log, e.event) : (log \o <<e>>)[i] = log[i]
         /\ (log \o <<e>>)[Len(log) + 1] = e
         /\ Cardinality(Positions(log \o <<e>>, e.event)) = Cardinality(Positions(log, e.event)) + 1
<1>. DEFINE next == log \o <<e>>
            old == Positions(log, e.event)
<1>1. /\ next \in Seq(Events) /\ Len(log) \in Nat /\ DOMAIN log = 1..Len(log)
      /\ DOMAIN next = 1..(Len(log) + 1) /\ next[Len(log) + 1] = e
      /\ \A i \in DOMAIN log : next[i] = log[i]
  OBVIOUS
<1>2. old \subseteq 1..Len(log)
  BY <1>1 DEF Positions
<1>. HIDE DEF next
<1>3. Positions(next, e.event) = old \cup {Len(log) + 1}
  BY <1>1 DEF Positions
<1>. HIDE DEF old
<1>4. Latest(next, e.event) = e
  <2>1. Len(log) + 1 \in Positions(next, e.event)
    BY <1>3
  <2>2. \A i \in 1..Len(log) \cup {Len(log) + 1} : i <= Len(log) + 1
    BY <1>1
  <2>3. Positions(next, e.event) \subseteq 1..Len(log) \cup {Len(log) + 1}
    BY <1>2, <1>3
  <2>. QED BY <2>1, <2>2, <2>3, <1>1, LatestAt
<1>5. IsFiniteSet(old)
  <2>1. IsFiniteSet(1..Len(log))
    BY <1>1, FS_Interval
  <2>. QED BY <2>1, <1>2, FS_Subset
<1>6. Len(log) + 1 \notin old
  BY <1>1, <1>2
<1>7. Cardinality(old \cup {Len(log) + 1}) = Cardinality(old) + 1
  BY <1>5, <1>6, FS_AddElement
<1>. QED BY <1>1, <1>2, <1>3, <1>4, <1>7 DEF next, old, Has

-----------------------------------------------------------------------------
(* What each step is heard to do.                                           *)

(* Nothing of family kind is heard of in this step.                         *)
Silent(kind) ==
  /\ Positions(audit', kind) = Positions(audit, kind)
  /\ \A i \in Positions(audit, kind) : audit'[i] = audit[i]
  /\ Has(audit', kind) <=> Has(audit, kind)
  /\ Has(audit, kind) => Latest(audit', kind) = Latest(audit, kind)

LEMMA SilentUnless ==
  ASSUME TypeOK, NEW evs \in Seq(Events), audit' = audit \o evs, NEW kind,
         \A j \in DOMAIN evs : evs[j].event # kind
  PROVE  Silent(kind)
<1>1. audit \in Seq(Events)
  BY DEF TypeOK
<1>2. /\ Positions(audit \o evs, kind) = Positions(audit, kind)
      /\ Has(audit \o evs, kind) <=> Has(audit, kind)
      /\ Has(audit, kind) => Latest(audit \o evs, kind) = Latest(audit, kind)
  BY <1>1, Unheard
<1>3. \A i \in Positions(audit, kind) : (audit \o evs)[i] = audit[i]
  BY <1>1, Unheard
<1>. QED BY <1>2, <1>3, Zenon DEF Silent

LEMMA SilentIfUnchanged ==
  ASSUME NEW kind, audit' = audit
  PROVE  Silent(kind)
BY DEF Silent

(* A single event.                                                          *)
LEMMA SaidOne ==
  ASSUME TypeOK, NEW e \in Events, audit' = audit \o <<e>>
  PROVE  /\ Has(audit', e.event) /\ Latest(audit', e.event) = e
         /\ Positions(audit', e.event) = Positions(audit, e.event) \cup {Len(audit) + 1}
         /\ \A i \in Positions(audit, e.event) : audit'[i] = audit[i]
         /\ audit'[Len(audit) + 1] = e
         /\ \A kind : kind # e.event => Silent(kind)
<1>1. audit \in Seq(Events)
  BY DEF TypeOK
<1>2. <<e>> \in Seq(Events) /\ \A j \in DOMAIN <<e>> : <<e>>[j] = e
  OBVIOUS
<1>3. \A kind : kind # e.event => Silent(kind)
  BY <1>2, SilentUnless
<1>. QED BY <1>1, <1>3, Heard

(* The events of an extraction: its own, then the verifier's if that ran.    *)
LEMMA ExtractionSaid ==
  ASSUME TypeOK, NEW n \in Nodes, NEW kind \in {"extraction", "critic_retry_executed"},
         NEW d \in Doc, audit' = audit \o ExtractionEvents(n, kind, d)
  PROVE  /\ Has(audit', kind)
         /\ Latest(audit', kind).value = IF kind = "extraction" THEN ExtractionVariant(d) ELSE d.status
         /\ Cardinality(Positions(audit', kind)) = Cardinality(Positions(audit, kind)) + 1
         /\ d.provenance = "empty" => Silent("verifier_summary")
         /\ d.provenance # "empty" => /\ Has(audit', "verifier_summary")
                                      /\ Latest(audit', "verifier_summary").value = d.status
         /\ \A k : k \notin {kind, "verifier_summary"} => Silent(k)
<1>. DEFINE v == IF kind = "extraction" THEN ExtractionVariant(d) ELSE d.status
            own == Event(kind, n, v)
            summary == Event("verifier_summary", n, d.status)
            first == audit \o <<own>>
<1>1. audit \in Seq(Events)
  BY DEF TypeOK
<1>2. own \in Events /\ summary \in Events
  <2>1. d.status \in EventValues /\ v \in EventValues
    BY DEF Doc, EventValues, ExtractionVariant
  <2>2. kind \in EventKinds /\ "verifier_summary" \in EventKinds
    BY DEF EventKinds
  <2>. QED BY <2>1, <2>2, EventTyped
<1>3. /\ own.event = kind /\ own.value = v
      /\ summary.event = "verifier_summary" /\ summary.value = d.status
  BY DEF Event
<1>4. audit' = IF d.provenance = "empty" THEN first ELSE first \o <<summary>>
  <2>. HIDE DEF own, summary
  <2>1. CASE d.provenance = "empty"
    <3>1. ExtractionEvents(n, kind, d) = <<own>> \o <<>>
      BY <2>1 DEF ExtractionEvents, own
    <3>. QED BY <3>1, <2>1, <1>1, <1>2
  <2>2. CASE d.provenance # "empty"
    <3>1. ExtractionEvents(n, kind, d) = <<own>> \o <<summary>>
      BY <2>2 DEF ExtractionEvents, own, summary
    <3>2. audit \o (<<own>> \o <<summary>>) = (audit \o <<own>>) \o <<summary>>
      BY <1>1, <1>2
    <3>. QED BY <3>1, <3>2, <2>2
  <2>. QED BY <2>1, <2>2
<1>. HIDE DEF v, own, summary
<1>5. /\ first \in Seq(Events) /\ Has(first, kind) /\ Latest(first, kind) = own
      /\ Cardinality(Positions(first, kind)) = Cardinality(Positions(audit, kind)) + 1
  BY <1>1, <1>2, <1>3, Heard
<1>. HIDE DEF first
<1>6. CASE d.provenance = "empty"
  <2>1. <<own>> \in Seq(Events) /\ \A j \in DOMAIN <<own>> : <<own>>[j].event = kind
    BY <1>2, <1>3
  <2>2. \A k : k # kind => Silent(k)
    BY <1>4, <1>6, <2>1, SilentUnless DEF first
  <2>. QED BY <1>3, <1>4, <1>5, <1>6, <2>2 DEF v
<1>7. CASE d.provenance # "empty"
  <2>1. /\ <<summary>> \in Seq(Events)
        /\ \A j \in DOMAIN <<summary>> : <<summary>>[j].event # kind
    BY <1>2, <1>3
  <2>2. /\ Has(audit', kind) /\ Latest(audit', kind) = own
        /\ Positions(audit', kind) = Positions(first, kind)
    <3>1. audit' = first \o <<summary>>
      BY <1>4, <1>7
    <3>2. /\ Positions(first \o <<summary>>, kind) = Positions(first, kind)
          /\ Has(first \o <<summary>>, kind) <=> Has(first, kind)
          /\ Has(first, kind) => Latest(first \o <<summary>>, kind) = Latest(first, kind)
      BY <1>5, <2>1, Unheard
    <3>. QED BY <3>1, <3>2, <1>5
  <2>3. Has(audit', "verifier_summary") /\ Latest(audit', "verifier_summary") = summary
    BY <1>2, <1>3, <1>4, <1>5, <1>7, Heard
  <2>4. \A k : k \notin {kind, "verifier_summary"} => Silent(k)
    <3>. DEFINE evs == <<own>> \o <<summary>>
    <3>1. audit \o evs = (audit \o <<own>>) \o <<summary>>
      BY <1>1, <1>2
    <3>2. evs \in Seq(Events) /\ DOMAIN evs = 1..2 /\ evs[1] = own /\ evs[2] = summary
      BY <1>2
    <3>. HIDE DEF evs
    <3>3. \A j \in DOMAIN evs : evs[j].event \in {kind, "verifier_summary"}
      BY <1>3, <3>2
    <3>4. audit' = audit \o evs
      BY <1>4, <1>7, <3>1 DEF first
    <3>. QED BY <3>2, <3>3, <3>4, SilentUnless
  <2>. QED BY <1>3, <1>5, <1>7, <2>2, <2>3, <2>4 DEF v
<1>. QED BY <1>6, <1>7

-----------------------------------------------------------------------------
(* What a step that is silent on a family leaves as it was.                 *)

LEMMA StillUnstationed ==
  ASSUME Stationed, pc # END, Silent("exception_station"),
         pc' # END \/ doc'.status \notin ExceptionStatuses
  PROVE  Stationed'
BY DEF Stationed, Silent

LEMMA StillRouted ==
  ASSUME Routed, Silent("route_decision"), doc'.last_gateway = doc.last_gateway,
         unmodeled' = unmodeled
  PROVE  Routed'
<1>1. DiversionShown' <=> DiversionShown
  BY DEF DiversionShown, Silent
<1>. QED BY <1>1 DEF Routed, Silent

LEMMA StillRetried ==
  ASSUME Retried, Silent("critic_retry_executed"), SameExtraction(doc', doc)
  PROVE  Retried'
BY DEF Retried, Silent, SameExtraction

LEMMA StillAttempted ==
  ASSUME Attempted, Silent("extraction"), Silent("verifier_summary"),
         doc'.retry_count = doc.retry_count,
         pc' \in {"n1", "n2", "n3"} => pc \in {"n1", "n2", "n3"},
         pc' \notin {"n1", "n2", "n3", RAISED} => pc \notin {"n1", "n2", "n3", RAISED}
  PROVE  Attempted'
<1>1. Verdict' = Verdict
  BY DEF Verdict, ExtractionExplanation, Silent
<1>2. Has(audit, "extraction") =>
        /\ Has(audit', "extraction")
        /\ ExtractionExplanation(audit).valid <=> ExtractionExplanation(audit').valid
  BY DEF ExtractionExplanation, Silent
<1>. QED BY <1>1, <1>2 DEF Attempted, Silent

(* Until the first extraction is made the document is new, and only then.    *)
LEMMA NewUntilExtracted ==
  IInv => (pc \in {"n1", "n2", "n3"} <=> doc.status = "NEW" /\ pc # RAISED)
BY DEF IInv, Reached, Fresh, Complete, Undecided, RAISED, END

(* Only a gateway diverts.                                                  *)
LEMMA OnlyGatewaysLog ==
  ASSUME IInv, IInv', NEW n \in Nodes \ Gateways, NEW d \in Doc, NEW evs, Commit(n, d, evs)
  PROVE  unmodeled' = unmodeled
<1>. DEFINE entry == [from |-> n, reason |-> Reason(doc', Outgoing[n])]
<1>1. unmodeled' = IF Diverted(n, doc') THEN Append(unmodeled, entry) ELSE unmodeled
  BY CommitMoves
<1>2. n # "n_threshold"
  BY OnProductionGraph DEF ProductionGateways
<1>3. unmodeled' \in {<<>>, <<[from |-> "n_threshold", reason |-> "no_route"]>>}
  BY DEF IInv, Logged
<1>4. unmodeled \in Seq(Unmodeled)
  BY DEF IInv, TypeOK
<1>5. CASE Diverted(n, doc')
  <2>1. entry \in Unmodeled /\ entry.from = n
    BY <1>5, DiversionReason DEF Unmodeled
  <2>. HIDE DEF entry
  <2>2. Append(unmodeled, entry) # <<>>
    <3>1. Len(Append(unmodeled, entry)) = Len(unmodeled) + 1 /\ Len(unmodeled) \in Nat
      BY <1>4, <2>1
    <3>2. Len(Append(unmodeled, entry)) # 0
      BY <3>1
    <3>. QED BY <3>2
  <2>3. ASSUME NEW e, Append(unmodeled, entry) = <<e>>
        PROVE  e = entry
    <3>1. Len(Append(unmodeled, entry)) = 1
      BY <2>3
    <3>2. Append(unmodeled, entry)[1] = entry
      BY <1>4, <2>1, <3>1
    <3>. QED BY <2>3, <3>2
  <2>. QED BY <1>1, <1>2, <1>3, <1>5, <2>1, <2>2, <2>3
<1>. QED BY <1>1, <1>5

(* What a commit does to the trail and to the last gateway.                  *)
LEMMA CommitTells ==
  ASSUME NEW n \in Nodes, NEW d \in Doc, NEW evs, Commit(n, d, evs)
  PROVE  /\ audit' = audit \o evs
         /\ n \notin Gateways => doc'.last_gateway = d.last_gateway
         /\ n \in Gateways => doc'.last_gateway = n
BY DEF Commit, Doc

(* A family that counts no event has none.                                  *)
LEMMA NoneCounted ==
  ASSUME NEW log \in Seq(Events), NEW kind, Cardinality(Positions(log, kind)) = 0
  PROVE  Positions(log, kind) = {}
<1>1. Positions(log, kind) \subseteq 1..Len(log) /\ Len(log) \in Nat
  BY DEF Positions
<1>2. IsFiniteSet(1..Len(log))
  BY <1>1, FS_Interval
<1>3. IsFiniteSet(Positions(log, kind))
  BY <1>1, <1>2, FS_Subset
<1>. QED BY <1>3, FS_EmptySet

(* An extraction leaves the last gateway alone.                             *)
LEMMA ExtractionLeaves ==
  ASSUME NEW d \in Doc, NEW failed, NEW r \in Extractions(d, failed)
  PROVE  r.last_gateway = d.last_gateway
<1>1. CASE \E family \in {"LLM_ERROR", "REJECTED"} : r = Refused(d, family)
  BY <1>1 DEF Refused, Doc
<1>2. CASE \E a \in Values, p \in BOOLEAN : r = Verified(d, a, p)
  BY <1>2 DEF Verified, Doc
<1>3. CASE \E f \in Leftover(d) : r = Unverified(d, failed, f.amount, f.has_po)
  BY <1>3 DEF Unverified, Doc
<1>. QED BY <1>1, <1>2, <1>3 DEF Extractions

-----------------------------------------------------------------------------
(* The invariant at each step.                                              *)

Families ==
  {"exception_station", "route_decision", "critic_retry_executed", "extraction", "verifier_summary"}

(* An exception leaves the trail as it is.                                  *)
LEMMA RaiseTrail ==
  ASSUME IInv, IInv', TrailInv, NEW n \in Nodes, pc = n, Raise
  PROVE  TrailInv'
<1>1. \A kind : Silent(kind)
  BY SilentIfUnchanged DEF Raise
<1>2. UNCHANGED <<doc, unmodeled>> /\ pc' = RAISED /\ pc # END /\ pc # RAISED
  BY GraphWellFormed DEF Raise
<1>3. Stationed'
  BY <1>1, <1>2, StillUnstationed DEF TrailInv, RAISED, END
<1>4. Routed' /\ Retried'
  BY <1>1, <1>2, StillRouted, StillRetried DEF TrailInv, SameExtraction
<1>5. Attempted'
  BY <1>1, <1>2, StillAttempted DEF TrailInv, RAISED
<1>. QED BY <1>3, <1>4, <1>5 DEF TrailInv

(* A node that neither extracts, decides nor reviews is silent.              *)
LEMMA QuietTrail ==
  ASSUME IInv, IInv', TrailInv, Step(pc), ~Raise,
         pc \in {"n1", "n2", "n4", "n5", "n6", "n7", "n_escalate"}
  PROVE  TrailInv'
<1>. DEFINE n == pc
<1>1. TypeOK /\ TypeOK' /\ doc \in Doc /\ n \in Nodes \ Gateways
  BY OnProductionGraph, NodeSet DEF IInv, TypeOK, ProductionGateways
<1>2. DecisionEvents(n) = <<>>
  BY <1>1 DEF DecisionEvents, Decides
<1>3. PICK d \in Doc, evs \in Seq(Events) :
        /\ Commit(n, d, evs) /\ d.last_gateway = doc.last_gateway
        /\ \A j \in DOMAIN evs : evs[j].event \in {"match_inputs", "match_result_set"}
        /\ d.status \notin ExceptionStatuses
        /\ d.status = "NEW" <=> n \in {"n1", "n2"}
  <2>. DEFINE none == <<>>
  <2>0. none \in Seq(Events) /\ \A j \in DOMAIN none : FALSE
    OBVIOUS
  <2>. HIDE DEF none
  <2>1. CASE n \in {"n1", "n2", "n7"}
    <3>1. Commit(n, doc, none)
      BY <1>2, <2>1, Handlers DEF PassThrough, none
    <3>2. doc.status \in {"NEW", "APPROVED"} /\ (doc.status = "NEW" <=> n \in {"n1", "n2"})
      BY <2>1 DEF IInv, Reached, Fresh, END, RAISED
    <3>3. doc.status \notin ExceptionStatuses
      BY <3>2 DEF ExceptionStatuses, StatusOf
    <3>. QED BY <1>1, <2>0, <2>1, <3>1, <3>2, <3>3
  <2>2. CASE n = "n4"
    <3>1. PICK v \in {"VALIDATED", "MISSING_DATA", doc.status} :
            Commit(n, [doc EXCEPT !.status = v], none)
      BY <2>2, Handlers DEF ValidateFields, none
    <3>2. v \in {"DATA_EXTRACTED", "VALIDATED", "MISSING_DATA"}
      BY <2>2 DEF IInv, Reached, Complete, Undecided, END, RAISED
    <3>3. v \notin ExceptionStatuses /\ v # "NEW" /\ v \in Statuses
      BY <3>2 DEF ExceptionStatuses, StatusOf, Statuses
    <3>. DEFINE d == [doc EXCEPT !.status = v]
    <3>4. d \in Doc /\ d.status = v /\ d.last_gateway = doc.last_gateway
      BY <1>1, <3>3 DEF Doc
    <3>. HIDE DEF d
    <3>5. Commit(n, d, none)
      BY <3>1 DEF d
    <3>. QED BY <2>0, <2>2, <3>3, <3>4, <3>5
  <2>3. CASE n = "n5"
    <3>. DEFINE d == [doc EXCEPT !.match_3_way = (MatchFlag # None /\ MatchFlag),
                                 !.match_result = MatchResult]
                evs == <<Event("match_inputs", n, "flags"), Event("match_result_set", n, MatchResult)>>
    <3>1. Commit(n, d, evs)
      BY <2>3, Handlers DEF Match3Way
    <3>2. MatchResult \in MatchResults /\ MatchFlag \in BOOLEAN
      <4>1. doc.po_match \in BOOLEAN /\ doc.po_match # None
        BY NotANumber DEF IInv
      <4>. QED BY <4>1 DEF MatchResult, MatchFlag, MatchResults
    <3>3. d \in Doc /\ d.status = doc.status /\ d.last_gateway = doc.last_gateway
      BY <1>1, <3>2 DEF Doc
    <3>4. evs \in Seq(Events)
      BY <1>1, <3>2, EventTyped DEF EventKinds, EventValues
    <3>5. \A j \in DOMAIN evs : evs[j].event \in {"match_inputs", "match_result_set"}
      BY DEF Event
    <3>. HIDE DEF d, evs
    <3>6. doc.status \in {"DATA_EXTRACTED", "VALIDATED", "MISSING_DATA"}
      BY <2>3 DEF IInv, Reached, Complete, Undecided, END, RAISED
    <3>7. doc.status \notin ExceptionStatuses /\ doc.status # "NEW"
      BY <3>6 DEF ExceptionStatuses, StatusOf
    <3>. QED BY <2>3, <3>1, <3>3, <3>4, <3>5, <3>7
  <2>4. CASE n \in {"n6", "n_escalate"}
    <3>. DEFINE v == SetsStatus[Intent[n]]
                d == [doc EXCEPT !.status = v]
    <3>1. Commit(n, d, none)
      BY <1>2, <2>4, Handlers DEF AssignStatus, none
    <3>2. v \in {"APPROVED", "ESCALATED"}
      BY <2>4, IntentTable DEF SetsStatus
    <3>3. v \notin ExceptionStatuses /\ v # "NEW" /\ v \in Statuses
      BY <3>2 DEF ExceptionStatuses, StatusOf, Statuses
    <3>. HIDE DEF v
    <3>4. d \in Doc /\ d.status = v /\ d.last_gateway = doc.last_gateway
      BY <1>1, <3>3 DEF Doc
    <3>. HIDE DEF d
    <3>. QED BY <2>0, <2>4, <3>1, <3>3, <3>4
  <2>. QED BY <2>1, <2>2, <2>3, <2>4
<1>4. \A kind \in Families : Silent(kind)
  <2>1. audit' = audit \o evs
    BY <1>1, <1>3, CommitTells
  <2>2. \A kind \in Families : \A j \in DOMAIN evs : evs[j].event # kind
    BY <1>3 DEF Families
  <2>. QED BY <1>1, <1>3, <2>1, <2>2, SilentUnless
<1>5. doc'.last_gateway = doc.last_gateway /\ doc'.status = d.status /\ unmodeled' = unmodeled
  BY <1>1, <1>3, CommitTells, CommitMoves, OnlyGatewaysLog
<1>6. SameExtraction(doc', doc)
  <2>1. Intent[n] \notin {"ENTER_RECORD", "CRITIC_RETRY"}
    BY IntentTable
  <2>. QED BY <1>1, <2>1, OnlyExtractionWritesFields
<1>7. pc' # RAISED
  BY <1>1, <1>3, CommitNeverRaises
<1>8. pc' \in {"n1", "n2", "n3"} <=> n \in {"n1", "n2"}
  <2>1. (IInv => (pc \in {"n1", "n2", "n3"} <=> doc.status = "NEW" /\ pc # RAISED))'
    BY NewUntilExtracted, PTL
  <2>. QED BY <2>1, <1>3, <1>5, <1>7
<1>9. pc # END /\ pc # RAISED
  BY DEF END, RAISED
<1>10. Stationed'
  BY <1>3, <1>4, <1>5, <1>9, StillUnstationed DEF TrailInv, Families
<1>11. Routed' /\ Retried'
  BY <1>4, <1>5, <1>6, StillRouted, StillRetried DEF TrailInv, Families
<1>12. Attempted'
  BY <1>4, <1>6, <1>7, <1>8, <1>9, StillAttempted DEF TrailInv, Families, SameExtraction
<1>. QED BY <1>10, <1>11, <1>12 DEF TrailInv

(* A station is heard of once, as the run ends with its status.             *)
LEMMA StationTrail ==
  ASSUME IInv, IInv', TrailInv, Step(pc),
         pc \in {"n_no_match", "n_exception", "n_exc_bad_extraction", "n_exc_no_route"}
  PROVE  TrailInv'
<1>. DEFINE n == pc
            reason == CASE pc = "n_no_match" -> "MATCH_FAILED"
                        [] pc = "n_exception" -> "NO_PO"
                        [] pc = "n_exc_bad_extraction" -> "BAD_EXTRACTION"
                        [] pc = "n_exc_no_route" -> "NO_ROUTE"
            final == StatusOf[reason]
            d == [doc EXCEPT !.status = final]
            e == Event("exception_station", n, reason)
<1>1. TypeOK /\ TypeOK' /\ doc \in Doc /\ n \in Nodes \ Gateways
  BY OnProductionGraph, NodeSet DEF IInv, TypeOK, ProductionGateways
<1>2. /\ reason \in DOMAIN StatusOf /\ final \in ExceptionStatuses
      /\ ExpectedStatus(reason) = final /\ final \in Statuses /\ final # "NEW"
  BY DEF StatusOf, ExceptionStatuses, ExpectedStatus, Statuses
<1>3. Commit(n, d, <<e>>)
  <2>1. CASE pc \in {"n_no_match", "n_exception"}
    <3>1. ManualReview[Intent[pc]] = final /\ FlagReason[Intent[pc]] = reason
      BY <2>1, IntentTable DEF ManualReview, FlagReason, StatusOf
    <3>. QED BY <2>1, <3>1, Handlers DEF FlagForReview
  <2>2. CASE pc \in {"n_exc_bad_extraction", "n_exc_no_route"}
    <3>1. ReviewReason[pc] = reason
      BY <2>2, OnProductionGraph, NodeSet DEF ProductionReviewReason
    <3>2. ReviewStatus[reason] = final
      BY <2>2 DEF ReviewStatus, StatusOf
    <3>. QED BY <2>2, <3>1, <3>2, Handlers DEF RouteForReview
  <2>. QED BY <2>1, <2>2
<1>4. /\ e \in Events /\ e.event = "exception_station"
      /\ e.value = reason /\ e.gateway = doc.last_gateway
  <2>1. reason \in EventValues /\ "exception_station" \in EventKinds
    BY DEF EventValues, EventKinds, ReviewStatus
  <2>2. e \in Events
    BY <1>1, <2>1, EventTyped
  <2>. QED BY <2>2 DEF Event
<1>. HIDE DEF e, final
<1>5. d \in Doc /\ d.status = final /\ d.last_gateway = doc.last_gateway
  BY <1>1, <1>2 DEF Doc
<1>. HIDE DEF d, reason
<1>6. /\ doc'.last_gateway = doc.last_gateway /\ doc'.status = final
      /\ audit' = audit \o <<e>> /\ unmodeled' = unmodeled
  BY <1>1, <1>3, <1>5, CommitTells, CommitMoves, OnlyGatewaysLog
<1>7. pc' = END
  BY <1>1, <1>3, <1>5, Stop, EdgeTable
<1>8. SameExtraction(doc', doc)
  <2>1. Intent[n] \notin {"ENTER_RECORD", "CRITIC_RETRY"}
    BY IntentTable
  <2>. QED BY <1>1, <2>1, OnlyExtractionWritesFields
<1>9. /\ Has(audit', "exception_station") /\ Latest(audit', "exception_station") = e
      /\ \A kind : kind # "exception_station" => Silent(kind)
  BY <1>1, <1>4, <1>6, SaidOne
<1>10. Stationed'
  BY <1>2, <1>4, <1>6, <1>7, <1>9 DEF Stationed
<1>11. Routed' /\ Retried'
  BY <1>6, <1>8, <1>9, StillRouted, StillRetried DEF TrailInv
<1>12. Attempted'
  <2>1. pc \notin {"n1", "n2", "n3", RAISED} /\ pc' \notin {"n1", "n2", "n3"}
    BY <1>7 DEF RAISED, END
  <2>. QED BY <2>1, <1>8, <1>9, StillAttempted DEF TrailInv, SameExtraction
<1>. QED BY <1>10, <1>11, <1>12 DEF TrailInv

(* A gateway is heard to decide, and to divert when it is left through a     *)
(* station.                                                                 *)
LEMMA GatewayTrail ==
  ASSUME IInv, IInv', TrailInv, Step(pc), pc \in Gateways
  PROVE  TrailInv'
<1>. DEFINE n == pc
            out == Outgoing[n]
            e == Event("route_decision", n, Decision(n).reason)
<1>1. TypeOK /\ TypeOK' /\ doc \in Doc /\ n \in Nodes /\ n \in {"n_threshold", "n5_decision"}
  BY GraphWellFormed, GatewayReads DEF IInv, TypeOK
<1>2. Decides(n) /\ ~Leaves(n) /\ Outgoing[n] # <<>>
  BY GatewayReads DEF Decides
<1>3. Commit(n, doc, <<e>>)
  BY <1>1, <1>2, Handlers DEF PassThrough, DecisionEvents
<1>4. /\ e \in Events /\ e.event = "route_decision"
      /\ e.node = n /\ e.value = Reason(doc, out)
  <2>1. Decision(n).reason \in EventValues /\ "route_decision" \in EventKinds
    BY <1>1, <1>2, DecisionTyped DEF Decisions, EventValues, EventKinds
  <2>2. e \in Events
    BY <1>1, <2>1, EventTyped
  <2>. QED BY <2>2 DEF Event, Decision
<1>. HIDE DEF e
<1>5. /\ doc'.last_gateway = n /\ doc'.status = doc.status /\ audit' = audit \o <<e>>
      /\ unmodeled' = IF Diverted(n, doc')
                      THEN Append(unmodeled, [from |-> n, reason |-> Reason(doc', out)])
                      ELSE unmodeled
  BY <1>1, <1>3, CommitTells, CommitMoves
<1>6. SameExtraction(doc', doc)
  <2>1. Intent[n] \notin {"ENTER_RECORD", "CRITIC_RETRY"}
    BY <1>1, IntentTable
  <2>. QED BY <1>1, <2>1, OnlyExtractionWritesFields
<1>7. /\ Has(audit', "route_decision") /\ Latest(audit', "route_decision") = e
      /\ Positions(audit', "route_decision") = Positions(audit, "route_decision") \cup {Len(audit) + 1}
      /\ \A i \in Positions(audit, "route_decision") : audit'[i] = audit[i]
      /\ audit'[Len(audit) + 1] = e
      /\ \A kind : kind # "route_decision" => Silent(kind)
  BY <1>1, <1>4, <1>5, SaidOne
<1>8. Diverted(n, doc') <=> Reason(doc, out) \in {"ambiguous_route", "no_route"}
  <2>1. \A f \in {"amount", "match_result"} : doc[f] = doc'[f]
    BY <1>1, <1>3 DEF Commit, Doc
  <2>2. Selection(doc, out) = Selection(doc', out)
    BY <2>1, GatewayReads, SameFieldsSameRoute
  <2>3. DOMAIN out = 1..Len(out) /\ Len(out) \in Nat \ {0}
    <3>1. out \in Seq(OutEdges(n))
      BY <1>1, GraphWellFormed
    <3>. QED BY <3>1, <1>2, NonEmptyList
  <2>. HIDE DEF out
  <2>4. Selection(doc, out) = {} <=> Reason(doc, out) \in {"ambiguous_route", "no_route"}
    BY <2>3, SelectionEmpty
  <2>. QED BY <2>2, <2>4, <1>2 DEF Diverted, out
<1>9. DiversionShown' <=> DiversionShown \/ Diverted(n, doc')
  BY <1>4, <1>7, <1>8 DEF DiversionShown
<1>10. unmodeled' # <<>> <=> unmodeled # <<>> \/ Diverted(n, doc')
  <2>1. unmodeled \in Seq(Unmodeled) /\ unmodeled' \in Seq(Unmodeled)
    BY <1>1 DEF TypeOK
  <2>2. CASE Diverted(n, doc')
    <3>. DEFINE entry == [from |-> n, reason |-> Reason(doc', out)]
    <3>1. entry \in Unmodeled
      BY <1>1, <2>2, DiversionReason DEF Unmodeled
    <3>. HIDE DEF entry
    <3>2. unmodeled' = Append(unmodeled, entry)
      BY <1>5, <2>2 DEF entry
    <3>3. Len(unmodeled') = Len(unmodeled) + 1 /\ Len(unmodeled) \in Nat
      BY <2>1, <3>1, <3>2
    <3>4. Len(unmodeled') # 0
      BY <3>3
    <3>. QED BY <2>2, <3>4
  <2>. QED BY <2>2, <1>5
<1>11. Routed'
  BY <1>4, <1>5, <1>7, <1>9, <1>10 DEF Routed, TrailInv
<1>12. pc # END /\ pc # RAISED /\ doc.status \notin ExceptionStatuses \cup {"NEW"}
  <2>1. doc.status \in {"DATA_EXTRACTED", "VALIDATED", "MISSING_DATA"}
    BY <1>1 DEF IInv, Reached, Complete, Undecided, END, RAISED
  <2>2. doc.status \notin ExceptionStatuses \cup {"NEW"}
    BY <2>1 DEF ExceptionStatuses, StatusOf
  <2>. QED BY <1>1, <2>2 DEF END, RAISED
<1>13. Stationed'
  BY <1>5, <1>7, <1>12, StillUnstationed DEF TrailInv
<1>14. Retried'
  BY <1>6, <1>7, StillRetried DEF TrailInv
<1>15. Attempted'
  <2>1. pc' \notin {"n1", "n2", "n3"} /\ pc \notin {"n1", "n2", "n3"}
    <3>1. (IInv => (pc \in {"n1", "n2", "n3"} <=> doc.status = "NEW" /\ pc # RAISED))'
      BY NewUntilExtracted, PTL
    <3>. QED BY <3>1, <1>1, <1>5, <1>12
  <2>. QED BY <2>1, <1>6, <1>7, <1>12, StillAttempted DEF TrailInv, SameExtraction
<1>. QED BY <1>11, <1>13, <1>14, <1>15 DEF TrailInv

(* First extraction is heard of, and what the verifier said of it.           *)
LEMMA EnterRecordTrail ==
  ASSUME IInv, IInv', TrailInv, pc = "n3", Step("n3"), ~Raise
  PROVE  TrailInv'
<1>1. TypeOK /\ doc \in Doc /\ "n3" \in Nodes \ Gateways
  BY OnProductionGraph, NodeSet DEF IInv, TypeOK, ProductionGateways
<1>2. doc.retry_count = 0 /\ doc.provenance = "empty" /\ unmodeled = <<>>
  BY DEF IInv, Reached, Fresh, Logged, END, RAISED
<1>3. PICK d \in Extractions(doc, "NEEDS_RETRY") :
        Commit("n3", d, ExtractionEvents("n3", "extraction", d))
  BY <1>2, Handlers DEF EnterRecord
<1>4. d \in Doc /\ d.last_gateway = doc.last_gateway
  BY <1>1, ExtractionsTyped, ExtractionLeaves
<1>5. /\ audit' = audit \o ExtractionEvents("n3", "extraction", d)
      /\ doc'.last_gateway = doc.last_gateway /\ unmodeled' = unmodeled
      /\ doc'.status = d.status /\ doc'.retry_count = d.retry_count
      /\ doc'.provenance = d.provenance
  BY <1>1, <1>3, <1>4, CommitTells, CommitMoves, OnlyGatewaysLog
<1>6. /\ d.retry_count = 0
      /\ \/ /\ d.status = "BAD_EXTRACTION" /\ d.provenance = "empty"
         \/ /\ d.status = "DATA_EXTRACTED" /\ d.provenance = "passed"
         \/ /\ d.status = "NEEDS_RETRY" /\ d.provenance = "failed"
  BY <1>1, <1>2, ExtractionOutcome
<1>7. /\ Has(audit', "extraction") /\ Latest(audit', "extraction").value = ExtractionVariant(d)
      /\ d.provenance = "empty" => Silent("verifier_summary")
      /\ d.provenance # "empty" => /\ Has(audit', "verifier_summary")
                                   /\ Latest(audit', "verifier_summary").value = d.status
      /\ \A k : k \notin {"extraction", "verifier_summary"} => Silent(k)
  BY <1>1, <1>4, <1>5, ExtractionSaid
<1>8. Stationed'
  <2>1. doc'.status \notin ExceptionStatuses
    BY <1>5, <1>6 DEF ExceptionStatuses, StatusOf
  <2>. QED BY <2>1, <1>7, StillUnstationed DEF TrailInv, END
<1>9. Routed'
  BY <1>5, <1>7, StillRouted DEF TrailInv
<1>10. Retried'
  <2>1. ~Has(audit, "critic_retry_executed")
    <3>1. Cardinality(Positions(audit, "critic_retry_executed")) = 0
      BY <1>2 DEF TrailInv, Retried
    <3>. QED BY <1>1, <3>1, NoneCounted DEF TypeOK, Has
  <2>. QED BY <2>1, <1>2, <1>5, <1>6, <1>7 DEF TrailInv, Retried, Silent
<1>11. Attempted'
  <2>1. pc' \notin {"n1", "n2", "n3"}
    <3>1. (IInv => (pc \in {"n1", "n2", "n3"} <=> doc.status = "NEW" /\ pc # RAISED))'
      BY NewUntilExtracted, PTL
    <3>. QED BY <3>1, <1>5, <1>6
  <2>2. ExtractionVariant(d) = "valid" <=> d.status = "DATA_EXTRACTED"
    BY <1>6 DEF ExtractionVariant
  <2>3. ~Has(audit, "verifier_summary")
    BY DEF TrailInv, Attempted
  <2>4. CASE d.provenance = "empty"
    BY <1>6, <1>7, <2>1, <2>2, <2>3, <2>4 DEF Attempted, Verdict, ExtractionExplanation, Silent
  <2>5. CASE d.provenance # "empty"
    BY <1>6, <1>7, <2>1, <2>2, <2>5 DEF Attempted, Verdict, ExtractionExplanation
  <2>. QED BY <2>4, <2>5
<1>. QED BY <1>8, <1>9, <1>10, <1>11 DEF TrailInv

(* The critic is heard of, with the status it leaves.                       *)
LEMMA CriticRetryTrail ==
  ASSUME IInv, IInv', TrailInv, pc = "n_critic_retry", Step("n_critic_retry"), ~Raise
  PROVE  TrailInv'
<1>. DEFINE n == "n_critic_retry"
            retried == [doc EXCEPT !.retry_count = @ + 1]
<1>1. TypeOK /\ doc \in Doc /\ n \in Nodes \ Gateways
  BY OnProductionGraph, NodeSet DEF IInv, TypeOK, ProductionGateways
<1>2. doc.retry_count = 0
  BY DEF IInv, Reached, END, RAISED
<1>3. PICK d \in Extractions(retried, "BAD_EXTRACTION") :
        Commit(n, d, ExtractionEvents(n, "critic_retry_executed", d))
  BY Handlers DEF CriticRetry
<1>4. retried \in Doc /\ retried.retry_count = 1 /\ retried.last_gateway = doc.last_gateway
  <2>1. doc.retry_count + 1 = 1 /\ doc.retry_count + 1 \in Nat
    BY <1>2
  <2>. QED BY <1>1, <2>1 DEF Doc
<1>. HIDE DEF retried
<1>5. d \in Doc /\ d.last_gateway = doc.last_gateway
  BY <1>4, ExtractionsTyped, ExtractionLeaves
<1>6. /\ audit' = audit \o ExtractionEvents(n, "critic_retry_executed", d)
      /\ doc'.last_gateway = doc.last_gateway /\ unmodeled' = unmodeled
      /\ doc'.status = d.status /\ doc'.retry_count = d.retry_count
      /\ doc'.provenance = d.provenance
  BY <1>1, <1>3, <1>5, CommitTells, CommitMoves, OnlyGatewaysLog
<1>7. /\ d.retry_count = 1
      /\ \/ /\ d.status = "BAD_EXTRACTION" /\ d.provenance \in {"empty", "failed"}
         \/ /\ d.status = "DATA_EXTRACTED" /\ d.provenance = "passed"
  BY <1>4, ExtractionOutcome
<1>8. /\ Has(audit', "critic_retry_executed")
      /\ Latest(audit', "critic_retry_executed").value = d.status
      /\ Cardinality(Positions(audit', "critic_retry_executed"))
           = Cardinality(Positions(audit, "critic_retry_executed")) + 1
      /\ d.provenance = "empty" => Silent("verifier_summary")
      /\ d.provenance # "empty" => /\ Has(audit', "verifier_summary")
                                   /\ Latest(audit', "verifier_summary").value = d.status
      /\ \A k : k \notin {"critic_retry_executed", "verifier_summary"} => Silent(k)
  BY <1>1, <1>5, <1>6, ExtractionSaid
<1>9. Stationed'
  <2>1. doc'.status \notin ExceptionStatuses
    BY <1>6, <1>7 DEF ExceptionStatuses, StatusOf
  <2>. QED BY <2>1, <1>8, StillUnstationed DEF TrailInv, END
<1>10. Routed'
  BY <1>6, <1>8, StillRouted DEF TrailInv
<1>11. Retried'
  <2>1. Cardinality(Positions(audit, "critic_retry_executed")) = 0
    BY <1>2 DEF TrailInv, Retried
  <2>. QED BY <2>1, <1>6, <1>7, <1>8 DEF Retried
<1>12. Attempted'
  <2>1. pc' \notin {"n1", "n2", "n3"}
    <3>1. (IInv => (pc \in {"n1", "n2", "n3"} <=> doc.status = "NEW" /\ pc # RAISED))'
      BY NewUntilExtracted, PTL
    <3>. QED BY <3>1, <1>6, <1>7
  <2>2. doc'.retry_count # 0
    BY <1>6, <1>7
  <2>3. Has(audit', "verifier_summary") =>
          Verdict' \in {"DATA_EXTRACTED", "NEEDS_RETRY", "BAD_EXTRACTION"}
    BY <1>7, <1>8 DEF TrailInv, Attempted, Verdict, ExtractionExplanation, Silent
  <2>. QED BY <2>1, <2>2, <2>3 DEF Attempted
<1>. QED BY <1>9, <1>10, <1>11, <1>12 DEF TrailInv

-----------------------------------------------------------------------------

LEMMA TrailInitially == Init => TrailInv
<1>. SUFFICES ASSUME Init PROVE TrailInv
  OBVIOUS
<1>1. PICK m \in PoMatchInputs, legacy \in LegacyInputs :
        doc = [status |-> "NEW", amount |-> 0, has_po |-> FALSE, po_match |-> m,
               match_3_way |-> IF legacy = None THEN m ELSE legacy,
               match_result |-> "UNKNOWN", retry_count |-> 0,
               failure_codes |-> "none", provenance |-> "empty", last_gateway |-> ""]
  BY DEF Init
<1>2. pc = "n1" /\ audit = <<>> /\ unmodeled = <<>> /\ doc.retry_count = 0 /\ doc.last_gateway = ""
  BY <1>1, OnProductionGraph DEF Init
<1>3. \A kind : Positions(audit, kind) = {}
  <2>1. \A kind, i : i \notin Positions(<<>>, kind)
    BY DEF Positions
  <2>. QED BY <1>2, <2>1
<1>4. \A kind : ~Has(audit, kind)
  BY <1>3 DEF Has
<1>5. Cardinality(Positions(audit, "critic_retry_executed")) = 0
  BY <1>3, FS_EmptySet
<1>6. Stationed
  BY <1>2, <1>4 DEF Stationed, END
<1>7. Routed
  BY <1>2, <1>3, <1>4 DEF Routed, DiversionShown
<1>8. Retried
  BY <1>2, <1>4, <1>5 DEF Retried
<1>9. Attempted
  BY <1>2, <1>4 DEF Attempted
<1>. QED BY <1>6, <1>7, <1>8, <1>9 DEF TrailInv

(* The trail's invariant is inductive relative to the workflow's.            *)
LEMMA TrailHolds == SafeSpec => [](IInv /\ TrailInv)
<1>1. IInv /\ IInv' /\ TrailInv /\ [Next]_vars => TrailInv'
  <2>1. ASSUME IInv, IInv', TrailInv, NEW n \in Nodes, Step(n) PROVE TrailInv'
    <3>1. pc = n
      BY <2>1, HandledBy
    <3>2. pc \in {"n1", "n2", "n3", "n_critic_retry", "n4", "n_threshold", "n5", "n5_decision",
                  "n6", "n7", "n_no_match", "n_escalate", "n_exception",
                  "n_exc_bad_extraction", "n_exc_no_route"}
      BY <2>1, <3>1, GraphWellFormed DEF IInv, Reached
    <3>3. CASE Raise
      BY <2>1, <3>1, <3>3, RaiseTrail
    <3>4. CASE ~Raise
      <4>1. pc \in {"n_threshold", "n5_decision"} => pc \in Gateways
        BY OnProductionGraph DEF ProductionGateways
      <4>. QED BY <2>1, <3>1, <3>2, <3>4, <4>1, QuietTrail, StationTrail, GatewayTrail,
                  EnterRecordTrail, CriticRetryTrail
    <3>. QED BY <3>3, <3>4
  <2>2. TrailInv /\ UNCHANGED vars => TrailInv'
    BY DEF vars, TrailInv, Stationed, Routed, DiversionShown, Retried, Attempted, Verdict
  <2>. QED BY <2>1, <2>2 DEF Next
<1>. QED BY <1>1, TrailInitially, InvariantHolds, PTL DEF SafeSpec

(* The statuses a run ends with, as the explanation files them.              *)
LEMMA Filed ==
  \A s \in FinalStatuses :
    /\ s \in ExceptionStatuses <=> s \notin {"APPROVED", "ESCALATED"}
    /\ Category(s) = "exception" <=> s \notin {"APPROVED", "ESCALATED"}
<1>1. ExceptionStatuses =
        {"EXCEPTION_BAD_EXTRACTION", "EXCEPTION_UNMODELED_GATE", "EXCEPTION_AMBIGUOUS_ROUTE",
         "EXCEPTION_NO_ROUTE", "EXCEPTION_NO_PO", "EXCEPTION_MATCH_FAILED", "EXCEPTION_UNMODELED",
         "EXCEPTION_UNKNOWN"}
  BY DEF ExceptionStatuses, StatusOf
<1>. QED BY <1>1 DEF FinalStatuses, Category

(* A finished run's trail names its exception, the gateway it followed and   *)
(* whether it was diverted; the trail of any other run names none.           *)
THEOREM ExceptionIsExplained == SafeSpec => []ExceptionExplained
<1>1. IInv /\ TrailInv => ExceptionExplained
  <2>. SUFFICES ASSUME IInv, TrailInv, pc = END PROVE ExceptionExplained
    BY DEF ExceptionExplained
  <2>. DEFINE routing == RoutingExplanation(audit)
              exception == ExceptionExplanation(audit)
  <2>1. doc.status \in FinalStatuses
    BY DEF IInv, Reached, FinalStatuses, END, RAISED
  <2>2. /\ DOMAIN routing = Positions(audit, "route_decision")
        /\ \A i \in DOMAIN routing :
             /\ routing[i].gateway = audit[i].node
             /\ routing[i].is_exception_route <=> audit[i].value \in {"ambiguous_route", "no_route"}
    BY DEF RoutingExplanation
  <2>. HIDE DEF routing
  <2>3. (\E i \in DOMAIN routing : routing[i].is_exception_route) <=> unmodeled # <<>>
    BY <2>2 DEF TrailInv, Routed, DiversionShown
  <2>4. CASE doc.status \in ExceptionStatuses
    <3>1. /\ Has(audit, "exception_station")
          /\ ExpectedStatus(Latest(audit, "exception_station").value) = doc.status
          /\ Latest(audit, "exception_station").gateway = doc.last_gateway
      BY <2>4 DEF TrailInv, Stationed
    <3>2. InferredStatus(audit) = doc.status
      BY <3>1 DEF InferredStatus
    <3>3. exception.expected_status = doc.status /\ exception.triggering_gateway = doc.last_gateway
      BY <3>1 DEF ExceptionExplanation
    <3>4. doc.last_gateway = IF DOMAIN routing = {} THEN "" ELSE routing[Max(DOMAIN routing)].gateway
      <4>1. CASE Has(audit, "route_decision")
        <5>1. Positions(audit, "route_decision") \subseteq 1..Len(audit) /\ Len(audit) \in Nat
          BY DEF Positions, IInv, TypeOK
        <5>2. Max(DOMAIN routing) \in DOMAIN routing
          BY <2>2, <4>1, <5>1, LastPosition DEF Has
        <5>3. routing[Max(DOMAIN routing)].gateway = Latest(audit, "route_decision").node
          BY <2>2, <5>2 DEF Latest
        <5>. QED BY <2>2, <4>1, <5>3 DEF TrailInv, Routed, Has
      <4>2. CASE ~Has(audit, "route_decision")
        BY <2>2, <4>2 DEF TrailInv, Routed, Has
      <4>. QED BY <4>1, <4>2
    <3>5. Category(doc.status) = "exception"
      BY <2>1, <2>4, Filed
    <3>. HIDE DEF exception
    <3>. QED BY <2>3, <3>2, <3>3, <3>4, <3>5 DEF ExceptionExplained, routing, exception
  <2>5. CASE doc.status \notin ExceptionStatuses
    <3>1. ~Has(audit, "exception_station")
      BY <2>5 DEF TrailInv, Stationed
    <3>2. Has(audit, "verifier_summary") =>
            Latest(audit, "verifier_summary").value \in
              {"DATA_EXTRACTED", "NEEDS_RETRY", "BAD_EXTRACTION"}
      BY DEF TrailInv, Attempted, Verdict, ExtractionExplanation
    <3>3. InferredStatus(audit) \in {"DATA_EXTRACTED", "NEEDS_RETRY", "BAD_EXTRACTION", "UNKNOWN"}
      BY <3>1, <3>2 DEF InferredStatus
    <3>4. InferredStatus(audit) \notin ExceptionStatuses
      BY <3>3 DEF ExceptionStatuses, StatusOf
    <3>5. Category(doc.status) # "exception"
      BY <2>1, <2>5, Filed
    <3>6. unmodeled = <<>>
      <4>1. doc.status # "EXCEPTION_NO_ROUTE"
        BY <2>5 DEF ExceptionStatuses, StatusOf
      <4>. QED BY <4>1 DEF IInv, Logged, END
    <3>. QED BY <2>3, <3>4, <3>5, <3>6 DEF ExceptionExplained, routing
  <2>. QED BY <2>4, <2>5
<1>. QED BY <1>1, TrailHolds, PTL

(* The trail counts the retries that were made and tells how the last one    *)
(* came out; without one it tells how first extraction came out.             *)
THEOREM RetriesAreExplained == SafeSpec => []RetryExplained
<1>1. IInv /\ TrailInv => RetryExplained
  <2>. SUFFICES ASSUME IInv, TrailInv PROVE RetryExplained
    OBVIOUS
  <2>. DEFINE retry == RetryExplanation(audit)
              extraction == ExtractionExplanation(audit)
  <2>1. /\ retry.total_attempts = Cardinality(Positions(audit, "critic_retry_executed"))
        /\ retry.final_status = IF Has(audit, "critic_retry_executed")
                                THEN Latest(audit, "critic_retry_executed").value ELSE "none"
    BY DEF RetryExplanation
  <2>2. retry.total_attempts = doc.retry_count
    BY <2>1 DEF TrailInv, Retried
  <2>3. /\ retry.final_status = "BAD_EXTRACTION" => doc.provenance # "passed"
        /\ retry.final_status = "DATA_EXTRACTED" => doc.provenance = "passed"
    BY <2>1 DEF TrailInv, Retried
  <2>4. pc = END /\ doc.provenance # "passed" => doc.status = "EXCEPTION_BAD_EXTRACTION"
    BY DEF IInv, Reached, Extracted, END, RAISED
  <2>5. pc = END /\ doc.retry_count = 0 =>
          (extraction.valid <=> extraction.status_after = "DATA_EXTRACTED")
    BY DEF TrailInv, Attempted, Verdict, END, RAISED
  <2>6. extraction.valid \in BOOLEAN
    BY DEF ExtractionExplanation
  <2>7. pc = END /\ doc.retry_count = 0 =>
          extraction.valid = (extraction.status_after = "DATA_EXTRACTED")
    BY <2>5, <2>6
  <2>. HIDE DEF retry, extraction
  <2>. QED BY <2>2, <2>3, <2>4, <2>7 DEF RetryExplained, retry, extraction
<1>. QED BY <1>1, TrailHolds, PTL
=============================================================================
