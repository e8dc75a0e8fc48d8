--------------------------- MODULE ProductionGraph ---------------------------
(***************************************************************************)
(* The part of the production accounts-payable graph an invoice can reach: *)
(* the mined nodes n1-n7 and n35, and what patch_logic.py and the passes   *)
(* of src/normalize_graph.py add to them.                                  *)
(***************************************************************************)
EXTENDS EdgeTerms, Integers

CONSTANT Threshold   \* PolicyConfig.approval_threshold

ASSUME ThresholdIsAmount == Threshold \in Nat

MinedNodes == {"n1", "n2", "n3", "n4", "n5", "n6", "n7", "n35"}

PatchNodes == {"n_threshold", "n_escalate", "n_reject", "n_exception", "n_critic_retry"}

StationNodes ==
  {"n_exc_bad_extraction", "n_exc_unmodeled_gate", "n_exc_ambiguous_route", "n_exc_no_route"}

NormalizedNodes == {"n5_decision", "n_no_match"}

ProductionNodes == MinedNodes \cup PatchNodes \cup StationNodes \cup NormalizedNodes

(* Mutant: the extracting task n3 is a gateway.                             *)
GatewaysWithExtraction == {"n3", "n_threshold", "n5_decision"}

ProductionGateways == {"n_threshold", "n5_decision"}

ProductionIntent ==
  [n \in ProductionNodes |->
     CASE n = "n2" -> "RECEIVE_MESSAGE"
       [] n = "n3" -> "ENTER_RECORD"
       [] n = "n4" -> "VALIDATE_FIELDS"
       [] n = "n5" -> "MATCH_3_WAY"
       [] n = "n6" -> "APPROVE"
       [] n = "n7" -> "SCHEDULE_PAYMENT"
       [] n = "n_threshold" -> "THRESHOLD_AMOUNT_10K"
       [] n = "n_escalate" -> "ESCALATE_TO_DIRECTOR"
       [] n = "n_reject" -> "REJECT_INVOICE"
       [] n = "n_exception" -> "MANUAL_REVIEW_NO_PO"
       [] n = "n_critic_retry" -> "CRITIC_RETRY"
       [] n = "n5_decision" -> "MATCH_DECISION"
       [] n = "n_no_match" -> "MANUAL_REVIEW_MATCH_FAILED"
       [] n \in StationNodes -> "ROUTE_FOR_REVIEW"
       [] OTHER -> "event"]

ProductionReviewReason ==
  [n \in ProductionNodes |->
     CASE n = "n_exc_bad_extraction" -> "BAD_EXTRACTION"
       [] n = "n_exc_unmodeled_gate" -> "UNMODELED_GATE"
       [] n = "n_exc_ambiguous_route" -> "AMBIGUOUS_ROUTE"
       [] n = "n_exc_no_route" -> "NO_ROUTE"
       [] OTHER -> "UNKNOWN"]

-----------------------------------------------------------------------------
(* Edges, by the code that puts them there.                                  *)

NoPoGuard ==
  {IsNot("status", "BAD_EXTRACTION"), IsNot("status", "NEEDS_RETRY"),
   IsNot("status", "MISSING_DATA"), Is("has_po", FALSE)}

NoPoAfterRetryGuard == {IsNot("status", "BAD_EXTRACTION"), Is("has_po", FALSE)}

(* Mutant: n3 is left without the purchase order guard.                     *)
EnterRecordEdgesUnguarded ==
  <<When("n_critic_retry", {Is("status", "NEEDS_RETRY")}),
    When("n_exc_bad_extraction", {Is("status", "BAD_EXTRACTION")}),
    Always("n4"),
    When("n_reject", {Is("status", "MISSING_DATA")})>>

EnterRecordEdges ==
  <<When("n_critic_retry", {Is("status", "NEEDS_RETRY")}),
    When("n_exc_bad_extraction", {Is("status", "BAD_EXTRACTION")}),
    Always("n4"),
    When("n_reject", {Is("status", "MISSING_DATA")}),
    When("n_exception", NoPoGuard)>>

CriticRetryEdges ==
  <<When("n_exc_bad_extraction", {Is("status", "BAD_EXTRACTION")}),
    When("n_exception", NoPoAfterRetryGuard),
    Always("n4")>>

(* Mutant: n4 still leads to n5, as in the mined graph.                     *)
ValidateEdgesUnpatched == <<Always("n5")>>

ValidateEdges == <<Always("n_threshold")>>

(* Mutant: an amount at the threshold satisfies neither condition.          *)
ThresholdEdgesGap ==
  <<When("n_escalate", {Above("amount", Threshold)}),
    When("n5", {[field |-> "amount", op |-> "<", lit |-> Threshold]})>>

ThresholdEdges ==
  <<When("n_escalate", {Above("amount", Threshold)}),
    When("n5", {AtMost("amount", Threshold)})>>

MatchEdges == <<Always("n5_decision")>>

MatchDecisionEdges ==
  <<When("n6", {Is("match_result", "MATCH")}),
    When("n_no_match", {Is("match_result", "NO_MATCH")}),
    When("n_exc_unmodeled_gate", {Is("match_result", "UNKNOWN")})>>

ApproveEdges == <<Always("n7")>>

SchedulePaymentEdges == <<Always("n35")>>

ProductionOutgoing ==
  [n \in ProductionNodes |->
     CASE n = "n1" -> <<Always("n2")>>
       [] n = "n2" -> <<Always("n3")>>
       [] n = "n3" -> EnterRecordEdges
       [] n = "n_critic_retry" -> CriticRetryEdges
       [] n = "n4" -> ValidateEdges
       [] n = "n_threshold" -> ThresholdEdges
       [] n = "n5" -> MatchEdges
       [] n = "n5_decision" -> MatchDecisionEdges
       [] n = "n6" -> ApproveEdges
       [] n = "n7" -> SchedulePaymentEdges
       [] OTHER -> <<>>]

ProductionStationMap ==
  [k \in {"task:MANUAL_REVIEW_AMBIGUOUS_ROUTE", "task:MANUAL_REVIEW_NO_ROUTE"} |->
     IF k = "task:MANUAL_REVIEW_AMBIGUOUS_ROUTE" THEN "n_exc_ambiguous_route"
                                                 ELSE "n_exc_no_route"]
=============================================================================
