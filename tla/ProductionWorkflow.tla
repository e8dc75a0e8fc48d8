-------------------------- MODULE ProductionWorkflow --------------------------
(***************************************************************************)
(* The agent on the production graph: what an invoice's end state says     *)
(* about how it was reached.                                               *)
(***************************************************************************)
EXTENDS AgentWorkflow, ProductionGraph

(* The graph the agent runs on; callers pass a Boolean for po_match and     *)
(* leave match_3_way out.                                                   *)
ASSUME OnProductionGraph ==
  /\ Nodes = ProductionNodes /\ StartNode = "n1" /\ EndNodes = {"n35"}
  /\ Gateways = ProductionGateways
  /\ Intent = ProductionIntent /\ ReviewReason = ProductionReviewReason
  /\ Outgoing = ProductionOutgoing /\ StationMap = ProductionStationMap
  /\ PoMatchInputs \subseteq BOOLEAN /\ LegacyInputs = {None}

-----------------------------------------------------------------------------

Extracted == doc.provenance = "passed" /\ doc.failure_codes = "none"

(* No invoice is approved, or reaches the payment tasks n6 and n7, unless   *)
(* its last extraction was verified, it has a purchase order that matched,  *)
(* and its amount is at most the threshold: whatever the LLM answered, with *)
(* the debug flag on or off, at first extraction or at the critic's.        *)
ApprovalJustified ==
  pc \in {"n6", "n7"} \/ doc.status = "APPROVED" =>
    /\ Extracted
    /\ doc.has_po
    /\ doc.amount # NaN /\ doc.amount <= Threshold
    /\ doc.po_match = TRUE /\ doc.match_result = "MATCH"

Justifies(s) ==
  CASE s = "APPROVED" -> TRUE   \* ApprovalJustified
    [] s = "ESCALATED" -> Extracted /\ doc.has_po /\ doc.amount # NaN /\ doc.amount > Threshold
    [] s = "EXCEPTION_BAD_EXTRACTION" ->
         doc.failure_codes # "none" /\ doc.provenance # "passed" /\ doc.retry_count <= 1
    [] s = "EXCEPTION_NO_PO" -> Extracted /\ ~doc.has_po
    [] s = "EXCEPTION_MATCH_FAILED" ->
         Extracted /\ doc.po_match = FALSE /\ doc.amount # NaN /\ doc.amount <= Threshold
    [] s = "EXCEPTION_NO_ROUTE" -> Extracted /\ doc.has_po /\ doc.amount = NaN
    [] OTHER -> FALSE

(* A finished run leaves a final status, and the status is the one the      *)
(* extracted facts call for: a transitional status (NEEDS_RETRY, VALIDATED, *)
(* ...) never survives to END, a failed extraction ends in review only.     *)
OutcomeJustified == pc = END => Justifies(doc.status)

(* Unless the debug flag is set, the routable fields keep their defaults    *)
(* until an extraction passes the verifier, through a failed first attempt  *)
(* and a failed retry.                                                      *)
UnverifiedFieldsStayDefault ==
  ~debug /\ doc.provenance # "passed" => doc.amount = 0 /\ ~doc.has_po

(* The run ends in the no-route or ambiguous-route station exactly when the *)
(* router logged an unmodeled event, and that event names the node that     *)
(* could not be left and the reason the station stands for.                 *)
DiversionLogged ==
  /\ doc.status = "EXCEPTION_NO_ROUTE" \/ pc = "n_exc_no_route" <=>
       unmodeled = <<[from |-> "n_threshold", reason |-> "no_route"]>>
  /\ doc.status # "EXCEPTION_AMBIGUOUS_ROUTE"
  /\ Len(unmodeled) <= 1

(* The critic runs once at most, and only for a document whose first        *)
(* extraction the verifier refused (not for an LLM or a shape failure).     *)
CriticOnlyAfterVerifierFailure ==
  [][pc = "n_critic_retry" =>
       doc.retry_count = 0 /\ doc.status = "NEEDS_RETRY" /\ doc.failure_codes = "VERIFIER"]_vars

(* A document the verifier sent back is retried, and its run then ends,     *)
(* unless a handler raises.                                                 *)
RetryAnswered ==
  doc.status = "NEEDS_RETRY" ~> pc = RAISED \/ (pc = END /\ doc.retry_count = 1)

FinalStatuses ==
  {"APPROVED", "ESCALATED", "EXCEPTION_BAD_EXTRACTION", "EXCEPTION_NO_PO",
   "EXCEPTION_MATCH_FAILED", "EXCEPTION_NO_ROUTE"}

DecidedOn ==   \* the facts of the decision
  IF doc.provenance = "passed"
  THEN [verified |-> TRUE, amount |-> doc.amount, has_po |-> doc.has_po]
  ELSE [verified |-> FALSE, amount |-> 0, has_po |-> FALSE]

DecidedAs ==   \* its outcome
  IF pc = RAISED THEN "raised"
  ELSE IF doc.status \in FinalStatuses THEN doc.status ELSE "open"

Promise == INSTANCE InvoiceDecision WITH
  poMatch <- doc.po_match, facts <- DecidedOn, outcome <- DecidedAs

(* The workflow implements the decision: facts are those of a verified      *)
(* extraction, the outcome is the final status.  So the outcome depends on  *)
(* nothing else (the validator's answer, the retry, the debug flag), no     *)
(* final status is overwritten, and every run gets its outcome.             *)
ImplementsDecision == Promise!Spec

-----------------------------------------------------------------------------

(* A guardrail the repository states for n_reject: "bad/blank field data    *)
(* must not proceed to matching".                                           *)
MissingDataNotMatched == pc = "n5" => doc.status # "MISSING_DATA"
=============================================================================
