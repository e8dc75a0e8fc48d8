------------------------------ MODULE Explanation ------------------------------
(***************************************************************************)
(* What src/explanation.py reads out of an audit log that                  *)
(* src/audit_parser.py has parsed.  A log is a sequence of events [event,  *)
(* node, value, gateway] as AgentWorkflow.tla appends them.                *)
(***************************************************************************)
EXTENDS Sequences, FiniteSetsExt

(* Where the log has an event of one family: the parser's accumulator of    *)
(* the family, in the order of its events.                                  *)
Positions(log, kind) == {i \in DOMAIN log : log[i].event = kind}

Latest(log, kind) == log[Max(Positions(log, kind))]

Has(log, kind) == Positions(log, kind) # {}

StatusOf ==   \* the exception status of a reason, where there is one
  [BAD_EXTRACTION |-> "EXCEPTION_BAD_EXTRACTION", UNMODELED_GATE |-> "EXCEPTION_UNMODELED_GATE",
   AMBIGUOUS_ROUTE |-> "EXCEPTION_AMBIGUOUS_ROUTE", NO_ROUTE |-> "EXCEPTION_NO_ROUTE",
   NO_PO |-> "EXCEPTION_NO_PO", MATCH_FAILED |-> "EXCEPTION_MATCH_FAILED",
   UNMODELED |-> "EXCEPTION_UNMODELED", UNKNOWN |-> "EXCEPTION_UNKNOWN"]

ExceptionStatuses == {StatusOf[reason] : reason \in DOMAIN StatusOf}

ExpectedStatus(reason) ==
  IF reason \in DOMAIN StatusOf THEN StatusOf[reason] ELSE "EXCEPTION_UNKNOWN"

(* Mutant: the verifier's word is asked before the exception station's.     *)
InferredSummaryFirst(log) ==
  IF Has(log, "verifier_summary") THEN Latest(log, "verifier_summary").value
  ELSE IF Has(log, "exception_station") THEN ExpectedStatus(Latest(log, "exception_station").value)
  ELSE "UNKNOWN"

InferredStatus(log) ==
  IF Has(log, "exception_station") THEN ExpectedStatus(Latest(log, "exception_station").value)
  ELSE IF Has(log, "verifier_summary") THEN Latest(log, "verifier_summary").value
  ELSE IF Has(log, "extraction") /\ Latest(log, "extraction").value = "BAD_EXTRACTION"
  THEN "BAD_EXTRACTION"
  ELSE "UNKNOWN"

Category(status) ==
  CASE status \in ExceptionStatuses -> "exception"
    [] status \in {"APPROVED", "PAID", "CLOSED"} -> "success"
    [] status \in {"REJECTED", "ESCALATED", "BAD_EXTRACTION", "MISSING_DATA"} -> "rejection"
    [] status \in {"NEW", "DATA_EXTRACTED", "NEEDS_RETRY", "VALIDATED", "PENDING_INFO"} ->
         "in_progress"
    [] OTHER -> "unknown"

ExceptionExplanation(log) ==
  LET e == Latest(log, "exception_station")
  IN [reason |-> e.value, triggering_gateway |-> e.gateway,
      expected_status |-> ExpectedStatus(e.value)]

(* One summary for each gateway's decision, at the place of its event.      *)
RoutingExplanation(log) ==
  [i \in Positions(log, "route_decision") |->
     [gateway |-> log[i].node,
      is_exception_route |-> log[i].value \in {"ambiguous_route", "no_route"}]]

(* Mutant: every extraction event counts as an attempt.                     *)
RetriesFromExtractions(log) ==
  [total_attempts |-> Cardinality(Positions(log, "extraction")), final_status |-> InferredStatus(log)]

RetryExplanation(log) ==
  [total_attempts |-> Cardinality(Positions(log, "critic_retry_executed")),
   final_status |-> IF Has(log, "critic_retry_executed")
                    THEN Latest(log, "critic_retry_executed").value ELSE "none"]

(* status_after comes from the last verifier summary, of whichever handler; *)
(* "none" when the verifier never ran.                                      *)
ExtractionExplanation(log) ==
  [valid |-> Latest(log, "extraction").value = "valid",
   status_after |-> IF Has(log, "verifier_summary") THEN Latest(log, "verifier_summary").value
                                                    ELSE "none"]
=============================================================================
