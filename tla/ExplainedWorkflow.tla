--------------------------- MODULE ExplainedWorkflow ---------------------------
(***************************************************************************)
(* The explanation of a run (Explanation.tla) against the run itself: what *)
(* a reader of the audit trail is told about an invoice on the production  *)
(* graph.                                                                  *)
(***************************************************************************)
EXTENDS ProductionWorkflow, Explanation

(* The audit trail alone tells whether a finished invoice is an exception,  *)
(* and which; an exception is blamed on the gateway that decided last, or   *)
(* on none when no gateway was passed; and that decision is shown as an     *)
(* exception route exactly when the router diverted the run                 *)
(* (build_explanation with final_status left out).                          *)
ExceptionExplained ==
  pc = END =>
    LET routing == RoutingExplanation(audit)
        exception == ExceptionExplanation(audit)
    IN IF Category(doc.status) = "exception"
       THEN /\ InferredStatus(audit) = doc.status
            /\ exception.expected_status = doc.status
            /\ exception.triggering_gateway = IF DOMAIN routing = {} THEN ""
                                              ELSE routing[Max(DOMAIN routing)].gateway
            /\ (\E i \in DOMAIN routing : routing[i].is_exception_route) = (unmodeled # <<>>)
       ELSE /\ InferredStatus(audit) \notin ExceptionStatuses
            /\ \A i \in DOMAIN routing : ~routing[i].is_exception_route

(* The retries the trail shows are the retries that were made, and their    *)
(* final status is the one the critic left: the invoice went on only if it  *)
(* is DATA_EXTRACTED. Without a retry the extraction explanation, which     *)
(* joins events of two families, speaks of one attempt: what it calls valid *)
(* is what it says the status became.                                       *)
RetryExplained ==
  LET retry == RetryExplanation(audit)
      extraction == ExtractionExplanation(audit)
  IN /\ retry.total_attempts = doc.retry_count
     /\ retry.final_status = "BAD_EXTRACTION" /\ pc = END => doc.status = "EXCEPTION_BAD_EXTRACTION"
     /\ retry.final_status = "DATA_EXTRACTED" => doc.provenance = "passed"
     /\ pc = END /\ doc.retry_count = 0 =>
          extraction.valid = (extraction.status_after = "DATA_EXTRACTED")
=============================================================================
