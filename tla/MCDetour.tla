------------------------------- MODULE MCDetour -------------------------------
(***************************************************************************)
(* A graph of the kind the compiler accepts and the production graph does  *)
(* not need: conditions that overlap, that cover too little or that never  *)
(* hold, two unconditional edges, a lone edge with a condition, a legacy   *)
(* match flag, and no station for the no-route case.                       *)
(***************************************************************************)
EXTENDS AgentWorkflow, EdgeTerms

DetourIntent ==
  [start |-> "event", clarify |-> "REQUEST_CLARIFICATION", enter |-> "ENTER_RECORD",
   match |-> "MATCH_3_WAY", decide |-> "MATCH_DECISION", pay |-> "EXECUTE_PAYMENT",
   close |-> "UPDATE_STATUS", dispatch |-> "SEQUENTIAL_DISPATCH",
   review |-> "MANUAL_REVIEW_UNMODELED_GATE", ambiguous |-> "ROUTE_FOR_REVIEW",
   finish |-> "end"]

DetourNodes == DOMAIN DetourIntent

DetourReason ==
  [n \in DetourNodes |-> IF n = "ambiguous" THEN "AMBIGUOUS_ROUTE" ELSE "UNKNOWN"]

DetourOutgoing ==
  [start |-> <<Always("clarify")>>,
   clarify |-> <<Always("enter")>>,
   enter |-> <<When("match", {Is("status", "DATA_EXTRACTED")}),
               When("close", {Above("amount", 1)}),
               When("dispatch", {Is("has_po", FALSE), IsNot("status", "DATA_EXTRACTED")}),
               Never("review")>>,
   match |-> <<Always("decide")>>,
   decide |-> <<When("pay", {Is("match_result", "MATCH")}),
                When("review", {Is("match_result", "UNKNOWN")}),
                Always("close"), Always("dispatch")>>,
   pay |-> <<When("close", {Is("status", "NEW")})>>,
   dispatch |-> <<Always("close"), When("finish", {Is("status", "PENDING_INFO")})>>,
   close |-> <<Always("finish")>>,
   review |-> <<>>, ambiguous |-> <<>>, finish |-> <<>>]

DetourStations == [k \in {"task:MANUAL_REVIEW_AMBIGUOUS_ROUTE"} |-> "ambiguous"]

ASSUME DetourStationsEndRuns == StationsEndRuns

(* A payment is made on a verified extraction whose match flag, wherever it  *)
(* came from, was true, and closing the invoice does not lose PAID.          *)
PaymentMatched ==
  /\ doc.status = "PAID" =>
       doc.provenance = "passed" /\ doc.match_result = "MATCH" /\ doc.match_3_way
  /\ pc = END /\ doc.match_result = "MATCH" => doc.status = "PAID"
=============================================================================
