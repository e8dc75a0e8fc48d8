---------------------------- MODULE AgentWorkflow ----------------------------
(***************************************************************************)
(* One invoice executed on a compiled process graph: the node handlers of  *)
(* src/agent/nodes.py, the state they merge into (src/agent/state.py), and *)
(* the wiring src/agent/compiler.py gives to LangGraph.  LangGraph runs    *)
(* one node at a time: call the handler, merge the update it returns, then *)
(* follow the node's edge on the merged state.  A handler and the edge     *)
(* taken after it are one action here.                                     *)
(*                                                                         *)
(* The graph is a parameter; ProductionWorkflow instantiates it.           *)
(***************************************************************************)
EXTENDS Router

CONSTANTS
  Nodes,          \* node ids of the compiled graph
  StartNode,      \* the node whose canonical key is event:start
  EndNodes,       \* nodes LangGraph replaces by END
  Gateways,       \* nodes of kind "gateway"
  Intent,         \* [Nodes -> intent label]
  ReviewReason,   \* [Nodes -> action.extra.reason of ROUTE_FOR_REVIEW nodes]
  Outgoing,       \* [Nodes -> Seq(edge)], deduplicated by (frm, to)
  StationMap,     \* intent key of an exception station -> node id
  Amounts,        \* amounts an extraction may report (0 is the default)
  PoMatchInputs,  \* values callers pass for po_match
  LegacyInputs    \* values callers pass for match_3_way (None: not given)

VARIABLES
  pc,         \* the node to execute next, or END, or RAISED
  doc,        \* APState without its logs
  audit,      \* state["audit_log"]: its structured events
  records,    \* state["route_records"]
  unmodeled,  \* the JSONL file record_event appends to
  debug       \* ALLOW_UNVERIFIED_EXTRACTION is set

vars == <<pc, doc, audit, records, unmodeled, debug>>

END == "__end__"      \* langgraph.graph.END
RAISED == "raised"    \* an exception left graph.invoke

SetsStatus ==   \* intents whose handler only assigns a status
  [APPROVE |-> "APPROVED", REJECT |-> "REJECTED", REJECT_INVOICE |-> "REJECTED",
   ESCALATE_TO_DIRECTOR |-> "ESCALATED", EXECUTE_PAYMENT |-> "PAID"]

ManualReview == \* intents that assign a status and emit exception_station
  [MANUAL_REVIEW_NO_PO |-> "EXCEPTION_NO_PO",
   MANUAL_REVIEW_MATCH_FAILED |-> "EXCEPTION_MATCH_FAILED",
   MANUAL_REVIEW_UNMODELED_GATE |-> "EXCEPTION_UNMODELED"]

FlagReason ==   \* reason of their exception_station event
  [MANUAL_REVIEW_NO_PO |-> "NO_PO", MANUAL_REVIEW_MATCH_FAILED |-> "MATCH_FAILED",
   MANUAL_REVIEW_UNMODELED_GATE |-> "UNMODELED_GATE"]

(* Mutant: the reason itself, without its prefix.                           *)
ReviewStatusUnprefixed ==
  [BAD_EXTRACTION |-> "BAD_EXTRACTION", UNMODELED_GATE |-> "UNMODELED_GATE",
   AMBIGUOUS_ROUTE |-> "AMBIGUOUS_ROUTE", NO_ROUTE |-> "NO_ROUTE", UNKNOWN |-> "UNKNOWN"]

ReviewStatus ==  \* f"EXCEPTION_{reason}"
  [BAD_EXTRACTION |-> "EXCEPTION_BAD_EXTRACTION",
   UNMODELED_GATE |-> "EXCEPTION_UNMODELED_GATE",
   AMBIGUOUS_ROUTE |-> "EXCEPTION_AMBIGUOUS_ROUTE",
   NO_ROUTE |-> "EXCEPTION_NO_ROUTE", UNKNOWN |-> "EXCEPTION_UNKNOWN"]

Statuses ==
  {"NEW", "DATA_EXTRACTED", "NEEDS_RETRY", "VALIDATED", "PENDING_INFO", "APPROVED",
   "PAID", "CLOSED", "REJECTED", "ESCALATED", "BAD_EXTRACTION", "MISSING_DATA",
   "EXCEPTION_BAD_EXTRACTION", "EXCEPTION_UNMODELED_GATE",
   "EXCEPTION_AMBIGUOUS_ROUTE", "EXCEPTION_NO_ROUTE", "EXCEPTION_NO_PO",
   "EXCEPTION_MATCH_FAILED", "EXCEPTION_UNMODELED", "EXCEPTION_UNKNOWN"}

OutEdges(n) == {Outgoing[n][i] : i \in DOMAIN Outgoing[n]}

(* What the linter (assert_graph_valid) and make_initial_state's callers      *)
(* guarantee: edges and stations name nodes of the graph, review nodes carry *)
(* a known reason.                                                           *)
ASSUME GraphWellFormed ==
  /\ Nodes \cap {END, RAISED, ""} = {}
  /\ StartNode \in Nodes /\ EndNodes \subseteq Nodes /\ Gateways \subseteq Nodes
  /\ DOMAIN Intent = Nodes /\ DOMAIN Outgoing = Nodes
  /\ ReviewReason \in [Nodes -> DOMAIN ReviewStatus]
  /\ \A n \in Nodes :
       /\ Outgoing[n] \in Seq(OutEdges(n))
       /\ \A e \in OutEdges(n) : e.to \in Nodes
  /\ \A k \in DOMAIN StationMap : StationMap[k] \in Nodes

ASSUME InputsTyped ==
  /\ Amounts \subseteq Nat /\ 0 \in Amounts
  /\ PoMatchInputs \subseteq BOOLEAN \cup {None} /\ LegacyInputs \subseteq BOOLEAN \cup {None}
  /\ None \notin Statuses \cup {"MATCH", "NO_MATCH", "UNKNOWN"}

Values == Amounts \cup {NaN}   \* json.loads accepts NaN, and so does the verifier

MatchResults == {"MATCH", "NO_MATCH", "UNKNOWN"}

(* failure_codes is abstracted to the family its codes come from and        *)
(* provenance to what the verifier reported ("empty" is the dict {}).       *)
Doc ==
  [status : Statuses, amount : Values, has_po : BOOLEAN,
   po_match : BOOLEAN \cup {None}, match_3_way : BOOLEAN \cup {None},
   match_result : MatchResults, retry_count : Nat,
   failure_codes : {"none", "LLM_ERROR", "REJECTED", "VERIFIER"},
   provenance : {"empty", "passed", "failed"}, last_gateway : Gateways \cup {""}]

-----------------------------------------------------------------------------
(* Compilation: where the graph goes after node n left document d.           *)

Hop(t) == IF t \in EndNodes THEN END ELSE t

(* Mutant: a missing station ends the run instead of raising.               *)
SinkOrEnd(reason) ==
  IF StationKey(reason) \in DOMAIN StationMap THEN Hop(StationMap[StationKey(reason)])
                                              ELSE END

Sink(reason) ==
  IF StationKey(reason) \in DOMAIN StationMap THEN Hop(StationMap[StationKey(reason)])
                                              ELSE RAISED

Leaves(n) == n \in EndNodes \/ Outgoing[n] = <<>>

Diverted(n, d) == ~Leaves(n) /\ Selection(d, Outgoing[n]) = {}

Targets(n, d) ==
  IF Leaves(n) THEN {END}
  ELSE IF Diverted(n, d) THEN {Sink(Reason(d, Outgoing[n]))}
  ELSE {Hop(t) : t \in Selection(d, Outgoing[n])}

-----------------------------------------------------------------------------
(* What one handler call leaves behind.                                      *)

Event(kind, n, v) ==
  [event |-> kind, node |-> n, value |-> v, gateway |-> doc.last_gateway]

(* A gateway analyses its edges on the state it was called with, before its  *)
(* own update is merged.                                                     *)
Decision(n) ==
  [from |-> n, selected |-> Selection(doc, Outgoing[n]), reason |-> Reason(doc, Outgoing[n])]

Decides(n) == n \in Gateways /\ Outgoing[n] # <<>>

DecisionEvents(n) ==
  IF Decides(n) THEN <<Event("route_decision", n, Decision(n).reason)>> ELSE <<>>

(* Mutant: only ambiguity is logged.                                        *)
LogAmbiguousOnly(n, d) ==
  IF Diverted(n, d) /\ Reason(d, Outgoing[n]) = "ambiguous_route"
  THEN Append(unmodeled, [from |-> n, reason |-> Reason(d, Outgoing[n])])
  ELSE unmodeled

LogUnmodeled(n, d) ==
  IF Diverted(n, d) THEN Append(unmodeled, [from |-> n, reason |-> Reason(d, Outgoing[n])])
                    ELSE unmodeled

(* Node n returned update d (already merged) and events evs.                 *)
Commit(n, d, evs) ==
  LET merged == [d EXCEPT !.last_gateway = IF n \in Gateways THEN n ELSE @]
  IN /\ doc' = merged
     /\ pc' \in Targets(n, merged)
     /\ audit' = audit \o evs
     /\ records' = IF Decides(n) THEN Append(records, Decision(n)) ELSE records
     /\ unmodeled' = LogUnmodeled(n, merged)
     /\ UNCHANGED debug

(* An exception in the handler: invoke raises and returns no state.          *)
Raise ==
  /\ pc' = RAISED
  /\ UNCHANGED <<doc, audit, records, unmodeled, debug>>

At(n, intents) == pc = n /\ Intent[n] \in intents

-----------------------------------------------------------------------------
(* Extraction.  Document d after _call_llm_json and the validation pipeline. *)

(* Mutant: every failed first attempt is retried.                           *)
RefusedRetryable(d, family) ==
  [d EXCEPT !.status = IF @ = "NEW" THEN "NEEDS_RETRY" ELSE "BAD_EXTRACTION",
            !.failure_codes = family, !.provenance = "empty"]

Refused(d, family) ==   \* an LLM error, or a structural, semantic or schema code
  [d EXCEPT !.status = "BAD_EXTRACTION", !.failure_codes = family, !.provenance = "empty"]

Verified(d, a, p) ==
  [d EXCEPT !.status = "DATA_EXTRACTED", !.failure_codes = "none",
            !.provenance = "passed", !.amount = a, !.has_po = p]

Unverified(d, failed, a, p) ==
  [d EXCEPT !.status = failed, !.failure_codes = "VERIFIER",
            !.provenance = "failed", !.amount = a, !.has_po = p]

(* Mutant: the debug flag is not asked.                                     *)
LeftoverAlways(d) == [amount : Values \cup {d.amount}, has_po : BOOLEAN]

(* The fields a failed verification leaves: with the debug flag any that     *)
(* have the right type are written all the same.                             *)
Leftover(d) ==
  IF debug THEN [amount : Values \cup {d.amount}, has_po : BOOLEAN]
           ELSE {[amount |-> d.amount, has_po |-> d.has_po]}

Extractions(d, failed) ==
       {Refused(d, family) : family \in {"LLM_ERROR", "REJECTED"}}
  \cup {Verified(d, a, p) : a \in Values, p \in BOOLEAN}
  \cup {Unverified(d, failed, f.amount, f.has_po) : f \in Leftover(d)}

(* The events both extracting handlers emit: one of their own, then the      *)
(* verifier summary when the verifier ran.  The extraction event has a       *)
(* status only for a refused shape; its value tells its variants apart.      *)
ExtractionVariant(d) ==
  CASE d.provenance = "passed" -> "valid"
    [] d.provenance = "failed" -> "invalid"
    [] OTHER -> IF d.failure_codes = "LLM_ERROR" THEN "LLM_ERROR" ELSE d.status

ExtractionEvents(n, kind, d) ==
  <<Event(kind, n, IF kind = "extraction" THEN ExtractionVariant(d) ELSE d.status)>>
  \o IF d.provenance = "empty" THEN <<>> ELSE <<Event("verifier_summary", n, d.status)>>

EnterRecord(n) ==
  /\ At(n, {"ENTER_RECORD"})
  /\ \/ Raise
     \/ LET failed == IF doc.retry_count = 0 THEN "NEEDS_RETRY" ELSE "BAD_EXTRACTION"
        IN \E d \in Extractions(doc, failed) :
             Commit(n, d, ExtractionEvents(n, "extraction", d))

(* Mutant: the retry is not counted.                                        *)
CriticRetryUncounted(n) ==
  /\ At(n, {"CRITIC_RETRY"})
  /\ \/ Raise
     \/ \E d \in Extractions(doc, "BAD_EXTRACTION") :
          Commit(n, d, ExtractionEvents(n, "critic_retry_executed", d))

CriticRetry(n) ==
  /\ At(n, {"CRITIC_RETRY"})
  /\ \/ Raise
     \/ LET retried == [doc EXCEPT !.retry_count = @ + 1]
        IN \E d \in Extractions(retried, "BAD_EXTRACTION") :
             Commit(n, d, ExtractionEvents(n, "critic_retry_executed", d))

(* The validator's answer; an LLM error leaves the status as it is.          *)
ValidateFields(n) ==
  /\ At(n, {"VALIDATE_FIELDS"})
  /\ \/ Raise
     \/ \E s \in {"VALIDATED", "MISSING_DATA", doc.status} :
          Commit(n, [doc EXCEPT !.status = s], <<>>)

-----------------------------------------------------------------------------
(* Deterministic handlers.  Those that assign audit_log drop the decision    *)
(* events of a gateway; those that append to it keep them.                   *)

RouteForReview(n) ==
  /\ At(n, {"ROUTE_FOR_REVIEW"})
  /\ Commit(n, [doc EXCEPT !.status = ReviewStatus[ReviewReason[n]]],
            <<Event("exception_station", n, ReviewReason[n])>>)

AssignStatus(n) ==
  /\ At(n, DOMAIN SetsStatus)
  /\ Commit(n, [doc EXCEPT !.status = SetsStatus[Intent[n]]], DecisionEvents(n))

FlagForReview(n) ==
  /\ At(n, DOMAIN ManualReview)
  /\ Commit(n, [doc EXCEPT !.status = ManualReview[Intent[n]]],
            <<Event("exception_station", n, FlagReason[Intent[n]])>>)

SequentialDispatch(n) ==
  /\ At(n, {"SEQUENTIAL_DISPATCH"})
  /\ Commit(n, doc, <<Event("sequential_dispatch", n, "chain")>>)

(* po_match, else the legacy flag, else nothing.                             *)
MatchFlag == IF doc.po_match # None THEN doc.po_match ELSE doc.match_3_way

MatchResult ==
  IF MatchFlag = None THEN "UNKNOWN" ELSE IF MatchFlag THEN "MATCH" ELSE "NO_MATCH"

Match3Way(n) ==
  /\ At(n, {"MATCH_3_WAY"})
  /\ Commit(n, [doc EXCEPT !.match_3_way = (MatchFlag # None /\ MatchFlag),
                           !.match_result = MatchResult],
            <<Event("match_inputs", n, "flags"), Event("match_result_set", n, MatchResult)>>)

(* Mutant: a paid invoice is closed like any other.                         *)
UpdateStatusClosesPaid(n) ==
  /\ At(n, {"UPDATE_STATUS"})
  /\ Commit(n, [doc EXCEPT !.status = IF @ \in {"APPROVED", "REJECTED"}
                                      THEN @ ELSE "CLOSED"],
            DecisionEvents(n))

UpdateStatus(n) ==
  /\ At(n, {"UPDATE_STATUS"})
  /\ Commit(n, [doc EXCEPT !.status = IF @ \in {"APPROVED", "PAID", "REJECTED"}
                                      THEN @ ELSE "CLOSED"],
            DecisionEvents(n))

RequestClarification(n) ==
  /\ At(n, {"REQUEST_CLARIFICATION"})
  /\ Commit(n, [doc EXCEPT !.status = IF @ = "NEW" THEN "PENDING_INFO" ELSE @],
            DecisionEvents(n))

ActingIntents ==
  {"ENTER_RECORD", "CRITIC_RETRY", "VALIDATE_FIELDS", "ROUTE_FOR_REVIEW",
   "SEQUENTIAL_DISPATCH", "MATCH_3_WAY", "UPDATE_STATUS", "REQUEST_CLARIFICATION"}
  \cup DOMAIN SetsStatus \cup DOMAIN ManualReview

(* Every other intent only logs that it was executed.                        *)
PassThrough(n) ==
  /\ pc = n
  /\ Intent[n] \notin ActingIntents
  /\ Commit(n, doc, DecisionEvents(n))

-----------------------------------------------------------------------------

(* make_initial_state, and graph.invoke entering at the start node.          *)
Init ==
  /\ pc = StartNode
  /\ \E m \in PoMatchInputs, legacy \in LegacyInputs :
       doc = [status |-> "NEW", amount |-> 0, has_po |-> FALSE, po_match |-> m,
              match_3_way |-> IF legacy = None THEN m ELSE legacy,
              match_result |-> "UNKNOWN", retry_count |-> 0,
              failure_codes |-> "none", provenance |-> "empty", last_gateway |-> ""]
  /\ audit = <<>>
  /\ records = <<>>
  /\ unmodeled = <<>>
  /\ debug \in BOOLEAN

Step(n) ==
  \/ EnterRecord(n)      \/ CriticRetry(n)        \/ ValidateFields(n)
  \/ RouteForReview(n)   \/ AssignStatus(n)       \/ FlagForReview(n)
  \/ SequentialDispatch(n) \/ Match3Way(n)        \/ UpdateStatus(n)
  \/ RequestClarification(n) \/ PassThrough(n)

Next == \E n \in Nodes : Step(n)

SafeSpec == Init /\ [][Next]_vars

(* invoke loops until END or an exception, and every handler call returns:   *)
(* the LLM client raises on a timeout and _call_llm_json turns that into an  *)
(* "_error" answer.                                                          *)
Spec == SafeSpec /\ WF_vars(Next)

-----------------------------------------------------------------------------

EventKinds ==
  {"extraction", "critic_retry_executed", "verifier_summary", "route_decision",
   "exception_station", "sequential_dispatch", "match_inputs", "match_result_set"}

EventValues ==
  Statuses \cup Reasons \cup MatchResults \cup {"chain", "flags", "valid", "invalid", "LLM_ERROR"}
  \cup DOMAIN ReviewStatus \cup {"NO_PO", "MATCH_FAILED"}

Events ==
  [event : EventKinds, node : Nodes, value : EventValues, gateway : Gateways \cup {""}]

Decisions == [from : Gateways, selected : SUBSET Nodes, reason : Reasons]

Unmodeled == [from : Nodes, reason : {"ambiguous_route", "no_route"}]

(* Every component keeps its type.                                           *)
TypeOK ==
  /\ pc \in Nodes \cup {END, RAISED}
  /\ doc \in Doc
  /\ debug \in BOOLEAN
  /\ audit \in Seq(Events) /\ records \in Seq(Decisions) /\ unmodeled \in Seq(Unmodeled)

(* The decision a gateway records, taken before its own update is merged,    *)
(* is the one the graph then follows, evaluated after it: the run goes to    *)
(* the recorded target, or to the station of the recorded reason.            *)
RecordedDecisionFollowed ==
  [][Len(records') > Len(records) =>
       LET r == records'[Len(records')]
       IN IF r.selected = {} THEN pc' = Sink(r.reason)
                             ELSE pc' \in {Hop(t) : t \in r.selected}]_vars

ReviewedAs(reason) ==
  IF reason = "ambiguous_route" THEN "EXCEPTION_AMBIGUOUS_ROUTE" ELSE "EXCEPTION_NO_ROUTE"

ReviewNodes(reason) ==
  {n \in Nodes : /\ Intent[n] = "ROUTE_FOR_REVIEW"
                 /\ ReviewStatus[ReviewReason[n]] = ReviewedAs(reason)}

(* A graph as inject_exception_stations leaves it: review nodes of a reason  *)
(* lead nowhere, and if it has any, the station of the reason is one.        *)
StationsEndRuns ==
  \A reason \in {"ambiguous_route", "no_route"} :
    LET key == StationKey(reason)
    IN /\ ReviewNodes(reason) # {} => key \in DOMAIN StationMap
       /\ key \in DOMAIN StationMap => StationMap[key] \in ReviewNodes(reason) \ EndNodes
       /\ \A n \in ReviewNodes(reason) : Outgoing[n] = <<>>

(* A run the router cannot continue does nothing else: from the moment its   *)
(* unmodeled event is logged it is at a review node of that event's reason,  *)
(* has ended there with that review's status, or, with no such node in the   *)
(* graph, has raised.  Nothing is logged twice.                              *)
FailsClosed ==
  unmodeled # <<>> =>
    LET reason == unmodeled[1].reason
    IN /\ Len(unmodeled) = 1
       /\ \/ pc \in ReviewNodes(reason)
          \/ pc = END /\ doc.status = ReviewedAs(reason)
          \/ pc = RAISED /\ ReviewNodes(reason) = {}
=============================================================================
