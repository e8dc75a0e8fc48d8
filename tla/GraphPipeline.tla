----------------------------- MODULE GraphPipeline -----------------------------
(***************************************************************************)
(* One mined graph on its way to the agent: patch_logic.main patches it,   *)
(* injects the review stations and runs normalize_all; the result is then  *)
(* linted and compiled by build_ap_graph, or put through normalize_all a   *)
(* second time, as when the patched file is taken as source again.         *)
(***************************************************************************)
EXTENDS GraphCompiler

CONSTANT MinedGraphs   \* graphs the miner may deliver

VARIABLES
  mined,    \* the source document
  graph,    \* the document being patched
  stage,    \* 0: mined; 1..Len(Passes): the pass to run next; then finished
  round,    \* which call of normalize_all this is
  settled,  \* the graph the first call returned
  verdict   \* of assert_graph_valid: "none", "accepted" or "rejected"

vars == <<mined, graph, stage, round, settled, verdict>>

Passes ==
  <<"fix_canonical_key_duplicates", "normalize_edge_conditions", "inject_exception_nodes",
    "fix_match3way_gateway", "fix_secondary_match_gateways", "fix_main_execution_path",
    "fix_haspo_gateway", "fix_placeholder_gateways", "convert_unparseable_gateways_to_station",
    "convert_whitelisted_fanout_to_sequential", "convert_fanout_gateways_to_ambiguous_station",
    "wire_bad_extraction_route", "wire_critic_retry_route",
    "inject_match_result_unknown_guardrail", "deduplicate_edges", "deduplicate_edges_strict">>

Picks == [ChainTypes -> {"first", "last"}]

Apply(pass, g, pick) ==
  CASE pass = "fix_canonical_key_duplicates" -> SuffixKeys(g)
    [] pass = "normalize_edge_conditions" -> CanonicalConditions(g)
    [] pass = "inject_exception_nodes" -> InjectExceptionNodes(g)
    [] pass = "fix_match3way_gateway" -> FixMatch3Way(g)
    [] pass = "fix_secondary_match_gateways" -> FixSecondaryMatch(g, pick)
    [] pass = "fix_main_execution_path" -> FixMainPath(g)
    [] pass = "fix_haspo_gateway" -> FixHasPo(g)
    [] pass = "fix_placeholder_gateways" -> FixPlaceholders(g)
    [] pass = "convert_unparseable_gateways_to_station" -> ConvertUnparseable(g)
    [] pass = "convert_whitelisted_fanout_to_sequential" -> ConvertDispatch(g)
    [] pass = "convert_fanout_gateways_to_ambiguous_station" -> ConvertFanOut(g)
    [] pass = "wire_bad_extraction_route" -> WireBadExtraction(g)
    [] pass = "wire_critic_retry_route" -> WireCriticRetry(g)
    [] pass = "inject_match_result_unknown_guardrail" -> GuardUnknown(g)
    [] OTHER -> Deduplicate(g)

Finished == stage = Len(Passes) + 1

Init ==
  /\ mined \in MinedGraphs
  /\ graph = mined
  /\ stage = 0 /\ round = 1
  /\ settled = [nodes |-> <<>>, edges |-> <<>>]
  /\ verdict = "none"

Prepare ==
  /\ stage = 0
  /\ graph' = InjectStations(Patch(graph))
  /\ stage' = 1
  /\ UNCHANGED <<mined, round, settled, verdict>>

RunPass ==
  /\ stage \in DOMAIN Passes
  /\ \E pick \in Picks : graph' = Apply(Passes[stage], graph, pick)
  /\ stage' = stage + 1
  /\ settled' = IF stage = Len(Passes) /\ round = 1 THEN graph' ELSE settled
  /\ UNCHANGED <<mined, round, verdict>>

NormalizeAgain ==
  /\ Finished /\ round = 1 /\ verdict = "none"
  /\ stage' = 1 /\ round' = 2
  /\ UNCHANGED <<mined, graph, settled, verdict>>

Lint ==
  /\ Finished /\ verdict = "none"
  /\ verdict' = IF LintClean(graph) THEN "accepted" ELSE "rejected"
  /\ UNCHANGED <<mined, graph, stage, round, settled>>

Next == Prepare \/ RunPass \/ NormalizeAgain \/ Lint

Spec == Init /\ [][Next]_vars

-----------------------------------------------------------------------------
(* Properties.                                                               *)

Production == INSTANCE ProductionGraph

Accepted == verdict = "accepted"

(* What the routing conditions read.                                         *)
RoutingStates ==
  [status : {"NEW", "BAD_EXTRACTION", "NEEDS_RETRY", "MISSING_DATA", "DUPLICATE"},
   match_result : {"MATCH", "NO_MATCH", "UNKNOWN"}, has_po : BOOLEAN,
   amount : {Threshold, Threshold + 1}]

(* Type of the node a state is routed to by the edges out; "none" when it is *)
(* diverted.                                                                 *)
Reached(s, out) ==
  LET to == Selection(s, out)
  IN IF to = {} THEN "none" ELSE The(graph, CHOOSE m \in to : TRUE).type

ReviewTypes ==
  {"ROUTE_FOR_REVIEW", "MANUAL_REVIEW_MATCH_FAILED", "MANUAL_REVIEW_UNMODELED_GATE", "none"}

MinedTwice(n) ==
  \E i, j \in DOMAIN mined.edges :
    /\ i # j /\ mined.edges[i].frm = mined.edges[j].frm
    /\ mined.edges[i].to = n /\ mined.edges[j].to = n

(* Once the fan-out pass has run, no gateway is left with two out-edges of  *)
(* one meaning, and no node is its own successor, as it becomes in a        *)
(* dispatch chain that visits a target twice, unless one node was mined     *)
(* with two edges to it: the passes after it, and a second run of all of    *)
(* them, add no edge that brings either back                                *)
(* (convert_fanout_gateways_to_ambiguous_station,                           *)
(* convert_whitelisted_fanout_to_sequential and the passes that append      *)
(* edges later).                                                            *)
FanOutStaysRepaired ==
  round = 2 \/ stage > 11 =>
    /\ \A x \in ToSet(graph.nodes) : ~FansOut(graph, x)
    /\ \A e \in ToSet(graph.edges) : e.frm = e.to => MinedTwice(e.to)

(* A whitelisted gateway was mined with an edge to another.                 *)
DispatchersMeet ==
  \E e \in ToSet(mined.edges) : IsDispatcher(The(mined, e.frm)) /\ IsDispatcher(The(mined, e.to))

(* Each pass is idempotent: run again right after itself, whatever order    *)
(* the set of targets is iterated in, it changes nothing. The one exception *)
(* is convert_whitelisted_fanout_to_sequential where one whitelisted        *)
(* gateway leads to another: it skips the first while the second is still a *)
(* gateway, and run again it would convert the first too, against its       *)
(* docstring. The fan-out pass after it settles that.                       *)
PassesAreIdempotent ==
  /\ stage > 1 /\ ~(stage = 11 /\ DispatchersMeet) =>
       \A pick \in Picks : Apply(Passes[stage - 1], graph, pick) = graph
  /\ stage = 12 => ConvertDispatch(graph) = graph

(* Wherever a 3-way match decides, only MATCH reaches an approval, and an   *)
(* approval reached is followed by the scheduling of its payment; every     *)
(* other result ends in a review (fix_secondary_match_gateways, the UNKNOWN *)
(* guardrail, the compiler's deduplication and the router together).        *)
MatchGuardsApproval ==
  Accepted => \A x \in ToSet(graph.nodes) : IsDecision(x) =>
    LET out == CompiledOut(graph, x.id)
    IN \A s \in RoutingStates :
         \/ Reached(s, out) \in ReviewTypes
         \/ /\ s.match_result = "MATCH" /\ Reached(s, out) = "APPROVE"
            /\ \A n \in Selection(s, out) : Reached(s, CompiledOut(graph, n)) = "SCHEDULE_PAYMENT"

(* In a graph the linter accepted, every path from the entry to a payment   *)
(* task takes an edge that a MATCH selects, in whatever shape the match     *)
(* gateways and their chains were mined.                                    *)
PaymentNeedsMatch ==
  Accepted =>
    LET Open(e) == e.kind # "never" /\ Is("match_result", "MATCH") \notin e.all
        After(n) == {e.to : e \in {d \in ToSet(CompiledOut(graph, n)) : Open(d)}}
        open == UNION {{<<n, m>> : m \in After(n)} : n \in Ids(graph)}
        unmatched == FoldLeft(LAMBDA seen, x : seen \cup {p[2] : p \in {q \in open : q[1] \in seen}},
                              {Entry(graph)}, graph.nodes)
    IN \A n \in unmatched : The(graph, n).type \notin {"SCHEDULE_PAYMENT", "EXECUTE_PAYMENT"}

(* After one run, an extraction that failed is never ambiguous: at the      *)
(* extracting node and at the critic BAD_EXTRACTION selects a review        *)
(* station, and NEEDS_RETRY the critic, whatever else the conditions of the *)
(* other passes on the same node say.                                       *)
ExtractionFailuresRouted ==
  Accepted /\ round = 1 =>
    LET entered == CompiledOut(graph, FirstTask(graph, "ENTER_RECORD"))
        retried == CompiledOut(graph, FirstTask(graph, "CRITIC_RETRY"))
    IN \A s \in RoutingStates :
         /\ s.status = "BAD_EXTRACTION" =>
              Reached(s, entered) = "ROUTE_FOR_REVIEW" /\ Reached(s, retried) = "ROUTE_FOR_REVIEW"
         /\ s.status = "NEEDS_RETRY" => Reached(s, entered) = "CRITIC_RETRY"
         /\ Reason(s, entered) # "ambiguous_route"

(* The mined main path of the production graph: receive, enter, validate,   *)
(* match, with one task of each kind after the match.                       *)
MainPathMined ==
  LET targets == {e.to : e \in ToSet(OutOf(mined, "n5"))}
  IN /\ The(mined, "n4").type = "VALIDATE_FIELDS"
     /\ targets = {"n6", "n7", "n8"}
     /\ The(mined, "n8").type = "EXECUTE_PAYMENT"

(* For such a source the passes end in ProductionGraph.tla, edge by edge in *)
(* the compiler's order, with the kinds and types its nodes have there: the *)
(* graph the agent's properties are proved on is the one the pipeline       *)
(* makes.                                                                   *)
LeavesProductionGraph ==
  Finished /\ round = 1 /\ MainPathMined =>
    \A n \in Production!ProductionNodes :
      /\ CompiledOut(graph, n) = Production!ProductionOutgoing[n]
      /\ (The(graph, n).kind = "gateway") = (n \in Production!ProductionGateways)
      /\ The(graph, n).kind \in {"task", "gateway"} =>
           The(graph, n).type = Production!ProductionIntent[n]

(* A second run of normalize_all on the graph the first one returned leaves *)
(* it as it is, as its docstring says.                                      *)
SecondRunChangesNothing == round = 2 /\ Finished => graph = settled
=============================================================================
