------------------------------ MODULE GraphPasses ------------------------------
(***************************************************************************)
(* The passes that turn a mined process graph into one the agent can run:  *)
(* _patch and inject_exception_stations of patch_logic.py and the passes   *)
(* of src/normalize_graph.py, each an operator from graph to graph.        *)
(*                                                                         *)
(* A graph is [nodes, edges], two sequences as in the JSON document.       *)
(*   node [id, kind, type, intent, suffixed]: type is action.type of a     *)
(*     task and decision.type of a gateway; intent is meta.intent_key, or  *)
(*     meta.canonical_key where it is missing; suffixed: the canonical key *)
(*     ends in @<id>.                                                      *)
(*   edge [frm, to, cond]: cond is the condition's text, Null for none.    *)
(* Provenance metadata and artifacts are left out: no pass reads them.     *)
(***************************************************************************)
EXTENDS Integers, SequencesExt

Null == "null"      \* Python's None
Absent == "absent"  \* no such node

MATCHED    == "match_result == \"MATCH\""
UNMATCHED  == "match_result == \"NO_MATCH\""
UNKNOWN    == "match_result == \"UNKNOWN\""
ABOVE      == "amount > threshold"
WITHIN     == "amount <= threshold"
PO         == "has_po == true"
NO_PO      == "has_po == false"
BAD        == "status == \"BAD_EXTRACTION\""
RETRY      == "status == \"NEEDS_RETRY\""
MISSING    == "status == \"MISSING_DATA\""
DUPLICATE  == "status == \"DUPLICATE\""
ORIGINAL   == "status != \"DUPLICATE\""
NO_PO_GUARD == "status != BAD_EXTRACTION, NEEDS_RETRY, MISSING_DATA AND has_po == false"
NO_PO_AFTER_RETRY == "status != BAD_EXTRACTION AND has_po == false"

(* The miner's labels, as _SYNONYM_MAP has them.                            *)
Synonyms ==
  [match |-> MATCHED, MATCH_3_WAY |-> MATCHED, no_match |-> UNMATCHED,
   HAS_PO |-> PO, has_po |-> PO, no_po |-> NO_PO, approve |-> WITHIN, reject |-> ABOVE,
   IF_CONDITION |-> Null, SCHEDULE_PAYMENT |-> Null]

Canon(c) == IF c \in DOMAIN Synonyms THEN Synonyms[c] ELSE c

-----------------------------------------------------------------------------
(* Reading and changing a graph.                                             *)

Node(id, kind, type, intent) ==
  [id |-> id, kind |-> kind, type |-> type, intent |-> intent, suffixed |-> FALSE]

Edge(frm, to, cond) == [frm |-> frm, to |-> to, cond |-> cond]

Ids(g) == {g.nodes[i].id : i \in DOMAIN g.nodes}

The(g, n) == CHOOSE x \in ToSet(g.nodes) : x.id = n

FirstNode(g, P(_)) ==
  LET hits == {i \in DOMAIN g.nodes : P(g.nodes[i])}
  IN IF hits = {} THEN Absent ELSE g.nodes[CHOOSE i \in hits : \A j \in hits : i <= j].id

FirstTask(g, type) == FirstNode(g, LAMBDA x : x.kind # "gateway" /\ x.type = type)

(* _require_station; Absent where it raises.                                 *)
Station(g, intent) == FirstNode(g, LAMBDA x : x.intent = intent)

OutOf(g, n) == SelectSeq(g.edges, LAMBDA e : e.frm = n)

HasEdge(g, frm, to) == \E e \in ToSet(g.edges) : e.frm = frm /\ e.to = to

Without(g, P(_)) == [g EXCEPT !.edges = SelectSeq(@, LAMBDA e : ~P(e))]

With(g, es) == [g EXCEPT !.edges = @ \o es]

(* Unconditional edges for those pairs that have no edge yet.                *)
Chained(g, pairs) ==
  FoldLeft(LAMBDA h, p : IF HasEdge(h, p[1], p[2]) THEN h
                                                   ELSE With(h, <<Edge(p[1], p[2], Null)>>),
           g, pairs)

InjectNodes(g, nodes) ==
  [g EXCEPT !.nodes = @ \o SelectSeq(nodes, LAMBDA x : x.id \notin Ids(g))]

(* es, before the first unconditional edge out of n.                         *)
InsertedBeforeFallback(g, n, es) ==
  LET fallbacks == {i \in DOMAIN g.edges : g.edges[i].frm = n /\ g.edges[i].cond = Null}
      at == IF fallbacks = {} THEN Len(g.edges) + 1
            ELSE CHOOSE i \in fallbacks : \A j \in fallbacks : i <= j
  IN [g EXCEPT !.edges = SubSeq(@, 1, at - 1) \o es \o SubSeq(@, at, Len(@))]

Retyped(g, n, kind, type) ==
  [g EXCEPT !.nodes = [i \in DOMAIN @ |-> IF @[i].id = n
                                         THEN [@[i] EXCEPT !.kind = kind, !.type = type]
                                         ELSE @[i]]]

(* Gateway n becomes a task with one unconditional edge, to station.         *)
ToTask(g, n, type, station) ==
  With(Without(Retyped(g, n, "task", type), LAMBDA e : e.frm = n), <<Edge(n, station, Null)>>)

(* Step, over the ids of the nodes the graph has now, in their order.        *)
Sweep(g, Step(_, _)) ==
  FoldLeft(Step, g, [i \in DOMAIN g.nodes |-> g.nodes[i].id])

EndNode(g) == FirstNode(g, LAMBDA x : x.kind = "end" \/ x.intent = "end:end")

IsMatchGateway(x) ==
  x.kind = "gateway" /\ (x.intent = "gw:MATCH_3_WAY" \/ x.type = "MATCH_3_WAY")

CondSet(es) == {Canon(es[i].cond) : i \in DOMAIN es}

-----------------------------------------------------------------------------
(* patch_logic.py                                                            *)

NewNodes ==
  <<Node("n_threshold", "gateway", "THRESHOLD_AMOUNT_10K", "gw:THRESHOLD_AMOUNT_10K"),
    Node("n_escalate", "task", "ESCALATE_TO_DIRECTOR", "task:ESCALATE_TO_DIRECTOR"),
    Node("n_reject", "task", "REJECT_INVOICE", "task:REJECT_INVOICE"),
    Node("n_exception", "task", "MANUAL_REVIEW_NO_PO", "task:MANUAL_REVIEW_NO_PO"),
    Node("n_critic_retry", "task", "CRITIC_RETRY", "task:CRITIC_RETRY")>>

Patch(g) ==
  LET rewired == [i \in DOMAIN g.edges |->
                    IF g.edges[i].frm = "n4" /\ g.edges[i].to = "n5"
                    THEN [g.edges[i] EXCEPT !.to = "n_threshold"] ELSE g.edges[i]]
      added == <<Edge("n_threshold", "n_escalate", ABOVE), Edge("n_threshold", "n5", WITHIN),
                 Edge("n3", "n_reject", MISSING), Edge("n3", "n_exception", NO_PO_GUARD)>>
  IN InjectNodes([g EXCEPT !.edges = rewired \o added], NewNodes)

ReviewStations ==
  <<Node("n_exc_bad_extraction", "task", "ROUTE_FOR_REVIEW", "task:MANUAL_REVIEW_BAD_EXTRACTION"),
    Node("n_exc_unmodeled_gate", "task", "ROUTE_FOR_REVIEW", "task:MANUAL_REVIEW_UNMODELED_GATE"),
    Node("n_exc_ambiguous_route", "task", "ROUTE_FOR_REVIEW", "task:MANUAL_REVIEW_AMBIGUOUS_ROUTE"),
    Node("n_exc_no_route", "task", "ROUTE_FOR_REVIEW", "task:MANUAL_REVIEW_NO_ROUTE")>>

InjectStations(g) == InjectNodes(g, ReviewStations)

-----------------------------------------------------------------------------
(* Passes 2 to 4.  Pass 1 repairs artifact references only.                  *)

SuffixKeys(g) ==
  LET Shared(x) == \E y \in ToSet(g.nodes) :
                     y.id # x.id /\ y.intent = x.intent /\ ~y.suffixed /\ ~x.suffixed
      Keyed(x) == [x EXCEPT !.suffixed = x.suffixed \/ Shared(x)]
  IN [g EXCEPT !.nodes = [i \in DOMAIN g.nodes |-> Keyed(g.nodes[i])]]

CanonicalConditions(g) ==
  LET Canonical(e) == [e EXCEPT !.cond = IF Canon(e.cond) = Null THEN e.cond ELSE Canon(e.cond)]
  IN [g EXCEPT !.edges = [i \in DOMAIN g.edges |-> Canonical(g.edges[i])]]

ExceptionNodes ==
  LET Keyed(x) == [x EXCEPT !.suffixed = TRUE]
  IN <<Keyed(Node("n_no_match", "task", "MANUAL_REVIEW_MATCH_FAILED",
                  "task:MANUAL_REVIEW_MATCH_FAILED")),
       Keyed(Node("n_manual_review_gate", "task", "MANUAL_REVIEW_UNMODELED_GATE",
                  "task:MANUAL_REVIEW_UNMODELED_GATE"))>>

InjectExceptionNodes(g) == InjectNodes(g, ExceptionNodes)

-----------------------------------------------------------------------------
(* Passes 5 and 6: the 3-way match.                                          *)

FixMatch3Way(g) ==
  LET out == OutOf(g, "n4")
      onMatch == SelectSeq(out, LAMBDA e : Canon(e.cond) = MATCHED)
      target == IF onMatch = <<>> \/ \E e \in ToSet(onMatch) : e.to = "n_threshold"
                THEN "n_threshold" ELSE onMatch[1].to
  IN IF \/ "n4" \notin Ids(g) \/ ~IsMatchGateway(The(g, "n4")) \/ out = <<>>
        \/ CondSet(out) = {MATCHED, UNMATCHED} /\ Len(out) = 2
     THEN g
     ELSE With(Without(g, LAMBDA e : e.frm = "n4"),
               <<Edge("n4", target, MATCHED), Edge("n4", "n_no_match", UNMATCHED)>>)

(* Which target _find_chain_node returns when several have the type depends  *)
(* on the iteration order of a Python set of strings, which varies between   *)
(* interpreter runs: pick says which end of the list it happens to be.       *)
ChainTypes == {"APPROVE", "SCHEDULE_PAYMENT", "EXECUTE_PAYMENT"}

ChainNode(g, targets, type, pick) ==
  LET hits == SelectSeq(g.nodes, LAMBDA x : x.id \in targets /\ x.kind # "gateway" /\ x.type = type)
  IN IF hits = <<>> THEN Absent
     ELSE IF pick[type] = "first" THEN hits[1].id ELSE hits[Len(hits)].id

(* Mutants: a match is approved though the payment chain is incomplete; the  *)
(* branches of a match and of a mismatch are swapped.                        *)
MatchBranchesIncomplete(decision, approve, complete, noMatch, unmodeled) ==
  <<Edge(decision, IF approve # Absent THEN approve ELSE unmodeled, MATCHED),
    Edge(decision, noMatch, UNMATCHED), Edge(decision, unmodeled, UNKNOWN)>>

MatchBranchesSwapped(decision, approve, complete, noMatch, unmodeled) ==
  <<Edge(decision, noMatch, MATCHED),
    Edge(decision, IF complete THEN approve ELSE unmodeled, UNMATCHED),
    Edge(decision, unmodeled, UNKNOWN)>>

MatchBranches(decision, approve, complete, noMatch, unmodeled) ==
  <<Edge(decision, IF complete THEN approve ELSE unmodeled, MATCHED),
    Edge(decision, noMatch, UNMATCHED), Edge(decision, unmodeled, UNKNOWN)>>

SplitMatch(g, n, pick) ==
  LET out == OutOf(g, n)
      decision == n \o "_decision"
      targets == {out[i].to : i \in DOMAIN out}
      approve == ChainNode(g, targets, "APPROVE", pick)
      schedule == ChainNode(g, targets, "SCHEDULE_PAYMENT", pick)
      execute == ChainNode(g, targets, "EXECUTE_PAYMENT", pick)
      complete == Absent \notin {approve, schedule, execute}
      noMatch == Station(g, "task:MANUAL_REVIEW_MATCH_FAILED")
      unmodeled == Station(g, "task:MANUAL_REVIEW_UNMODELED_GATE")
      split == ToTask([g EXCEPT !.nodes =
                         Append(@, [Node(decision, "gateway", "MATCH_DECISION", "gw:MATCH_DECISION")
                                    EXCEPT !.suffixed = TRUE])],
                      n, "MATCH_3_WAY", decision)
      branched == With(split, MatchBranches(decision, approve, complete, noMatch, unmodeled))
  IN IF \/ out = <<>> \/ decision \in Ids(g)
        \/ approve = Absent /\ MATCHED \notin CondSet(out)
     THEN g
     ELSE IF complete THEN Chained(branched, <<<<approve, schedule>>, <<schedule, execute>>>>)
     ELSE branched

FixSecondaryMatch(g, pick) ==
  Sweep(g, LAMBDA h, n : IF n # "n4" /\ IsMatchGateway(The(g, n)) THEN SplitMatch(h, n, pick) ELSE h)

-----------------------------------------------------------------------------
(* Passes 7 to 9: repairs of nodes known by id.                              *)

(* Mutant: the edge is cut and no other put in its place.                   *)
FixMainPathCut(g) ==
  IF EndNode(g) = Absent THEN g ELSE Without(g, LAMBDA e : e.frm = "n7" /\ e.to = "n8")

FixMainPath(g) ==
  IF EndNode(g) = Absent \/ ~HasEdge(g, "n7", "n8") THEN g
  ELSE Chained(Without(g, LAMBDA e : e.frm = "n7" /\ e.to = "n8"), <<<<"n7", EndNode(g)>>>>)

FixHasPo(g) ==
  LET out == OutOf(g, "n8")
      branched == With(Without(g, LAMBDA e : e.frm = "n8"),
                       <<Edge("n8", "n9", NO_PO), Edge("n8", "n15", PO)>>)
      chain == <<<<"n9", "n10">>, <<"n10", "n11">>, <<"n11", "n12">>>>
               \o IF EndNode(g) = Absent THEN <<>> ELSE <<<<"n12", EndNode(g)>>>>
  IN IF "n8" \notin Ids(g) \/ out = <<>> \/ (CondSet(out) = {PO, NO_PO} /\ Len(out) = 2) THEN g
     ELSE Without(Chained(branched, chain), LAMBDA e : e.frm = "n14" /\ e.to = "n15")

UnmodeledToTask(g, n) ==
  IF n \notin Ids(g) \/ (The(g, n).kind = "task" /\ The(g, n).type = "MANUAL_REVIEW_UNMODELED_GATE")
  THEN g ELSE ToTask(g, n, "MANUAL_REVIEW_UNMODELED_GATE", "n_manual_review_gate")

SplitDuplicates(g) ==
  IF "n28" \notin Ids(g) \/ CondSet(OutOf(g, "n28")) = {DUPLICATE, ORIGINAL} THEN g
  ELSE Chained(With(Without(g, LAMBDA e : e.frm = "n28"),
                    <<Edge("n28", "n29", DUPLICATE), Edge("n28", "n30", ORIGINAL)>>),
               <<<<"n30", "n31">>>>)

FixPlaceholders(g) == SplitDuplicates(UnmodeledToTask(UnmodeledToTask(g, "n16"), "n21"))

-----------------------------------------------------------------------------
(* Passes 10 to 12: gateways that do not branch.                             *)

StructuredTypes ==
  {"MATCH_3_WAY", "MATCH_DECISION", "HAS_PO", "APPROVE_OR_REJECT", "THRESHOLD_AMOUNT_10K"}

Unparseable(g, x) ==
  LET conds == {e.cond : e \in ToSet(OutOf(g, x.id))} \ {Null}
  IN /\ x.kind = "gateway"
     /\ \E c \in conds : Canon(c) = Null
     /\ ~(x.type \in StructuredTypes /\ \E c \in conds : Canon(c) # Null)

ConvertUnparseable(g) ==
  LET station == Station(g, "task:MANUAL_REVIEW_UNMODELED_GATE")
  IN Sweep(g, LAMBDA h, n : IF Unparseable(g, The(g, n))
                            THEN ToTask(h, n, "MANUAL_REVIEW_UNMODELED_GATE", station) ELSE h)

DispatchPriority ==
  [ROUTE_FOR_REVIEW |-> 10, REVIEW |-> 20, UPDATE_RECORD |-> 30, APPROVE |-> 40,
   SCHEDULE_PAYMENT |-> 50, EXECUTE_PAYMENT |-> 60, NOTIFY |-> 70, UPDATE_STATUS |-> 80,
   MANUAL_REVIEW_NO_PO |-> 90, MANUAL_REVIEW_MATCH_FAILED |-> 91,
   MANUAL_REVIEW_UNMODELED_GATE |-> 92, MANUAL_REVIEW_AMBIGUOUS_ROUTE |-> 93]

Rank(x) == IF x.type \in DOMAIN DispatchPriority THEN DispatchPriority[x.type] ELSE 999

(* The first of the largest groups of out-edges with one condition.          *)
FanOut(g, n) ==
  LET out == OutOf(g, n)
      Group(c) == SelectSeq(out, LAMBDA e : Canon(e.cond) = c)
      largest == {i \in DOMAIN out : \A j \in DOMAIN out :
                    Len(Group(Canon(out[j].cond))) <= Len(Group(Canon(out[i].cond)))}
  IN IF out = <<>> THEN <<>>
     ELSE Group(Canon(out[CHOOSE i \in largest : \A j \in largest : i <= j].cond))

(* One target per edge of the group, by rank and then by id; the graph lists *)
(* nodes of equal rank in the order of their ids.                            *)
Dispatched(g, n) ==
  LET group == SelectSeq(FanOut(g, n), LAMBDA e : e.to \in Ids(g))
      targets == {e.to : e \in ToSet(group)}
      Place(m) == CHOOSE i \in DOMAIN g.nodes : g.nodes[i].id = m
      Earlier(d, e) == \/ Rank(The(g, d.to)) < Rank(The(g, e.to))
                       \/ Rank(The(g, d.to)) = Rank(The(g, e.to)) /\ Place(d.to) < Place(e.to)
      sorted == SortSeq(group, Earlier)
      chain == <<n>> \o [i \in DOMAIN sorted |-> sorted[i].to]
      cleared == Without(Retyped(g, n, "task", "SEQUENTIAL_DISPATCH"),
                         LAMBDA e : e.frm = n \/ {e.frm, e.to} \subseteq targets)
  IN IF Len(FanOut(g, n)) < 3 \/ \E m \in targets : The(g, m).kind # "task" THEN g
     ELSE With(cleared, [i \in 1..Len(chain) - 1 |-> Edge(chain[i], chain[i + 1], Null)])

IsDispatcher(x) == x.kind = "gateway" /\ x.intent \in {"gw:HAS_PO", "gw:APPROVE_OR_REJECT"}

ConvertDispatch(g) ==
  Sweep(g, LAMBDA h, n : IF IsDispatcher(The(h, n)) THEN Dispatched(h, n) ELSE h)

FansOut(g, x) ==
  LET out == OutOf(g, x.id)
  IN x.kind = "gateway" /\ \E i, j \in DOMAIN out : i # j /\ Canon(out[i].cond) = Canon(out[j].cond)

(* Mutant: gateways of a known type are trusted to branch.                   *)
ConvertFanOutUnstructured(g) ==
  LET station == Station(g, "task:MANUAL_REVIEW_AMBIGUOUS_ROUTE")
  IN Sweep(g, LAMBDA h, n : IF FansOut(g, The(g, n)) /\ The(g, n).type \notin StructuredTypes
                            THEN ToTask(h, n, "MANUAL_REVIEW_AMBIGUOUS_ROUTE", station) ELSE h)

ConvertFanOut(g) ==
  LET station == Station(g, "task:MANUAL_REVIEW_AMBIGUOUS_ROUTE")
  IN Sweep(g, LAMBDA h, n : IF FansOut(g, The(g, n))
                            THEN ToTask(h, n, "MANUAL_REVIEW_AMBIGUOUS_ROUTE", station) ELSE h)

-----------------------------------------------------------------------------
(* Passes 13 to 17: extraction failures, the UNKNOWN branch, duplicates.     *)

(* Mutant: the edge is added whether it is there or not.                     *)
WireBadExtractionAgain(g) ==
  LET enter == FirstTask(g, "ENTER_RECORD")
      reject == FirstTask(g, "REJECT_INVOICE")
  IN IF Absent \in {enter, reject} THEN g
     ELSE InsertedBeforeFallback(g, enter, <<Edge(enter, reject, BAD)>>)

WireBadExtraction(g) ==
  LET enter == FirstTask(g, "ENTER_RECORD")
      reject == IF FirstTask(g, "REJECT_INVOICE") # Absent THEN FirstTask(g, "REJECT_INVOICE")
                                                           ELSE FirstTask(g, "REJECT")
  IN IF Absent \in {enter, reject} \/ Edge(enter, reject, BAD) \in ToSet(g.edges) THEN g
     ELSE InsertedBeforeFallback(g, enter, <<Edge(enter, reject, BAD)>>)

(* Mutant: the route of the pass before is kept beside the new one.          *)
SupersededNone(e, enter) == FALSE

(* The route wire_bad_extraction_route gave, which the critic's replaces.    *)
Superseded(e, enter) == e.frm = enter /\ e.cond = BAD

WireCriticRetry(g) ==
  LET enter == FirstTask(g, "ENTER_RECORD")
      critic == FirstTask(g, "CRITIC_RETRY")
      station == Station(g, "task:MANUAL_REVIEW_BAD_EXTRACTION")
      noPo == FirstTask(g, "MANUAL_REVIEW_NO_PO")
      fallbacks == SelectSeq(OutOf(g, enter), LAMBDA e : e.cond = Null)
      entered == InsertedBeforeFallback(Without(g, LAMBDA e : Superseded(e, enter)),
                                        enter, <<Edge(enter, critic, RETRY), Edge(enter, station, BAD)>>)
      Unless(h, e) == IF HasEdge(h, e.frm, e.to) THEN h ELSE With(h, <<e>>)
      wanted == <<Edge(critic, station, BAD)>>
                \o (IF noPo = Absent THEN <<>> ELSE <<Edge(critic, noPo, NO_PO_AFTER_RETRY)>>)
                \o <<Edge(critic, fallbacks[1].to, Null)>>
  IN IF \/ Absent \in {enter, critic, station} \/ fallbacks = <<>>
        \/ Edge(enter, critic, RETRY) \in ToSet(g.edges)
     THEN g ELSE FoldLeft(Unless, entered, wanted)

MatchConditions == {MATCHED, UNMATCHED, UNKNOWN}

(* The edges from n route on the match result, and none is for UNKNOWN.      *)
Lacks(es, n) ==
  LET conds == {es[i].cond : i \in {j \in DOMAIN es : es[j].frm = n}}
  IN conds \cap MatchConditions # {} /\ UNKNOWN \notin conds

GuardUnknown(g) ==
  LET Guard(n) == Edge(n, Station(g, "task:MANUAL_REVIEW_UNMODELED_GATE"), UNKNOWN)
      guarded[i \in 0..Len(g.edges)] ==
        IF i = 0 THEN g.edges
        ELSE LET before == guarded[i - 1]
                 n == g.edges[i].frm
             IN IF Lacks(before, n) THEN Append(before, Guard(n)) ELSE before
  IN [g EXCEPT !.edges = guarded[Len(g.edges)]]

Deduplicated(es) ==
  LET kept[i \in 0..Len(es)] ==
        IF i = 0 THEN <<>>
        ELSE IF \E j \in 1..(i - 1) : es[j] = es[i] THEN kept[i - 1]
        ELSE Append(kept[i - 1], es[i])
  IN kept[Len(es)]

Deduplicate(g) == [g EXCEPT !.edges = Deduplicated(@)]
=============================================================================
