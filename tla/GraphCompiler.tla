----------------------------- MODULE GraphCompiler -----------------------------
(***************************************************************************)
(* What becomes of a finished graph: the linter's verdict (linter.py and   *)
(* invariants.py, the errors about nodes and edges; warnings and actor or  *)
(* artifact references are left out) and the tables build_ap_graph makes   *)
(* of it (agent/compiler.py).                                              *)
(***************************************************************************)
EXTENDS GraphPasses, Router, EdgeTerms

CONSTANT Threshold   \* PolicyConfig.approval_threshold

ASSUME ThresholdIsAmount == Threshold \in Nat

-----------------------------------------------------------------------------
(* The linter.                                                               *)

WellReferenced(g) ==
  /\ \A i, j \in DOMAIN g.nodes : g.nodes[i].id = g.nodes[j].id => i = j
  /\ \A e \in ToSet(g.edges) : {e.frm, e.to} \subseteq Ids(g)
  /\ \A x, y \in ToSet(g.nodes) : x.intent = y.intent /\ ~x.suffixed /\ ~y.suffixed => x = y
  /\ IsInjective(g.edges)

Branches(g, x) ==
  LET out == OutOf(g, x.id)
  IN /\ Len(out) >= 2
     /\ \A i \in DOMAIN out : Canon(out[i].cond) # Null
     /\ \A i, j \in DOMAIN out : Canon(out[i].cond) = Canon(out[j].cond) => i = j

NoPlaceholder(g) == \A e \in ToSet(g.edges) : e.cond = Null \/ Canon(e.cond) # Null

(* The task and decision pair a match gateway must have become.              *)
MatchIsSplit(g, x) ==
  LET decision == x.id \o "_decision"
      out == OutOf(g, x.id)
  IN /\ decision \in Ids(g)
     /\ The(g, decision).kind = "gateway" /\ The(g, decision).type = "MATCH_DECISION"
     /\ x.kind = "task" /\ x.type = "MATCH_3_WAY"
     /\ out = <<Edge(x.id, decision, Null)>>
     /\ \A e \in ToSet(g.edges) : e.to = decision => e.frm = x.id

IsDecision(x) == x.kind = "gateway" /\ x.type = "MATCH_DECISION"

(* One edge for each match result, and no other.                            *)
WholeTruthTable(g, x) ==
  LET out == {i \in DOMAIN g.edges : g.edges[i].frm = x.id}
  IN /\ {g.edges[i].cond : i \in out} = MatchConditions
     /\ \A i, j \in out : g.edges[i].cond = g.edges[j].cond => i = j

LintClean(g) ==
  /\ WellReferenced(g)
  /\ NoPlaceholder(g)
  /\ \A x \in ToSet(g.nodes) :
       /\ x.kind = "gateway" => Branches(g, x)
       /\ x.id # "n4" /\ x.intent = "gw:MATCH_3_WAY" => MatchIsSplit(g, x)
       /\ IsDecision(x) => WholeTruthTable(g, x)
  /\ \A e \in ToSet(g.edges) : e.cond \in MatchConditions => IsDecision(The(g, e.frm))

-----------------------------------------------------------------------------
(* The compiler.                                                             *)

(* Edge i leaves n and is the first of its pair of nodes.                    *)
Kept(g, n, i) ==
  /\ g.edges[i].frm = n
  /\ \A j \in 1..(i - 1) : ~(g.edges[j].frm = n /\ g.edges[j].to = g.edges[i].to)

(* Conditions that compile, and what they compare.                           *)
Compilable ==
  {MATCHED, UNMATCHED, UNKNOWN, ABOVE, WITHIN, PO, NO_PO, BAD, RETRY, MISSING, DUPLICATE, ORIGINAL,
   NO_PO_GUARD, NO_PO_AFTER_RETRY}

Meaning(c) ==
  CASE c = MATCHED -> {Is("match_result", "MATCH")}
    [] c = UNMATCHED -> {Is("match_result", "NO_MATCH")}
    [] c = UNKNOWN -> {Is("match_result", "UNKNOWN")}
    [] c = ABOVE -> {Above("amount", Threshold)}
    [] c = WITHIN -> {AtMost("amount", Threshold)}
    [] c = PO -> {Is("has_po", TRUE)}
    [] c = NO_PO -> {Is("has_po", FALSE)}
    [] c = BAD -> {Is("status", "BAD_EXTRACTION")}
    [] c = RETRY -> {Is("status", "NEEDS_RETRY")}
    [] c = MISSING -> {Is("status", "MISSING_DATA")}
    [] c = DUPLICATE -> {Is("status", "DUPLICATE")}
    [] c = ORIGINAL -> {IsNot("status", "DUPLICATE")}
    [] c = NO_PO_GUARD -> {IsNot("status", "BAD_EXTRACTION"), IsNot("status", "NEEDS_RETRY"),
                           IsNot("status", "MISSING_DATA"), Is("has_po", FALSE)}
    [] c = NO_PO_AFTER_RETRY -> {IsNot("status", "BAD_EXTRACTION"), Is("has_po", FALSE)}

(* The edge the router evaluates: compile_condition of its text.             *)
Routed(e) ==
  IF e.cond = Null THEN Always(e.to)
  ELSE IF e.cond \in Compilable THEN When(e.to, Meaning(e.cond)) ELSE Never(e.to)

CompiledOut(g, n) ==
  LET outgoing[i \in 0..Len(g.edges)] ==
        IF i = 0 THEN <<>>
        ELSE IF Kept(g, n, i) THEN Append(outgoing[i - 1], Routed(g.edges[i]))
        ELSE outgoing[i - 1]
  IN outgoing[Len(g.edges)]

Entry(g) ==
  LET start == FirstNode(g, LAMBDA x : x.intent = "event:start")
  IN IF start = Absent THEN g.nodes[1].id ELSE start

Ends(g) == {x.id : x \in {y \in ToSet(g.nodes) : y.kind = "end" \/ y.intent = "end:end"}}
=============================================================================
