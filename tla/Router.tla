------------------------------- MODULE Router -------------------------------
(***************************************************************************)
(* Edge routing of the agent (src/agent/router.py) over the condition      *)
(* language of src/conditions.py.                                          *)
(*                                                                         *)
(* An outgoing edge is a record [to, kind, all].  kind says what compiling *)
(* its condition gave: "always" (no condition), "when" (a conjunction of   *)
(* comparisons, the set all) or "never" (a condition no state satisfies:   *)
(* it does not parse, or it names a key the state does not have).          *)
(* A comparison is a record [field, op, lit].  The values None and NaN     *)
(* stand for Python's None and float("nan").                               *)
(***************************************************************************)
EXTENDS Integers, Sequences

CONSTANTS None, NaN

ASSUME NotANumber == NaN \notin Int /\ None \notin Int \cup BOOLEAN /\ NaN # None

-----------------------------------------------------------------------------

(* Comparison of a state value with a literal.  Every order comparison with *)
(* a NaN is false; a comparison that raises TypeError is false.             *)
Compare(v, op, l) ==
  \/ op = "==" /\ v = l
  \/ op = "!=" /\ v # l
  \/ op = ">"  /\ v # NaN /\ v > l
  \/ op = ">=" /\ v # NaN /\ v >= l
  \/ op = "<"  /\ v # NaN /\ v < l
  \/ op = "<=" /\ v # NaN /\ v <= l

Holds(a, s) == s[a.field] # None /\ Compare(s[a.field], a.op, a.lit)

Matched(s, e) == e.kind = "when" /\ \A a \in e.all : Holds(a, s)

Matches(s, out) == {i \in DOMAIN out : Matched(s, out[i])}

Fallbacks(out) == {i \in DOMAIN out : out[i].kind = "always"}

SameTarget(out) == \A i, j \in DOMAIN out : out[i].to = out[j].to

(* Mutants: the first condition that holds wins; conditions that tie are     *)
(* settled by the unconditional edge.                                       *)
SelectsFirstMatch(s, out, i) ==
  \/ SameTarget(out) /\ i = 1
  \/ ~SameTarget(out) /\ i \in Matches(s, out) /\ \A j \in Matches(s, out) : i <= j
  \/ ~SameTarget(out) /\ Matches(s, out) = {} /\ Fallbacks(out) = {i}

SelectsFallbackOnTie(s, out, i) ==
  \/ SameTarget(out) /\ i = 1
  \/ ~SameTarget(out) /\ Matches(s, out) = {i}
  \/ /\ ~SameTarget(out) /\ Fallbacks(out) = {i}
     /\ ~\E j \in DOMAIN out : Matches(s, out) = {j}

(* Edge i is the one analyze_routing selects: a lone edge and edges that    *)
(* agree on their target are taken without looking at any condition; else   *)
(* the only condition that holds; else the only unconditional edge.         *)
Selects(s, out, i) ==
  \/ SameTarget(out) /\ i = 1
  \/ ~SameTarget(out) /\ Matches(s, out) = {i}
  \/ ~SameTarget(out) /\ Matches(s, out) = {} /\ Fallbacks(out) = {i}

(* The selected target as a set of at most one node; {} is Python's None.   *)
Selection(s, out) ==
  {out[i].to : i \in {j \in DOMAIN out : Selects(s, out, j)}}

(* Mutant: two unconditional edges pass for one.                            *)
ReasonAnyFallback(s, out) ==
  IF Len(out) = 1 THEN "single_edge"
  ELSE IF SameTarget(out) THEN "all_same_target"
  ELSE IF \E i \in DOMAIN out : Matches(s, out) = {i} THEN "condition_match"
  ELSE IF Matches(s, out) # {} THEN "ambiguous_route"
  ELSE IF Fallbacks(out) # {} THEN "unconditional_fallback"
  ELSE "no_route"

Reason(s, out) ==
  IF Len(out) = 1 THEN "single_edge"
  ELSE IF SameTarget(out) THEN "all_same_target"
  ELSE IF \E i \in DOMAIN out : Matches(s, out) = {i} THEN "condition_match"
  ELSE IF Matches(s, out) # {} THEN "ambiguous_route"
  ELSE IF \E i \in DOMAIN out : Fallbacks(out) = {i} THEN "unconditional_fallback"
  ELSE IF Fallbacks(out) # {} THEN "ambiguous_route"
  ELSE "no_route"

Reasons ==
  {"single_edge", "all_same_target", "condition_match", "unconditional_fallback",
   "ambiguous_route", "no_route"}

(* The intent key route_edge looks up when nothing was selected.            *)
StationKey(reason) ==
  IF reason = "ambiguous_route" THEN "task:MANUAL_REVIEW_AMBIGUOUS_ROUTE"
                                ELSE "task:MANUAL_REVIEW_NO_ROUTE"
=============================================================================
