------------------------------ MODULE RouterLaws ------------------------------
(***************************************************************************)
(* Laws of edge routing for one node as its edge list grows the way the    *)
(* patching and normalization passes grow it: one appended edge at a time. *)
(***************************************************************************)
EXTENDS Router

CONSTANTS
  RoutableStates,  \* states the router may be called with
  EdgePool,        \* edges a pass may append
  MaxEdges         \* bound on the edges of the node

ASSUME EdgesAreWellFormed ==
  /\ MaxEdges \in Nat
  /\ \A e \in EdgePool : e.kind \in {"always", "when", "never"}

VARIABLES state, out

Init ==
  /\ state \in RoutableStates
  /\ out \in {<<e>> : e \in EdgePool}

AppendEdge(e) ==
  /\ Len(out) < MaxEdges
  /\ out' = Append(out, e)
  /\ UNCHANGED state

Next == \E e \in EdgePool : AppendEdge(e)

vars == <<state, out>>

Spec == Init /\ [][Next]_vars

-----------------------------------------------------------------------------

Orders(o) ==
  {p \in [DOMAIN o -> DOMAIN o] :
     /\ \A i, j \in DOMAIN o : p[i] = p[j] => i = j
     /\ \A j \in DOMAIN o : \E i \in DOMAIN o : p[i] = j}

Reordered(o, p) == [i \in DOMAIN o |-> o[p[i]]]

(* Routing does not depend on the order of the edges in the graph file,     *)
(* although the code walks them in that order.                              *)
OrderIndependent ==
  \A p \in Orders(out) : Selection(state, Reordered(out, p)) = Selection(state, out)

(* The router selects one target or none, and its reason says which: the    *)
(* caller that looks only at the reason and the one that looks only at the  *)
(* target agree on whether the node needs a station.                        *)
ReasonAgreesWithSelection ==
  /\ \A t, u \in Selection(state, out) : t = u
  /\ Selection(state, out) = {} <=> Reason(state, out) \in {"ambiguous_route", "no_route"}

(* A pass that appends an edge to a node cannot redirect an invoice to one  *)
(* of the node's other targets: it keeps its target, follows the new edge,  *)
(* or is diverted to a station.                                             *)
AppendedEdgeOnlyCompetes ==
  [][\/ Selection(state, out') = Selection(state, out)
     \/ Selection(state, out') = {out'[Len(out')].to}
     \/ Selection(state, out') = {}]_vars
=============================================================================
