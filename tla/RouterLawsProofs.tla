--------------------------- MODULE RouterLawsProofs ---------------------------
(* The laws of RouterLaws, for every pool of edges, every set of states and  *)
(* every bound on the number of edges.                                       *)
EXTENDS RouterLaws, TLAPS

(* At most one target is selected.                                           *)
LEMMA SelectsOneTarget ==
  ASSUME NEW s, NEW o, NEW t \in Selection(s, o), NEW u \in Selection(s, o)
  PROVE  t = u
<1>1. PICK i \in DOMAIN o : Selects(s, o, i) /\ t = o[i].to
  BY DEF Selection
<1>2. PICK j \in DOMAIN o : Selects(s, o, j) /\ u = o[j].to
  BY DEF Selection
<1>3. CASE SameTarget(o)
  BY <1>1, <1>2, <1>3 DEF SameTarget
<1>4. CASE ~SameTarget(o)
  <2>1. i = j
    BY <1>1, <1>2, <1>4 DEF Selects
  <2>. QED BY <2>1, <1>1, <1>2
<1>. QED BY <1>3, <1>4

(* Something is selected unless the node diverts; AgentProofs has this too.   *)
LEMMA SelectionEmpty ==
  ASSUME NEW s, NEW o, Len(o) \in Nat \ {0}, DOMAIN o = 1..Len(o)
  PROVE  Selection(s, o) = {} <=> Reason(s, o) \in {"ambiguous_route", "no_route"}
<1>1. Len(o) = 1 => SameTarget(o)
  BY DEF SameTarget
<1>2. CASE SameTarget(o)
  <2>1. 1 \in DOMAIN o /\ Selects(s, o, 1)
    BY <1>2 DEF Selects
  <2>2. Selection(s, o) # {}
    BY <2>1 DEF Selection
  <2>. QED BY <2>2, <1>2 DEF Reason
<1>3. CASE ~SameTarget(o)
  <2>1. Selection(s, o) # {} <=> \E i \in DOMAIN o : Selects(s, o, i)
    BY DEF Selection
  <2>2. Matches(s, o) \subseteq DOMAIN o /\ Fallbacks(o) \subseteq DOMAIN o
    BY DEF Matches, Fallbacks
  <2>3. CASE \E i \in DOMAIN o : Matches(s, o) = {i}
    BY <2>1, <2>3, <1>1, <1>3 DEF Selects, Reason
  <2>4. CASE Matches(s, o) # {} /\ ~\E i \in DOMAIN o : Matches(s, o) = {i}
    <3>1. ~\E i \in DOMAIN o : Selects(s, o, i)
      BY <1>3, <2>4 DEF Selects
    <3>2. Reason(s, o) = "ambiguous_route"
      BY <1>1, <1>3, <2>4 DEF Reason
    <3>. QED BY <2>1, <3>1, <3>2
  <2>5. CASE Matches(s, o) = {}
    <3>1. \A i \in DOMAIN o : Selects(s, o, i) <=> Fallbacks(o) = {i}
      BY <1>3, <2>5 DEF Selects
    <3>2. ~\E i \in DOMAIN o : Matches(s, o) = {i}
      BY <2>5
    <3>3. Len(o) # 1
      BY <1>1, <1>3
    <3>4. Reason(s, o) =
            IF \E i \in DOMAIN o : Fallbacks(o) = {i} THEN "unconditional_fallback"
            ELSE IF Fallbacks(o) # {} THEN "ambiguous_route" ELSE "no_route"
      BY <1>3, <2>5, <3>2, <3>3 DEF Reason
    <3>. QED BY <2>1, <3>1, <3>4
  <2>. QED BY <2>3, <2>4, <2>5
<1>. QED BY <1>2, <1>3

EdgeList == out \in Seq(EdgePool) /\ Len(out) \in Nat \ {0}

(* The node always has at least one edge.                                    *)
THEOREM EdgeListInvariant == Spec => []EdgeList
<1>1. Init => EdgeList
  <2>1. SUFFICES ASSUME NEW e \in EdgePool, out = <<e>> PROVE EdgeList
    BY DEF Init
  <2>2. <<e>> \in Seq(EdgePool) /\ Len(<<e>>) = 1
    OBVIOUS
  <2>. QED BY <2>1, <2>2 DEF EdgeList
<1>2. EdgeList /\ [Next]_vars => EdgeList'
  BY DEF EdgeList, Next, AppendEdge, vars
<1>. QED BY <1>1, <1>2, PTL DEF Spec

LEMMA EdgeListDomain == EdgeList => DOMAIN out = 1..Len(out) /\ 1 \in DOMAIN out
BY DEF EdgeList

(* Reordering the edges renames the indices of every set the router uses.    *)
LEMMA ReorderedIndices ==
  ASSUME NEW s, NEW o, NEW p \in Orders(o), NEW i \in DOMAIN o
  PROVE  /\ DOMAIN Reordered(o, p) = DOMAIN o
         /\ p[i] \in DOMAIN o
         /\ Reordered(o, p)[i] = o[p[i]]
         /\ i \in Matches(s, Reordered(o, p)) <=> p[i] \in Matches(s, o)
         /\ i \in Fallbacks(Reordered(o, p)) <=> p[i] \in Fallbacks(o)
<1>1. p \in [DOMAIN o -> DOMAIN o]
  BY DEF Orders
<1>2. DOMAIN Reordered(o, p) = DOMAIN o /\ Reordered(o, p)[i] = o[p[i]] /\ p[i] \in DOMAIN o
  BY <1>1 DEF Reordered
<1>. QED BY <1>2 DEF Matches, Fallbacks, Matched

(* Renaming the elements of a set renames its subsets.                       *)
LEMMA RenamedSubset ==
  ASSUME NEW D, NEW p \in [D -> D], NEW A \in SUBSET D, NEW B \in SUBSET D, NEW i \in D,
         \A j, k \in D : p[j] = p[k] => j = k,
         \A k \in D : \E j \in D : p[j] = k,
         \A j \in D : j \in A <=> p[j] \in B
  PROVE  (A = {i} <=> B = {p[i]}) /\ (A = {} <=> B = {})
<1>1. ASSUME A = {i} PROVE B = {p[i]}
  <2>1. p[i] \in B
    BY <1>1
  <2>2. ASSUME NEW k \in B PROVE k = p[i]
    <3>1. PICK j \in D : p[j] = k
      OBVIOUS
    <3>. QED BY <1>1, <3>1
  <2>. QED BY <2>1, <2>2
<1>2. ASSUME B = {p[i]} PROVE A = {i}
  BY <1>2
<1>3. ASSUME A = {} PROVE B = {}
  <2>1. ASSUME NEW k \in B PROVE FALSE
    <3>1. PICK j \in D : p[j] = k
      OBVIOUS
    <3>. QED BY <1>3, <3>1
  <2>. QED BY <2>1
<1>4. ASSUME B = {} PROVE A = {}
  BY <1>4
<1>. QED BY <1>1, <1>2, <1>3, <1>4

LEMMA ReorderedSingletons ==
  ASSUME NEW s, NEW o, NEW p \in Orders(o), NEW i \in DOMAIN o
  PROVE  /\ Matches(s, Reordered(o, p)) = {i} <=> Matches(s, o) = {p[i]}
         /\ Matches(s, Reordered(o, p)) = {} <=> Matches(s, o) = {}
         /\ Fallbacks(Reordered(o, p)) = {i} <=> Fallbacks(o) = {p[i]}
<1>. DEFINE r == Reordered(o, p)
<1>1. /\ p \in [DOMAIN o -> DOMAIN o]
      /\ \A j, k \in DOMAIN o : p[j] = p[k] => j = k
      /\ \A k \in DOMAIN o : \E j \in DOMAIN o : p[j] = k
  BY DEF Orders
<1>2. \A j \in DOMAIN o : /\ j \in Matches(s, r) <=> p[j] \in Matches(s, o)
                          /\ j \in Fallbacks(r) <=> p[j] \in Fallbacks(o)
  BY ReorderedIndices
<1>3. /\ Matches(s, r) \in SUBSET DOMAIN o /\ Matches(s, o) \in SUBSET DOMAIN o
      /\ Fallbacks(r) \in SUBSET DOMAIN o /\ Fallbacks(o) \in SUBSET DOMAIN o
  BY ReorderedIndices DEF Matches, Fallbacks
<1>. HIDE DEF r
<1>4. (Matches(s, r) = {i} <=> Matches(s, o) = {p[i]}) /\ (Matches(s, r) = {} <=> Matches(s, o) = {})
  BY <1>1, <1>2, <1>3, RenamedSubset
<1>5. Fallbacks(r) = {i} <=> Fallbacks(o) = {p[i]}
  BY <1>1, <1>2, <1>3, RenamedSubset
<1>. QED BY <1>4, <1>5 DEF r

LEMMA ReorderedTargets ==
  ASSUME NEW o, NEW p \in Orders(o)
  PROVE  SameTarget(Reordered(o, p)) <=> SameTarget(o)
<1>1. \A k \in DOMAIN o : \E j \in DOMAIN o : p[j] = k
  BY DEF Orders
<1>2. DOMAIN Reordered(o, p) = DOMAIN o
  BY DEF Reordered, Orders
<1>3. \A i \in DOMAIN o : p[i] \in DOMAIN o /\ Reordered(o, p)[i] = o[p[i]]
  BY DEF Reordered, Orders
<1>4. ASSUME SameTarget(o) PROVE SameTarget(Reordered(o, p))
  BY <1>2, <1>3, <1>4 DEF SameTarget
<1>5. ASSUME SameTarget(Reordered(o, p)) PROVE SameTarget(o)
  <2>1. SUFFICES ASSUME NEW k \in DOMAIN o, NEW m \in DOMAIN o PROVE o[k].to = o[m].to
    BY DEF SameTarget
  <2>2. PICK i \in DOMAIN o : p[i] = k
    BY <1>1
  <2>3. PICK j \in DOMAIN o : p[j] = m
    BY <1>1
  <2>. QED BY <1>2, <1>3, <1>5, <2>2, <2>3 DEF SameTarget
<1>. QED BY <1>4, <1>5

LEMMA ReorderedSelection ==
  ASSUME NEW s, NEW o, 1 \in DOMAIN o, NEW p \in Orders(o)
  PROVE  Selection(s, Reordered(o, p)) = Selection(s, o)
<1>. DEFINE r == Reordered(o, p)
<1>1. DOMAIN r = DOMAIN o /\ \A i \in DOMAIN o : p[i] \in DOMAIN o /\ r[i] = o[p[i]]
  BY DEF Reordered, Orders
<1>2. \A k \in DOMAIN o : \E j \in DOMAIN o : p[j] = k
  BY DEF Orders
<1>3. SameTarget(r) <=> SameTarget(o)
  BY ReorderedTargets
<1>4. CASE SameTarget(o)
  <2>1. Selection(s, o) = {o[1].to} /\ Selection(s, r) = {r[1].to}
    BY <1>1, <1>3, <1>4 DEF Selection, Selects
  <2>2. r[1].to = o[1].to
    BY <1>1, <1>4 DEF SameTarget
  <2>. QED BY <2>1, <2>2
<1>5. CASE ~SameTarget(o)
  <2>1. \A i \in DOMAIN o : Selects(s, r, i) <=> Selects(s, o, p[i])
    BY <1>1, <1>3, <1>5, ReorderedSingletons DEF Selects
  <2>2. \A t : t \in Selection(s, r) <=> \E i \in DOMAIN o : Selects(s, r, i) /\ t = r[i].to
    BY <1>1 DEF Selection
  <2>3. \A t : t \in Selection(s, o) <=> \E k \in DOMAIN o : Selects(s, o, k) /\ t = o[k].to
    BY DEF Selection
  <2>. HIDE DEF r
  <2>4. ASSUME NEW t, t \in Selection(s, r) PROVE t \in Selection(s, o)
    BY <1>1, <2>1, <2>2, <2>3, <2>4
  <2>5. ASSUME NEW t, t \in Selection(s, o) PROVE t \in Selection(s, r)
    <3>1. PICK k \in DOMAIN o : Selects(s, o, k) /\ t = o[k].to
      BY <2>3, <2>5
    <3>2. PICK i \in DOMAIN o : p[i] = k
      BY <1>2
    <3>. QED BY <1>1, <2>1, <2>2, <3>1, <3>2
  <2>6. Selection(s, r) = Selection(s, o)
    BY <2>4, <2>5
  <2>. QED BY <2>6 DEF r
<1>. QED BY <1>4, <1>5

(* Routing does not depend on the order of the edges in the graph file.      *)
THEOREM OrderIndependence == Spec => []OrderIndependent
<1>1. EdgeList => OrderIndependent
  BY EdgeListDomain, ReorderedSelection DEF OrderIndependent
<1>. QED BY EdgeListInvariant, <1>1, PTL

(* Reason and target never disagree.                                         *)
THEOREM ReasonAgreement == Spec => []ReasonAgreesWithSelection
<1>1. EdgeList => ReasonAgreesWithSelection
  BY EdgeListDomain, SelectionEmpty, SelectsOneTarget DEF ReasonAgreesWithSelection, EdgeList
<1>. QED BY EdgeListInvariant, <1>1, PTL

-----------------------------------------------------------------------------

LEMMA AppendedSelection ==
  ASSUME NEW s, NEW S, NEW o \in Seq(S), Len(o) # 0, NEW e \in S
  PROVE  \/ Selection(s, Append(o, e)) = Selection(s, o)
         \/ Selection(s, Append(o, e)) = {e.to}
         \/ Selection(s, Append(o, e)) = {}
<1>. DEFINE q == Append(o, e)
            n == Len(o)
<1>1. n \in Nat /\ 1 \in 1..n /\ DOMAIN o = 1..n /\ DOMAIN q = 1..(n+1) /\ q[n+1] = e
  OBVIOUS
<1>2. \A i \in 1..n : q[i] = o[i]
  OBVIOUS
<1>. HIDE DEF q, n
<1>3. /\ Matches(s, o) = Matches(s, q) \ {n+1}
      /\ Fallbacks(o) = Fallbacks(q) \ {n+1}
  BY <1>1, <1>2 DEF Matches, Matched, Fallbacks
<1>4. SUFFICES ASSUME NEW j \in DOMAIN q, Selects(s, q, j)
               PROVE  Selection(s, q) = Selection(s, o) \/ Selection(s, q) = {e.to}
  BY DEF Selection, q
<1>5. Selection(s, q) = {q[j].to}
  <2>1. q[j].to \in Selection(s, q)
    BY <1>4 DEF Selection
  <2>. QED BY <2>1, SelectsOneTarget
<1>6. CASE j = n + 1
  BY <1>1, <1>5, <1>6
<1>7. CASE SameTarget(q)
  BY <1>1, <1>5, <1>7 DEF SameTarget
<1>8. CASE j # n + 1 /\ ~SameTarget(q)
  <2>1. j \in 1..n /\ q[j] = o[j]
    BY <1>1, <1>2, <1>4, <1>8
  <2>2. \/ Matches(s, o) = {j}
        \/ Matches(s, o) = {} /\ Fallbacks(o) = {j}
    BY <1>3, <1>4, <1>8, <2>1, <1>1 DEF Selects
  <2>3. CASE SameTarget(o)
    <3>1. Selection(s, o) = {o[1].to}
      BY <1>1, <2>3 DEF Selection, Selects
    <3>2. o[1].to = o[j].to
      BY <1>1, <2>1, <2>3 DEF SameTarget
    <3>. QED BY <3>1, <3>2, <2>1, <1>5
  <2>4. CASE ~SameTarget(o)
    <3>1. \A i \in DOMAIN o : Selects(s, o, i) <=> i = j
      BY <1>1, <2>1, <2>2, <2>4 DEF Selects
    <3>2. Selection(s, o) = {o[j].to}
      BY <1>1, <2>1, <3>1 DEF Selection
    <3>. QED BY <1>5, <2>1, <3>2
  <2>. QED BY <2>3, <2>4
<1>. QED BY <1>6, <1>7, <1>8

(* An appended edge keeps the target, is followed, or diverts; it never      *)
(* sends the invoice to another of the node's targets.                       *)
THEOREM AppendedEdges == Spec => AppendedEdgeOnlyCompetes
<1>. DEFINE Competes ==
       \/ Selection(state, out') = Selection(state, out)
       \/ Selection(state, out') = {out'[Len(out')].to}
       \/ Selection(state, out') = {}
<1>1. EdgeList /\ [Next]_vars => [Competes]_vars
  <2>1. ASSUME EdgeList, NEW e \in EdgePool, AppendEdge(e) PROVE Competes
    <3>1. out' = Append(out, e) /\ out'[Len(out')] = e
      BY <2>1 DEF AppendEdge, EdgeList
    <3>2. out \in Seq(EdgePool) /\ Len(out) # 0
      BY <2>1 DEF EdgeList
    <3>. QED BY <3>1, <3>2, AppendedSelection
  <2>. QED BY <2>1 DEF Next
<1>. QED BY EdgeListInvariant, <1>1, PTL DEF Spec, AppendedEdgeOnlyCompetes
=============================================================================
