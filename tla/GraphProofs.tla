------------------------------ MODULE GraphProofs ------------------------------
(***************************************************************************)
(* What the linter's verdict is worth once a graph is compiled and routed, *)
(* for every graph, whatever passes it has been through; and which passes  *)
(* change nothing when they are run again.                                 *)
(***************************************************************************)
EXTENDS GraphPipeline, SequenceTheorems, WellFoundedInduction, TLAPS

-----------------------------------------------------------------------------
(* Numbers and recursion.                                                    *)

(* A set of numbers has a least one.                                        *)
LEMMA Least ==
  ASSUME NEW S, S \subseteq Nat, S # {}
  PROVE  \E x \in S : \A y \in S : x <= y
<1>1. \E x \in S : \A y \in S : ~(<<y, x>> \in OpToRel(<, Nat))
  BY NatLessThanWellFounded, WFMin
<1>2. PICK x \in S : \A y \in S : ~(<<y, x>> \in OpToRel(<, Nat))
  BY <1>1
<1>3. \A y \in S : ~(y < x)
  BY <1>2 DEF OpToRel
<1>. QED BY <1>3

(* Induction up to n, on the set of numbers something is known of.          *)
LEMMA UpTo ==
  ASSUME NEW n \in Nat, NEW S, 0 \in S, \A k \in 1..n : k - 1 \in S => k \in S
  PROVE  0..n \subseteq S
<1>1. SUFFICES ASSUME (0..n) \ S # {} PROVE FALSE
  OBVIOUS
<1>2. PICK x \in (0..n) \ S : \A y \in (0..n) \ S : x <= y
  <2>1. (0..n) \ S \subseteq Nat
    OBVIOUS
  <2>. QED BY <1>1, <2>1, Least
<1>3. x # 0 /\ x \in 1..n /\ x - 1 \in 0..n /\ ~(x <= x - 1)
  BY <1>2
<1>4. x - 1 \in S
  BY <1>2, <1>3
<1>. QED BY <1>2, <1>3, <1>4

StepsOn(A, n) == [1..n -> [A -> A]]

HasRun(A, n, a, step) ==
  \E f \in [0..n -> A] : f[0] = a /\ \A k \in 1..n : f[k] = step[k][f[k - 1]]

(* A function on 0..n is given by its first value and its steps.            *)
LEMMA Recursion ==
  ASSUME NEW n \in Nat, NEW A, NEW a \in A, NEW step \in StepsOn(A, n)
  PROVE  HasRun(A, n, a, step)
<1>. USE DEF StepsOn, HasRun
<1>. DEFINE Fits(f, m) == f[0] = a /\ \A k \in 1..m : f[k] = step[k][f[k - 1]]
            S == {m \in 0..n : \E f \in [0..m -> A] : Fits(f, m)}
<1>1. 0 \in S
  <2>1. [i \in 0..0 |-> a] \in [0..0 -> A] /\ Fits([i \in 0..0 |-> a], 0)
    OBVIOUS
  <2>2. 0 \in 0..n
    OBVIOUS
  <2>. HIDE DEF Fits
  <2>. QED BY <2>1, <2>2
<1>2. ASSUME NEW k \in 1..n, k - 1 \in S PROVE k \in S
  <2>1. PICK f \in [0..(k - 1) -> A] : Fits(f, k - 1)
    BY <1>2
  <2>. DEFINE h == [i \in 0..k |-> IF i = k THEN step[k][f[k - 1]] ELSE f[i]]
  <2>2. h \in [0..k -> A]
    <3>1. f[k - 1] \in A
      OBVIOUS
    <3>. QED BY <3>1
  <2>3. ASSUME NEW j \in 1..k PROVE h[j] = step[j][h[j - 1]]
    <3>1. CASE j = k
      BY <3>1
    <3>2. CASE j # k
      <4>1. j \in 1..(k - 1) /\ j - 1 \in 0..k /\ j - 1 # k /\ j \in 0..k
        BY <3>2
      <4>. QED BY <2>1, <3>2, <4>1
    <3>. QED BY <3>1, <3>2
  <2>4. h[0] = a
    BY <2>1
  <2>5. k \in 0..n
    OBVIOUS
  <2>. QED BY <2>2, <2>3, <2>4, <2>5
<1>3. n \in S
  <2>. HIDE DEF S
  <2>1. 0..n \subseteq S
    BY <1>1, <1>2, UpTo
  <2>. QED BY <2>1
<1>. QED BY <1>3

(* Two functions on 0..n that start alike and go on alike are one.          *)
IsWalk(n, f) == f = [i \in 0..n |-> f[i]]

LEMMA SameWalk ==
  ASSUME NEW n \in Nat, NEW e, NEW f, IsWalk(n, e), IsWalk(n, f), e[0] = f[0],
         \A k \in 1..n : e[k - 1] = f[k - 1] => e[k] = f[k]
  PROVE  e = f
<1>. DEFINE Same == {k \in 0..n : e[k] = f[k]}
<1>1. 0 \in Same
  OBVIOUS
<1>2. \A k \in 1..n : k - 1 \in Same => k \in Same
  OBVIOUS
<1>3. 0..n \subseteq Same
  <2>. HIDE DEF Same
  <2>. QED BY <1>1, <1>2, UpTo
<1>4. \A i \in 0..n : e[i] = f[i]
  BY <1>3
<1>5. [i \in 0..n |-> e[i]] = [i \in 0..n |-> f[i]]
  BY <1>4
<1>. QED BY <1>5 DEF IsWalk

-----------------------------------------------------------------------------
(* Compiled edges.                                                           *)

Extended(g, n, out, k) == IF Kept(g, n, k) THEN Append(out, Routed(g.edges[k])) ELSE out

Collects(g, n, f, m) ==
  /\ f[0] = <<>>
  /\ \A k \in 1..m : f[k] = Extended(g, n, f[k - 1], k)

RoutedEdges(g) == {Routed(g.edges[i]) : i \in DOMAIN g.edges}

(* The compiler's list is what a walk over the edges collects.              *)
LEMMA CompiledStepwise ==
  ASSUME NEW g, NEW E, g.edges \in Seq(E), NEW n
  PROVE  \E f \in [0..Len(g.edges) -> Seq(RoutedEdges(g))] :
           Collects(g, n, f, Len(g.edges)) /\ CompiledOut(g, n) = f[Len(g.edges)]
<1>. DEFINE m == Len(g.edges)
            R == Seq(RoutedEdges(g))
            step == [k \in 1..m |-> [out \in R |-> Extended(g, n, out, k)]]
            Walks(f) ==
              f = [i \in 0..m |-> IF i = 0 THEN <<>>
                                  ELSE IF Kept(g, n, i) THEN Append(f[i - 1], Routed(g.edges[i]))
                                  ELSE f[i - 1]]
<1>1. m \in Nat /\ DOMAIN g.edges = 1..m
  OBVIOUS
<1>. HIDE DEF m
<1>2. <<>> \in R
  BY EmptySeq
<1>3. ASSUME NEW k \in 1..m, NEW out \in R PROVE Extended(g, n, out, k) \in R
  <2>1. Routed(g.edges[k]) \in RoutedEdges(g)
    BY <1>1 DEF RoutedEdges
  <2>2. Append(out, Routed(g.edges[k])) \in R
    BY <2>1, AppendProperties
  <2>. QED BY <2>2 DEF Extended
<1>. HIDE DEF R
<1>4. step \in StepsOn(R, m)
  BY <1>3 DEF StepsOn
<1>5. PICK f \in [0..m -> R] : f[0] = <<>> /\ \A k \in 1..m : f[k] = step[k][f[k - 1]]
  <2>. HIDE DEF step
  <2>1. HasRun(R, m, <<>>, step)
    BY <1>1, <1>2, <1>4, Recursion
  <2>. QED BY <2>1 DEF HasRun
<1>6. Collects(g, n, f, m)
  <2>1. ASSUME NEW k \in 1..m PROVE f[k] = Extended(g, n, f[k - 1], k)
    <3>1. k - 1 \in 0..m
      BY <1>1
    <3>. QED BY <1>5, <3>1
  <2>. QED BY <1>5, <2>1 DEF Collects
<1>7. \A e : Walks(e) <=> e = f
  <2>1. \A i \in 0..m : i = 0 \/ i \in 1..m
    BY <1>1
  <2>2. Walks(f)
    <3>1. \A i \in 0..m : f[i] = IF i = 0 THEN <<>>
                                  ELSE IF Kept(g, n, i) THEN Append(f[i - 1], Routed(g.edges[i]))
                                  ELSE f[i - 1]
      BY <2>1, <1>6 DEF Collects, Extended
    <3>. QED BY <3>1
  <2>3. ASSUME NEW e, Walks(e) PROVE e = f
    <3>1. IsWalk(m, e) /\ e[0] = <<>>
      BY <2>3, <1>1 DEF IsWalk
    <3>2. \A k \in 1..m : e[k] = Extended(g, n, e[k - 1], k)
      <4>1. \A k \in 1..m : k \in 0..m /\ k # 0
        BY <1>1
      <4>2. \A i \in 0..m : e[i] = IF i = 0 THEN <<>>
                                    ELSE IF Kept(g, n, i) THEN Append(e[i - 1], Routed(g.edges[i]))
                                    ELSE e[i - 1]
        BY <2>3
      <4>. HIDE DEF Walks
      <4>. QED BY <4>1, <4>2 DEF Extended
    <3>3. IsWalk(m, f) /\ f[0] = <<>>
      BY <1>6 DEF Collects, IsWalk
    <3>4. \A k \in 1..m : e[k - 1] = f[k - 1] => e[k] = f[k]
      BY <3>2, <1>6 DEF Collects
    <3>. HIDE DEF Walks
    <3>. QED BY <1>1, <3>1, <3>3, <3>4, SameWalk
  <2>. QED BY <2>2, <2>3
<1>8. CompiledOut(g, n) = f[m]
  <2>1. f = CHOOSE e : Walks(e)
    <3>. HIDE DEF Walks
    <3>. QED BY <1>7
  <2>. QED BY <2>1 DEF CompiledOut, m
<1>. QED BY <1>5, <1>6, <1>8 DEF m, R

LEMMA RoutedTarget == \A e : Routed(e).to = e.to
BY DEF Routed, Always, When, Never

(* The kept edges of n up to the m-th, and no two to one target.            *)
Lists(g, n, out, m) ==
  /\ \A k \in DOMAIN out : \E i \in 1..m : Kept(g, n, i) /\ out[k] = Routed(g.edges[i])
  /\ \A i \in 1..m : Kept(g, n, i) => \E k \in DOMAIN out : out[k] = Routed(g.edges[i])
  /\ \A k, l \in DOMAIN out : out[k].to = out[l].to => k = l

LEMMA ListsOneMore ==
  ASSUME NEW g, NEW n, NEW k \in Nat \ {0}, NEW out \in Seq(RoutedEdges(g)), Lists(g, n, out, k - 1),
         k \in DOMAIN g.edges
  PROVE  Lists(g, n, Extended(g, n, out, k), k)
<1>1. \A i : i \in 1..k <=> i \in 1..(k - 1) \/ i = k
  OBVIOUS
<1>2. CASE ~Kept(g, n, k)
  BY <1>1, <1>2 DEF Lists, Extended
<1>3. CASE Kept(g, n, k)
  <2>. DEFINE e == Routed(g.edges[k])
              longer == Append(out, e)
              d == Len(out)
  <2>1. e \in RoutedEdges(g)
    BY DEF RoutedEdges
  <2>. HIDE DEF e
  <2>2. /\ d \in Nat /\ DOMAIN out = 1..d /\ DOMAIN longer = 1..(d + 1)
        /\ longer[d + 1] = e /\ \A l \in 1..d : longer[l] = out[l]
    BY <2>1, AppendProperties
  <2>3. Extended(g, n, out, k) = longer
    BY <1>3 DEF Extended, e
  <2>. HIDE DEF longer, d
  <2>4. \A l : l \in 1..(d + 1) <=> l \in 1..d \/ l = d + 1
    BY <2>2
  <2>5. ASSUME NEW l \in DOMAIN longer
        PROVE  \E i \in 1..k : Kept(g, n, i) /\ longer[l] = Routed(g.edges[i])
    BY <1>1, <1>3, <2>2, <2>4, <2>5 DEF Lists, e
  <2>6. ASSUME NEW i \in 1..k, Kept(g, n, i)
        PROVE  \E l \in DOMAIN longer : longer[l] = Routed(g.edges[i])
    <3>1. CASE i = k
      BY <2>2, <2>4, <3>1 DEF e
    <3>2. CASE i # k
      <4>1. PICK l \in DOMAIN out : out[l] = Routed(g.edges[i])
        BY <1>1, <2>6, <3>2 DEF Lists
      <4>. QED BY <2>2, <2>4, <4>1
    <3>. QED BY <3>1, <3>2
  <2>7. ASSUME NEW l \in 1..d PROVE longer[l].to # longer[d + 1].to
    <3>1. PICK i \in 1..(k - 1) : Kept(g, n, i) /\ out[l] = Routed(g.edges[i])
      BY <2>2 DEF Lists
    <3>2. g.edges[i].frm = n /\ g.edges[i].to # g.edges[k].to
      BY <1>3, <3>1 DEF Kept
    <3>. QED BY <2>2, <3>1, <3>2, RoutedTarget DEF e
  <2>8. ASSUME NEW l \in DOMAIN longer, NEW j \in DOMAIN longer, longer[l].to = longer[j].to
        PROVE  l = j
    BY <2>2, <2>4, <2>7, <2>8 DEF Lists
  <2>. QED BY <2>3, <2>5, <2>6, <2>8 DEF Lists
<1>. QED BY <1>2, <1>3

(* The compiler keeps one edge from n to each of its targets.               *)
LEMMA CompiledEdges ==
  ASSUME NEW g, NEW E, g.edges \in Seq(E), NEW n
  PROVE  CompiledOut(g, n) \in Seq(RoutedEdges(g)) /\ Lists(g, n, CompiledOut(g, n), Len(g.edges))
<1>. DEFINE m == Len(g.edges)
<1>1. m \in Nat /\ DOMAIN g.edges = 1..m
  OBVIOUS
<1>2. PICK f \in [0..m -> Seq(RoutedEdges(g))] : Collects(g, n, f, m) /\ CompiledOut(g, n) = f[m]
  BY CompiledStepwise
<1>. HIDE DEF m
<1>. DEFINE S == {k \in 0..m : Lists(g, n, f[k], k)}
<1>3. 0 \in S
  <2>1. 0 \in 0..m /\ f[0] = <<>> /\ 1..0 = {}
    BY <1>1, <1>2 DEF Collects
  <2>. QED BY <2>1 DEF Lists
<1>4. ASSUME NEW k \in 1..m, k - 1 \in S PROVE k \in S
  <2>1. k \in Nat \ {0} /\ k \in 0..m /\ k - 1 \in 0..m /\ k \in DOMAIN g.edges
    BY <1>1
  <2>2. f[k - 1] \in Seq(RoutedEdges(g)) /\ Lists(g, n, f[k - 1], k - 1)
    BY <1>4, <2>1
  <2>3. f[k] = Extended(g, n, f[k - 1], k)
    BY <1>2 DEF Collects
  <2>. QED BY <2>1, <2>2, <2>3, ListsOneMore
<1>5. m \in 0..m
  BY <1>1
<1>6. 0..m \subseteq S
  <2>. HIDE DEF S
  <2>. QED BY <1>1, <1>3, <1>4, UpTo
<1>. QED BY <1>2, <1>5, <1>6 DEF m

(* What an edge of n leads to, a kept edge leads to.                        *)
LEMMA KeptForTarget ==
  ASSUME NEW g, NEW E, g.edges \in Seq(E), NEW i \in DOMAIN g.edges
  PROVE  \E j \in DOMAIN g.edges : Kept(g, g.edges[i].frm, j) /\ g.edges[j].to = g.edges[i].to
<1>. DEFINE Twin(j) == g.edges[j].frm = g.edges[i].frm /\ g.edges[j].to = g.edges[i].to
            S == {j \in DOMAIN g.edges : Twin(j)}
<1>1. DOMAIN g.edges = 1..Len(g.edges) /\ Len(g.edges) \in Nat
  OBVIOUS
<1>2. i \in S /\ S \subseteq Nat
  BY <1>1
<1>3. PICK j \in S : \A k \in S : j <= k
  <2>. HIDE DEF S
  <2>. QED BY <1>2, Least
<1>4. ASSUME NEW k \in 1..(j - 1) PROVE ~Twin(k)
  <2>1. k \in DOMAIN g.edges /\ ~(j <= k)
    BY <1>1, <1>3
  <2>. QED BY <1>3, <2>1
<1>. QED BY <1>3, <1>4 DEF Kept

-----------------------------------------------------------------------------
(* Accepted graphs.                                                          *)

(* The compiled tables are what GraphWellFormed (AgentWorkflow.tla) asks of  *)
(* a graph: every edge the router can follow stays in it, the start and the  *)
(* ends are nodes, and no branch is lost but one with another's target       *)
(* (lint_process_graph and build_ap_graph together).                         *)
THEOREM TablesAreWellFormed ==
  ASSUME NEW N, NEW E, NEW g \in [nodes : Seq(N), edges : Seq(E)], g.nodes # <<>>, LintClean(g)
  PROVE  /\ Entry(g) \in Ids(g) /\ Ends(g) \subseteq Ids(g)
         /\ \A n \in Ids(g) :
              LET out == CompiledOut(g, n)
              IN /\ out \in Seq({out[i] : i \in DOMAIN out})
                 /\ \A i \in DOMAIN out : out[i].to \in Ids(g)
                 /\ \A i, j \in DOMAIN out : out[i].to = out[j].to => i = j
                 /\ \A e \in ToSet(g.edges) : e.frm = n => \E i \in DOMAIN out : out[i].to = e.to
<1>1. /\ g.edges \in Seq(E) /\ DOMAIN g.edges = 1..Len(g.edges) /\ Len(g.edges) \in Nat
      /\ DOMAIN g.nodes = 1..Len(g.nodes) /\ Len(g.nodes) \in Nat /\ 1 \in DOMAIN g.nodes
  OBVIOUS
<1>2. Ends(g) \subseteq Ids(g)
  BY DEF Ends, Ids, ToSet
<1>3. Entry(g) \in Ids(g)
  <2>. DEFINE hits == {i \in DOMAIN g.nodes : g.nodes[i].intent = "event:start"}
  <2>1. CASE hits = {}
    BY <1>1, <2>1 DEF Entry, FirstNode, Ids
  <2>2. CASE hits # {}
    <3>1. hits \subseteq Nat
      BY <1>1
    <3>2. \E i \in hits : \A j \in hits : i <= j
      <4>. HIDE DEF hits
      <4>. QED BY <2>2, <3>1, Least
    <3>3. (CHOOSE i \in hits : \A j \in hits : i <= j) \in DOMAIN g.nodes
      BY <3>2
    <3>. QED BY <1>1, <3>3 DEF Entry, FirstNode, Ids
  <2>. QED BY <2>1, <2>2
<1>4. ASSUME NEW i \in DOMAIN g.edges PROVE g.edges[i].to \in Ids(g)
  <2>1. g.edges[i] \in ToSet(g.edges)
    BY DEF ToSet
  <2>. QED BY <2>1 DEF LintClean, WellReferenced
<1>5. ASSUME NEW n \in Ids(g)
      PROVE  LET out == CompiledOut(g, n)
             IN /\ out \in Seq({out[i] : i \in DOMAIN out})
                /\ \A i \in DOMAIN out : out[i].to \in Ids(g)
                /\ \A i, j \in DOMAIN out : out[i].to = out[j].to => i = j
                /\ \A e \in ToSet(g.edges) : e.frm = n => \E i \in DOMAIN out : out[i].to = e.to
  <2>. DEFINE out == CompiledOut(g, n)
  <2>1. out \in Seq(RoutedEdges(g)) /\ Lists(g, n, out, Len(g.edges))
    BY <1>1, CompiledEdges
  <2>. HIDE DEF out
  <2>2. out \in Seq({out[i] : i \in DOMAIN out})
    BY <2>1
  <2>3. ASSUME NEW i \in DOMAIN out PROVE out[i].to \in Ids(g)
    <3>1. PICK j \in DOMAIN g.edges : out[i] = Routed(g.edges[j])
      BY <1>1, <2>1 DEF Lists
    <3>. QED BY <1>4, <3>1, RoutedTarget
  <2>4. ASSUME NEW e \in ToSet(g.edges), e.frm = n PROVE \E i \in DOMAIN out : out[i].to = e.to
    <3>1. PICK k \in DOMAIN g.edges : g.edges[k] = e
      BY DEF ToSet
    <3>2. PICK j \in DOMAIN g.edges : Kept(g, n, j) /\ g.edges[j].to = e.to
      BY <1>1, <2>4, <3>1, KeptForTarget
    <3>3. PICK i \in DOMAIN out : out[i] = Routed(g.edges[j])
      BY <1>1, <2>1, <3>2 DEF Lists
    <3>. QED BY <3>2, <3>3, RoutedTarget
  <2>. QED BY <2>1, <2>2, <2>3, <2>4 DEF Lists, out
<1>. QED BY <1>2, <1>3, <1>5

(* Where the edges of n with condition c lead.                              *)
Branch(g, n, c) == {g.edges[i].to : i \in {j \in DOMAIN g.edges : g.edges[j].frm = n /\ g.edges[j].cond = c}}

Answer == [MATCH |-> MATCHED, NO_MATCH |-> UNMATCHED, UNKNOWN |-> UNKNOWN]

(* The branches of a decision compile to comparisons with one match result. *)
LEMMA BranchesCompile ==
  ASSUME NEW e, NEW s, e.cond \in MatchConditions
  PROVE  /\ Routed(e).kind = "when"
         /\ \E r \in DOMAIN Answer : e.cond = Answer[r] /\ Routed(e).all = {Is("match_result", r)}
         /\ \A r \in DOMAIN Answer :
              e.cond = Answer[r] =>
                (Matched(s, Routed(e)) <=> s["match_result"] # None /\ s["match_result"] = r)
<1>1. /\ MATCHED # UNMATCHED /\ MATCHED # UNKNOWN /\ UNMATCHED # UNKNOWN
      /\ Null \notin MatchConditions /\ MatchConditions \subseteq Compilable
  BY DEF MATCHED, UNMATCHED, UNKNOWN, Null, MatchConditions, Compilable
<1>2. /\ Meaning(MATCHED) = {Is("match_result", "MATCH")}
      /\ Meaning(UNMATCHED) = {Is("match_result", "NO_MATCH")}
      /\ Meaning(UNKNOWN) = {Is("match_result", "UNKNOWN")}
  BY DEF Meaning, MATCHED, UNMATCHED, UNKNOWN, ABOVE, WITHIN, PO, NO_PO, BAD, RETRY, MISSING,
         DUPLICATE, ORIGINAL, NO_PO_GUARD, NO_PO_AFTER_RETRY
<1>3. Routed(e) = When(e.to, Meaning(e.cond))
  BY <1>1 DEF Routed
<1>4. PICK r \in DOMAIN Answer : e.cond = Answer[r] /\ Meaning(e.cond) = {Is("match_result", r)}
  BY <1>2 DEF MatchConditions, Answer
<1>5. \A q \in DOMAIN Answer : e.cond = Answer[q] => q = r
  BY <1>1, <1>4 DEF Answer
<1>6. Routed(e).kind = "when" /\ Routed(e).all = {Is("match_result", r)}
  BY <1>3, <1>4 DEF When
<1>7. Matched(s, Routed(e)) <=> Holds(Is("match_result", r), s)
  BY <1>6 DEF Matched
<1>8. Holds(Is("match_result", r), s) <=> s["match_result"] # None /\ s["match_result"] = r
  BY DEF Holds, Is, Compare
<1>. QED BY <1>4, <1>5, <1>6, <1>7, <1>8

(* The router follows one edge only, or all there are to one target.        *)
LEMMA SelectedEdge ==
  ASSUME NEW s, NEW out, NEW t \in Selection(s, out),
         \A i \in DOMAIN out : out[i].kind = "when",
         \A i, j \in DOMAIN out : out[i].to = out[j].to => i = j
  PROVE  \E k \in DOMAIN out : out[k].to = t /\ (DOMAIN out = {k} \/ Matched(s, out[k]))
<1>1. PICK k \in DOMAIN out : Selects(s, out, k) /\ t = out[k].to
  BY DEF Selection
<1>2. CASE SameTarget(out)
  BY <1>1, <1>2 DEF SameTarget
<1>3. CASE ~SameTarget(out)
  <2>1. Fallbacks(out) = {}
    BY DEF Fallbacks
  <2>2. Matches(s, out) = {k}
    BY <1>1, <1>3, <2>1 DEF Selects
  <2>. QED BY <1>1, <2>2 DEF Matches
<1>. QED BY <1>2, <1>3

(* In a graph the linter accepted, a match decision follows the branch of    *)
(* the result the invoice has, or diverts: a branch lost because it leads    *)
(* where another does never sends an invoice elsewhere, not even when one    *)
(* edge is left, which is taken unread; and when no branch is lost the       *)
(* branch of the result is taken (check_match_decision_truth_table, the     *)
(* deduplication at compiler.py:61 and analyze_routing together).            *)
THEOREM DecisionsFollowTheMatch ==
  ASSUME NEW N, NEW E, NEW g \in [nodes : Seq(N), edges : Seq(E)], LintClean(g),
         NEW x \in ToSet(g.nodes), IsDecision(x), NEW s
  PROVE  LET out == CompiledOut(g, x.id)
             Leads(r) == Branch(g, x.id, Answer[r])
         IN \A r \in DOMAIN Answer :
              /\ s["match_result"] = r => Selection(s, out) \subseteq Leads(r)
              /\ s["match_result"] \notin DOMAIN Answer => Selection(s, out) \subseteq Leads(r)
              /\ /\ s["match_result"] = r /\ r # None
                 /\ \A p, q \in DOMAIN Answer : p # q => Leads(p) \cap Leads(q) = {}
                 => Selection(s, out) = Leads(r)
<1>. DEFINE n == x.id
            out == CompiledOut(g, n)
            Leads(r) == Branch(g, n, Answer[r])
<1>1. g.edges \in Seq(E) /\ DOMAIN g.edges = 1..Len(g.edges) /\ Len(g.edges) \in Nat
  OBVIOUS
<1>2. /\ \A i \in DOMAIN g.edges : g.edges[i].frm = n => g.edges[i].cond \in MatchConditions
      /\ \A c \in MatchConditions : \E i \in DOMAIN g.edges : g.edges[i].frm = n /\ g.edges[i].cond = c
      /\ \A i, j \in DOMAIN g.edges :
           g.edges[i].frm = n /\ g.edges[j].frm = n /\ g.edges[i].cond = g.edges[j].cond => i = j
  BY DEF LintClean, WholeTruthTable
<1>3. out \in Seq(RoutedEdges(g)) /\ Lists(g, n, out, Len(g.edges))
  BY <1>1, CompiledEdges
<1>. HIDE DEF out, n
<1>4. ASSUME NEW k \in DOMAIN out
      PROVE  \E i \in DOMAIN g.edges : Kept(g, n, i) /\ out[k] = Routed(g.edges[i])
  BY <1>1, <1>3 DEF Lists
<1>5. ASSUME NEW k \in DOMAIN out, NEW i \in DOMAIN g.edges, Kept(g, n, i), out[k] = Routed(g.edges[i])
      PROVE  /\ out[k].kind = "when" /\ out[k].to = g.edges[i].to
             /\ \E r \in DOMAIN Answer : g.edges[i].cond = Answer[r]
             /\ \A r \in DOMAIN Answer : g.edges[i].cond = Answer[r] =>
                  /\ out[k].to \in Leads(r)
                  /\ Matched(s, out[k]) <=> s["match_result"] # None /\ s["match_result"] = r
  <2>1. g.edges[i].frm = n /\ g.edges[i].cond \in MatchConditions
    BY <1>2, <1>5 DEF Kept
  <2>. DEFINE e == g.edges[i]
  <2>2. e.cond \in MatchConditions /\ out[k] = Routed(e)
    BY <1>5, <2>1
  <2>3. \A r : e.cond = Answer[r] => e.to \in Leads(r)
    BY <2>1 DEF Branch
  <2>. HIDE DEF e
  <2>4. /\ Routed(e).kind = "when" /\ Routed(e).to = e.to
        /\ \E r \in DOMAIN Answer : e.cond = Answer[r]
        /\ \A r \in DOMAIN Answer :
             e.cond = Answer[r] =>
               (Matched(s, Routed(e)) <=> s["match_result"] # None /\ s["match_result"] = r)
    BY <2>2, BranchesCompile, RoutedTarget
  <2>. HIDE DEF Leads
  <2>5. out[k].to = e.to
    BY <2>2, <2>4
  <2>. QED BY <2>2, <2>3, <2>4, <2>5 DEF e
<1>6. /\ \A k \in DOMAIN out : out[k].kind = "when"
      /\ \A k, l \in DOMAIN out : out[k].to = out[l].to => k = l
  BY <1>3, <1>4, <1>5 DEF Lists
<1>7. ASSUME NEW r \in DOMAIN Answer
      PROVE  \E k \in DOMAIN out : Leads(r) = {out[k].to}
  <2>1. PICK i \in DOMAIN g.edges : g.edges[i].frm = n /\ g.edges[i].cond = Answer[r]
    BY <1>2 DEF Answer, MatchConditions
  <2>2. Leads(r) = {g.edges[i].to}
    BY <1>2, <2>1 DEF Branch
  <2>3. PICK j \in DOMAIN g.edges : Kept(g, n, j) /\ g.edges[j].to = g.edges[i].to
    BY <1>1, <2>1, KeptForTarget
  <2>4. PICK k \in DOMAIN out : out[k] = Routed(g.edges[j])
    BY <1>1, <1>3, <2>3 DEF Lists
  <2>. QED BY <2>2, <2>3, <2>4, RoutedTarget
<1>8. ASSUME NEW r \in DOMAIN Answer, NEW t \in Selection(s, out),
             s["match_result"] = r \/ s["match_result"] \notin DOMAIN Answer
      PROVE  t \in Leads(r)
  <2>1. PICK k \in DOMAIN out : out[k].to = t /\ (DOMAIN out = {k} \/ Matched(s, out[k]))
    BY <1>6, SelectedEdge
  <2>2. CASE DOMAIN out = {k}
    BY <1>7, <2>1, <2>2
  <2>3. CASE Matched(s, out[k])
    <3>1. PICK i \in DOMAIN g.edges : Kept(g, n, i) /\ out[k] = Routed(g.edges[i])
      BY <1>4
    <3>2. PICK q \in DOMAIN Answer : g.edges[i].cond = Answer[q]
      BY <1>5, <3>1
    <3>. QED BY <1>5, <1>8, <2>1, <2>3, <3>1, <3>2
  <2>. QED BY <2>1, <2>2, <2>3
<1>9. ASSUME NEW r \in DOMAIN Answer, s["match_result"] = r, r # None,
             \A p, q \in DOMAIN Answer : p # q => Leads(p) \cap Leads(q) = {}
      PROVE  Selection(s, out) = Leads(r)
  <2>1. PICK k \in DOMAIN out : Leads(r) = {out[k].to}
    BY <1>7
  <2>2. ASSUME NEW l \in DOMAIN out PROVE Matched(s, out[l]) <=> l = k
    <3>1. PICK i \in DOMAIN g.edges : Kept(g, n, i) /\ out[l] = Routed(g.edges[i])
      BY <1>4
    <3>2. PICK q \in DOMAIN Answer : g.edges[i].cond = Answer[q]
      BY <1>5, <3>1
    <3>3. out[l].to \in Leads(q) /\ (Matched(s, out[l]) <=> q = r)
      BY <1>5, <1>9, <3>1, <3>2
    <3>4. out[l].to \in Leads(r) <=> q = r
      BY <1>9, <3>3
    <3>5. out[l].to \in Leads(r) <=> l = k
      BY <1>6, <2>1
    <3>. QED BY <3>3, <3>4, <3>5
  <2>3. Matches(s, out) = {k}
    BY <2>2 DEF Matches
  <2>4. ~SameTarget(out)
    <3>1. PICK q \in DOMAIN Answer : q # r
      BY DEF Answer
    <3>2. PICK l \in DOMAIN out : Leads(q) = {out[l].to}
      BY <1>7
    <3>3. Leads(q) \cap Leads(r) = {}
      BY <1>9, <3>1
    <3>4. out[l].to # out[k].to
      BY <2>1, <3>2, <3>3
    <3>. QED BY <3>4 DEF SameTarget
  <2>5. \A i \in DOMAIN out : Selects(s, out, i) <=> i = k
    BY <2>3, <2>4 DEF Selects
  <2>. QED BY <2>1, <2>5 DEF Selection
<1>. QED BY <1>8, <1>9 DEF out, n

-----------------------------------------------------------------------------
(* Passes run twice.                                                         *)

(* STRING; the provers do not know of a literal that it is one.             *)
Texts == STRING \cup {Absent, UNKNOWN}

NodeRecords == [id : Texts, kind : Texts, type : Texts, intent : Texts, suffixed : BOOLEAN]

EdgeRecords == [frm : Texts, to : Texts, cond : Texts]

Graphs == [nodes : Seq(NodeRecords), edges : Seq(EdgeRecords)]

LEMMA CanonicalTwice ==
  ASSUME NEW c
  PROVE  Canon(c) # Null => Canon(Canon(c)) = Canon(c)
<1>1. CASE c \notin DOMAIN Synonyms
  BY <1>1 DEF Canon
<1>2. CASE c \in DOMAIN Synonyms
  <2>1. Canon(c) \in {MATCHED, UNMATCHED, PO, NO_PO, WITHIN, ABOVE, Null}
    BY <1>2 DEF Canon, Synonyms
  <2>2. {MATCHED, UNMATCHED, PO, NO_PO, WITHIN, ABOVE} \cap DOMAIN Synonyms = {}
    BY DEF Synonyms, MATCHED, UNMATCHED, PO, NO_PO, WITHIN, ABOVE
  <2>. QED BY <2>1, <2>2 DEF Canon
<1>. QED BY <1>1, <1>2

LEMMA GraphParts ==
  ASSUME NEW g \in Graphs
  PROVE  /\ g = [nodes |-> g.nodes, edges |-> g.edges]
         /\ g.nodes \in Seq(NodeRecords) /\ g.edges \in Seq(EdgeRecords)
         /\ \A i \in DOMAIN g.nodes : g.nodes[i] \in NodeRecords
         /\ \A i \in DOMAIN g.edges : g.edges[i] \in EdgeRecords
<1>1. /\ g = [nodes |-> g.nodes, edges |-> g.edges]
      /\ g.nodes \in Seq(NodeRecords) /\ g.edges \in Seq(EdgeRecords)
  BY DEF Graphs
<1>. QED BY <1>1

LEMMA ConditionsTwice ==
  ASSUME NEW g \in Graphs
  PROVE  CanonicalConditions(CanonicalConditions(g)) = CanonicalConditions(g)
<1>. DEFINE To(c) == IF Canon(c) = Null THEN c ELSE Canon(c)
            New(es) == [i \in DOMAIN es |-> [es[i] EXCEPT !.cond = To(es[i].cond)]]
            h == CanonicalConditions(g)
<1>1. \A c : To(To(c)) = To(c)
  BY CanonicalTwice
<1>2. \A f : CanonicalConditions(f) = [f EXCEPT !.edges = New(f.edges)]
  BY DEF CanonicalConditions
<1>. HIDE DEF To, New
<1>3. h = [nodes |-> g.nodes, edges |-> New(g.edges)]
  BY <1>2, GraphParts
<1>4. CanonicalConditions(h) = [nodes |-> g.nodes, edges |-> New(New(g.edges))]
  <2>. HIDE DEF h
  <2>. QED BY <1>2, <1>3
<1>5. \A i \in DOMAIN g.edges : g.edges[i] \in EdgeRecords
  BY GraphParts
<1>6. New(New(g.edges)) = New(g.edges)
  <2>. DEFINE es == g.edges
  <2>1. \A i \in DOMAIN es : es[i] = [frm |-> es[i].frm, to |-> es[i].to, cond |-> es[i].cond]
    BY <1>5 DEF EdgeRecords
  <2>. HIDE DEF es
  <2>2. \A i \in DOMAIN es : New(es)[i] = [frm |-> es[i].frm, to |-> es[i].to, cond |-> To(es[i].cond)]
    BY <2>1 DEF New
  <2>3. DOMAIN New(es) = DOMAIN es
    BY DEF New
  <2>4. \A i \in DOMAIN es : New(New(es))[i] = New(es)[i]
    BY <1>1, <2>2, <2>3 DEF New
  <2>5. New(es) = [i \in DOMAIN es |-> New(es)[i]] /\ New(New(es)) = [i \in DOMAIN es |-> New(New(es))[i]]
    BY <2>3 DEF New
  <2>6. New(New(es)) = New(es)
    BY <2>4, <2>5
  <2>. QED BY <2>6 DEF es
<1>. QED BY <1>3, <1>4, <1>6 DEF h

LEMMA KeysTwice ==
  ASSUME NEW g \in Graphs
  PROVE  SuffixKeys(SuffixKeys(g)) = SuffixKeys(g)
<1>. DEFINE Shares(xs, x) == \E i \in DOMAIN xs : /\ xs[i].id # x.id /\ xs[i].intent = x.intent
                                                /\ ~xs[i].suffixed /\ ~x.suffixed
            New(xs) == [i \in DOMAIN xs |-> [xs[i] EXCEPT !.suffixed = xs[i].suffixed \/ Shares(xs, xs[i])]]
            h == SuffixKeys(g)
<1>1. \A f : SuffixKeys(f) = [f EXCEPT !.nodes = New(f.nodes)]
  BY DEF SuffixKeys, ToSet
<1>. HIDE DEF New
<1>2. h = [nodes |-> New(g.nodes), edges |-> g.edges]
  BY <1>1, GraphParts
<1>3. SuffixKeys(h) = [nodes |-> New(New(g.nodes)), edges |-> g.edges]
  <2>. HIDE DEF h
  <2>. QED BY <1>1, <1>2
<1>4. New(New(g.nodes)) = New(g.nodes)
  <2>. DEFINE xs == g.nodes
              ys == New(xs)
  <2>1. \A i \in DOMAIN xs :
          /\ xs[i] = [id |-> xs[i].id, kind |-> xs[i].kind, type |-> xs[i].type,
                      intent |-> xs[i].intent, suffixed |-> xs[i].suffixed]
          /\ xs[i].suffixed \in BOOLEAN
    BY GraphParts DEF NodeRecords
  <2>. HIDE DEF xs
  <2>2. DOMAIN ys = DOMAIN xs /\ DOMAIN New(ys) = DOMAIN xs
    BY DEF New
  <2>3. \A i \in DOMAIN xs :
          ys[i] = [id |-> xs[i].id, kind |-> xs[i].kind, type |-> xs[i].type,
                   intent |-> xs[i].intent, suffixed |-> xs[i].suffixed \/ Shares(xs, xs[i])]
    <3>. HIDE DEF Shares
    <3>. QED BY <2>1 DEF New
  <2>4. \A i \in DOMAIN ys : New(ys)[i] = [ys[i] EXCEPT !.suffixed = ys[i].suffixed \/ Shares(ys, ys[i])]
    BY DEF New
  <2>. HIDE DEF ys
  <2>5. ASSUME NEW i \in DOMAIN ys PROVE ~Shares(ys, ys[i]) /\ ys[i].suffixed \in BOOLEAN
    <3>1. Shares(xs, xs[i]) \in BOOLEAN
      OBVIOUS
    <3>2. \A j \in DOMAIN xs :
            /\ ys[j].id = xs[j].id /\ ys[j].intent = xs[j].intent
            /\ ys[j].suffixed = IF xs[j].suffixed \/ Shares(xs, xs[j]) THEN TRUE ELSE FALSE
      <4>1. SUFFICES ASSUME NEW j \in DOMAIN xs
                     PROVE  /\ ys[j].id = xs[j].id /\ ys[j].intent = xs[j].intent
                            /\ ys[j].suffixed = IF xs[j].suffixed \/ Shares(xs, xs[j]) THEN TRUE ELSE FALSE
        OBVIOUS
      <4>. HIDE DEF Shares
      <4>2. CASE xs[j].suffixed \/ Shares(xs, xs[j])
        <5>1. ys[j] = [id |-> xs[j].id, kind |-> xs[j].kind, type |-> xs[j].type,
                       intent |-> xs[j].intent, suffixed |-> TRUE]
          BY <2>3, <4>2
        <5>2. ys[j].id = xs[j].id /\ ys[j].intent = xs[j].intent /\ ys[j].suffixed = TRUE
          BY <5>1
        <5>. QED BY <4>2, <5>2
      <4>3. CASE ~(xs[j].suffixed \/ Shares(xs, xs[j]))
        <5>1. ys[j] = [id |-> xs[j].id, kind |-> xs[j].kind, type |-> xs[j].type,
                       intent |-> xs[j].intent, suffixed |-> FALSE]
          BY <2>3, <4>3
        <5>2. ys[j].id = xs[j].id /\ ys[j].intent = xs[j].intent /\ ys[j].suffixed = FALSE
          BY <5>1
        <5>. QED BY <4>3, <5>2
      <4>. QED BY <4>2, <4>3
    <3>3. ys[i].suffixed \in BOOLEAN
      <4>. HIDE DEF Shares
      <4>. QED BY <2>1, <2>2, <3>1, <3>2
    <3>4. ASSUME NEW j \in DOMAIN ys, ys[j].id # ys[i].id, ys[j].intent = ys[i].intent,
                 ~ys[j].suffixed, ~ys[i].suffixed
          PROVE  FALSE
      <4>1. ~xs[j].suffixed /\ ~xs[i].suffixed /\ ~Shares(xs, xs[i])
        <5>. HIDE DEF Shares
        <5>. QED BY <2>2, <3>2, <3>4
      <4>. QED BY <2>2, <3>2, <3>4, <4>1
    <3>. QED BY <3>3, <3>4
  <2>6. \A i \in DOMAIN ys : New(ys)[i] = ys[i]
    <3>. HIDE DEF Shares
    <3>. QED BY <2>2, <2>3, <2>4, <2>5
  <2>7. ys = [i \in DOMAIN xs |-> ys[i]] /\ New(ys) = [i \in DOMAIN xs |-> New(ys)[i]]
    BY <2>2 DEF New, ys
  <2>8. New(ys) = ys
    BY <2>2, <2>6, <2>7
  <2>. QED BY <2>8 DEF xs, ys
<1>. QED BY <1>2, <1>3, <1>4 DEF h

LEMMA BadExtractionTwice ==
  ASSUME NEW g \in Graphs
  PROVE  WireBadExtraction(WireBadExtraction(g)) = WireBadExtraction(g)
<1>. DEFINE enter == FirstTask(g, "ENTER_RECORD")
            reject == IF FirstTask(g, "REJECT_INVOICE") # Absent THEN FirstTask(g, "REJECT_INVOICE")
                                                                 ELSE FirstTask(g, "REJECT")
            e == Edge(enter, reject, BAD)
            h == InsertedBeforeFallback(g, enter, <<e>>)
<1>1. CASE Absent \in {enter, reject} \/ e \in ToSet(g.edges)
  BY <1>1 DEF WireBadExtraction
<1>2. CASE ~(Absent \in {enter, reject} \/ e \in ToSet(g.edges))
  <2>1. WireBadExtraction(g) = h
    BY <1>2 DEF WireBadExtraction
  <2>2. h.nodes = g.nodes
    BY DEF InsertedBeforeFallback, Graphs
  <2>3. \A type : FirstTask(h, type) = FirstTask(g, type)
    <3>. HIDE DEF h
    <3>. QED BY <2>2 DEF FirstTask, FirstNode
  <2>4. e \in ToSet(h.edges)
    <3>1. /\ g.edges \in Seq(EdgeRecords) /\ DOMAIN g.edges = 1..Len(g.edges) /\ Len(g.edges) \in Nat
          /\ g = [nodes |-> g.nodes, edges |-> g.edges]
      BY GraphParts
    <3>. DEFINE fallbacks == {i \in DOMAIN g.edges : g.edges[i].frm = enter /\ g.edges[i].cond = Null}
                at == IF fallbacks = {} THEN Len(g.edges) + 1
                      ELSE CHOOSE i \in fallbacks : \A j \in fallbacks : i <= j
    <3>2. at \in 1..(Len(g.edges) + 1)
      <4>1. fallbacks # {} => \E i \in fallbacks : \A j \in fallbacks : i <= j
        <5>1. fallbacks \subseteq Nat
          BY <3>1
        <5>. HIDE DEF fallbacks
        <5>. QED BY <5>1, Least
      <4>2. fallbacks \subseteq 1..Len(g.edges)
        BY <3>1
      <4>. HIDE DEF fallbacks
      <4>. QED BY <3>1, <4>1, <4>2
    <3>3. h.edges = SubSeq(g.edges, 1, at - 1) \o <<e>> \o SubSeq(g.edges, at, Len(g.edges))
      BY <3>1 DEF InsertedBeforeFallback
    <3>. DEFINE before == SubSeq(g.edges, 1, at - 1)
                after == SubSeq(g.edges, at, Len(g.edges))
    <3>. HIDE DEF at, h, e
    <3>4. /\ before \in Seq(EdgeRecords) /\ after \in Seq(EdgeRecords)
          /\ Len(before) = at - 1
      BY <3>1, <3>2
    <3>. HIDE DEF before, after
    <3>5. h.edges = before \o <<e>> \o after
      BY <3>3 DEF before, after
    <3>. DEFINE All == EdgeRecords \cup {e}
    <3>6. before \in Seq(All) /\ after \in Seq(All) /\ <<e>> \in Seq(All)
      BY <3>4
    <3>. HIDE DEF All
    <3>7. /\ before \o <<e>> \in Seq(All) /\ Len(before \o <<e>>) = at
          /\ (before \o <<e>>)[at] = e
      <4>1. /\ before \o <<e>> \in Seq(All)
            /\ Len(before \o <<e>>) = Len(before) + Len(<<e>>)
        BY <3>6, ConcatProperties
      <4>2. \A i \in 1..Len(<<e>>) : (before \o <<e>>)[Len(before) + i] = <<e>>[i]
        BY <3>6, ConcatProperties
      <4>3. Len(<<e>>) = 1 /\ <<e>>[1] = e /\ (at - 1) + 1 = at
        BY <3>1, <3>2
      <4>. QED BY <3>4, <4>1, <4>2, <4>3
    <3>8. at \in DOMAIN h.edges /\ h.edges[at] = e
      <4>. DEFINE front == before \o <<e>>
      <4>. HIDE DEF front
      <4>1. front \in Seq(All) /\ Len(front) = at /\ front[at] = e /\ h.edges = front \o after
        BY <3>5, <3>7 DEF front
      <4>2. /\ Len(front \o after) = Len(front) + Len(after) /\ front \o after \in Seq(All)
            /\ \A i \in 1..Len(front) : (front \o after)[i] = front[i]
        <5>1. front \in Seq(All) /\ after \in Seq(All)
          BY <3>6, <4>1
        <5>2. front \o after \in Seq(All)
          BY <5>1, ConcatProperties, Zenon
        <5>3. Len(front \o after) = Len(front) + Len(after)
          BY <5>1, ConcatProperties, Zenon
        <5>4. \A i \in 1..Len(front) : (front \o after)[i] = front[i]
          BY <5>1, ConcatProperties
        <5>. QED BY <5>2, <5>3, <5>4
      <4>3. at \in 1..Len(front) /\ Len(after) \in Nat
        BY <3>1, <3>2, <3>6, <4>1
      <4>4. at \in DOMAIN (front \o after)
        BY <4>1, <4>2, <4>3
      <4>. QED BY <4>1, <4>2, <4>3, <4>4
    <3>. QED BY <3>8 DEF ToSet
  <2>5. WireBadExtraction(h) = h
    <3>. HIDE DEF h
    <3>. QED BY <2>3, <2>4 DEF WireBadExtraction
  <2>. QED BY <2>1, <2>5
<1>. QED BY <1>1, <1>2

(* The first of every group of equal edges.                                 *)
Firsts(es, out, k) == IF \E j \in 1..(k - 1) : es[j] = es[k] THEN out ELSE Append(out, es[k])

LEMMA DeduplicatedStepwise ==
  ASSUME NEW E, NEW es \in Seq(E)
  PROVE  \E f \in [0..Len(es) -> Seq(E)] :
           /\ f[0] = <<>> /\ \A k \in 1..Len(es) : f[k] = Firsts(es, f[k - 1], k)
           /\ Deduplicated(es) = f[Len(es)]
<1>. DEFINE m == Len(es)
            R == Seq(E)
            step == [k \in 1..m |-> [out \in R |-> Firsts(es, out, k)]]
            Walks(f) ==
              f = [i \in 0..m |-> IF i = 0 THEN <<>>
                                  ELSE IF \E j \in 1..(i - 1) : es[j] = es[i] THEN f[i - 1]
                                  ELSE Append(f[i - 1], es[i])]
<1>1. m \in Nat /\ DOMAIN es = 1..m /\ \A k \in 1..m : es[k] \in E
  OBVIOUS
<1>. HIDE DEF m
<1>2. <<>> \in R
  BY EmptySeq
<1>3. ASSUME NEW k \in 1..m, NEW out \in R PROVE Firsts(es, out, k) \in R
  BY <1>1, AppendProperties DEF Firsts
<1>. HIDE DEF R
<1>4. step \in StepsOn(R, m)
  BY <1>3 DEF StepsOn
<1>5. PICK f \in [0..m -> R] : f[0] = <<>> /\ \A k \in 1..m : f[k] = step[k][f[k - 1]]
  <2>. HIDE DEF step
  <2>1. HasRun(R, m, <<>>, step)
    BY <1>1, <1>2, <1>4, Recursion
  <2>. QED BY <2>1 DEF HasRun
<1>6. \A k \in 1..m : k - 1 \in 0..m /\ k \in 0..m /\ k # 0
  BY <1>1
<1>7. ASSUME NEW k \in 1..m PROVE f[k] = Firsts(es, f[k - 1], k)
  BY <1>5, <1>6
<1>8. \A e : Walks(e) <=> e = f
  <2>1. \A i \in 0..m : i = 0 \/ i \in 1..m
    BY <1>1
  <2>2. Walks(f)
    <3>1. \A i \in 0..m : f[i] = IF i = 0 THEN <<>>
                                  ELSE IF \E j \in 1..(i - 1) : es[j] = es[i] THEN f[i - 1]
                                  ELSE Append(f[i - 1], es[i])
      BY <2>1, <1>5, <1>7 DEF Firsts
    <3>. QED BY <3>1
  <2>3. ASSUME NEW e, Walks(e) PROVE e = f
    <3>1. IsWalk(m, e) /\ e[0] = <<>>
      BY <2>3, <1>1 DEF IsWalk
    <3>2. \A k \in 1..m : e[k] = Firsts(es, e[k - 1], k)
      <4>1. \A i \in 0..m : e[i] = IF i = 0 THEN <<>>
                                    ELSE IF \E j \in 1..(i - 1) : es[j] = es[i] THEN e[i - 1]
                                    ELSE Append(e[i - 1], es[i])
        BY <2>3
      <4>. HIDE DEF Walks
      <4>. QED BY <1>6, <4>1 DEF Firsts
    <3>3. IsWalk(m, f) /\ f[0] = <<>>
      BY <1>5 DEF IsWalk
    <3>4. \A k \in 1..m : e[k - 1] = f[k - 1] => e[k] = f[k]
      BY <3>2, <1>7
    <3>. HIDE DEF Walks
    <3>. QED BY <1>1, <3>1, <3>3, <3>4, SameWalk
  <2>. QED BY <2>2, <2>3
<1>9. Deduplicated(es) = f[m]
  <2>1. f = CHOOSE e : Walks(e)
    <3>. HIDE DEF Walks
    <3>. QED BY <1>8
  <2>. QED BY <2>1 DEF Deduplicated, m
<1>. QED BY <1>5, <1>7, <1>9 DEF m, R

(* The edges up to the k-th, each once, and as they are if none is twice.   *)
Gathers(es, out, k) ==
  /\ \A l \in DOMAIN out : \E i \in 1..k : out[l] = es[i]
  /\ \A i \in 1..k : \E l \in DOMAIN out : out[l] = es[i]
  /\ \A l, j \in DOMAIN out : out[l] = out[j] => l = j
  /\ IsInjective(es) => Len(out) = k /\ \A i \in 1..k : out[i] = es[i]

LEMMA GathersOneMore ==
  ASSUME NEW E, NEW es \in Seq(E), NEW k \in 1..Len(es), NEW out \in Seq(E),
         Gathers(es, out, k - 1)
  PROVE  Gathers(es, Firsts(es, out, k), k)
<1>. DEFINE m == Len(es)
            e == es[k]
            d == Len(out)
            longer == Append(out, e)
<1>1. m \in Nat /\ DOMAIN es = 1..m /\ k \in Nat \ {0} /\ e \in E /\ k \in DOMAIN es
  OBVIOUS
<1>2. \A i : i \in 1..k <=> i \in 1..(k - 1) \/ i = k
  BY <1>1
<1>3. CASE \E j \in 1..(k - 1) : es[j] = e
  <2>1. Firsts(es, out, k) = out
    BY <1>3 DEF Firsts
  <2>2. ~IsInjective(es)
    <3>1. PICK j \in 1..(k - 1) : es[j] = e
      BY <1>3
    <3>2. j \in DOMAIN es /\ j # k
      BY <1>1
    <3>. QED BY <1>1, <3>1, <3>2 DEF IsInjective
  <2>. HIDE DEF e, m
  <2>3. \A l \in DOMAIN out : \E i \in 1..k : out[l] = es[i]
    <3>1. ASSUME NEW l \in DOMAIN out PROVE \E i \in 1..k : out[l] = es[i]
      <4>1. PICK i \in 1..(k - 1) : out[l] = es[i]
        BY DEF Gathers
      <4>. QED BY <1>2, <4>1
    <3>. QED BY <3>1
  <2>4. \A i \in 1..k : \E l \in DOMAIN out : out[l] = es[i]
    <3>1. ASSUME NEW i \in 1..(k - 1) PROVE \E l \in DOMAIN out : out[l] = es[i]
      BY DEF Gathers
    <3>2. PICK j \in 1..(k - 1) : es[j] = es[k]
      BY <1>3 DEF e
    <3>. QED BY <1>2, <3>1, <3>2
  <2>5. \A l, j \in DOMAIN out : out[l] = out[j] => l = j
    BY DEF Gathers
  <2>6. Gathers(es, out, k)
    BY <2>2, <2>3, <2>4, <2>5 DEF Gathers
  <2>. QED BY <2>1, <2>6
<1>4. CASE ~\E j \in 1..(k - 1) : es[j] = e
  <2>1. Firsts(es, out, k) = longer
    BY <1>4 DEF Firsts
  <2>. HIDE DEF e
  <2>2. /\ d \in Nat /\ DOMAIN out = 1..d /\ DOMAIN longer = 1..(d + 1) /\ Len(longer) = d + 1
        /\ longer[d + 1] = e /\ \A l \in 1..d : longer[l] = out[l]
    BY <1>1, AppendProperties
  <2>. HIDE DEF longer, d
  <2>3. \A l : l \in 1..(d + 1) <=> l \in 1..d \/ l = d + 1
    BY <2>2
  <2>4. \A l \in 1..d : out[l] # e
    <3>1. ASSUME NEW l \in 1..d PROVE out[l] # e
      <4>1. PICK i \in 1..(k - 1) : out[l] = es[i]
        BY <2>2 DEF Gathers
      <4>. QED BY <1>4, <4>1
    <3>. QED BY <3>1
  <2>5. \A l \in DOMAIN longer : \E i \in 1..k : longer[l] = es[i]
    <3>1. ASSUME NEW l \in 1..d PROVE \E i \in 1..k : out[l] = es[i]
      <4>1. PICK i \in 1..(k - 1) : out[l] = es[i]
        BY <2>2 DEF Gathers
      <4>. QED BY <1>2, <4>1
    <3>2. k \in 1..k /\ e = es[k]
      BY <1>1 DEF e
    <3>. QED BY <2>2, <2>3, <3>1, <3>2
  <2>6. \A i \in 1..k : \E l \in DOMAIN longer : longer[l] = es[i]
    <3>1. ASSUME NEW i \in 1..k, i # k PROVE \E l \in DOMAIN longer : longer[l] = es[i]
      <4>1. PICK l \in DOMAIN out : out[l] = es[i]
        BY <1>2, <3>1 DEF Gathers
      <4>. QED BY <2>2, <2>3, <4>1
    <3>. QED BY <2>2, <2>3, <3>1 DEF e
  <2>7. \A l, j \in DOMAIN longer : longer[l] = longer[j] => l = j
    BY <2>2, <2>3, <2>4 DEF Gathers
  <2>8. IsInjective(es) => Len(longer) = k /\ \A i \in 1..k : longer[i] = es[i]
    <3>1. SUFFICES ASSUME IsInjective(es)
                   PROVE  Len(longer) = k /\ \A i \in 1..k : longer[i] = es[i]
      OBVIOUS
    <3>2. d = k - 1 /\ \A i \in 1..(k - 1) : out[i] = es[i]
      BY <3>1 DEF Gathers, d
    <3>. QED BY <1>1, <1>2, <2>2, <3>2 DEF e
  <2>. QED BY <2>1, <2>5, <2>6, <2>7, <2>8 DEF Gathers
<1>. QED BY <1>3, <1>4

(* No two edges are equal, and none is lost.                                *)
LEMMA DeduplicatedEdges ==
  ASSUME NEW E, NEW es \in Seq(E)
  PROVE  /\ Deduplicated(es) \in Seq(E) /\ IsInjective(Deduplicated(es))
         /\ ToSet(Deduplicated(es)) = ToSet(es)
         /\ IsInjective(es) => Deduplicated(es) = es
<1>. DEFINE m == Len(es)
<1>1. m \in Nat /\ DOMAIN es = 1..m /\ \A k \in 1..m : es[k] \in E
  OBVIOUS
<1>2. PICK f \in [0..m -> Seq(E)] :
        /\ f[0] = <<>> /\ \A k \in 1..m : f[k] = Firsts(es, f[k - 1], k)
        /\ Deduplicated(es) = f[m]
  BY DeduplicatedStepwise
<1>3. \A k \in 1..m : k \in 1..Len(es)
  OBVIOUS
<1>. HIDE DEF m
<1>. DEFINE S == {k \in 0..m : Gathers(es, f[k], k)}
<1>4. 0 \in S
  <2>1. 0 \in 0..m /\ f[0] = <<>> /\ 1..0 = {} /\ Len(<<>>) = 0 /\ DOMAIN <<>> = {}
    BY <1>1, <1>2
  <2>. QED BY <2>1 DEF Gathers
<1>5. ASSUME NEW k \in 1..m, k - 1 \in S PROVE k \in S
  <2>1. k \in 0..m /\ k - 1 \in 0..m
    BY <1>1
  <2>2. f[k - 1] \in Seq(E) /\ Gathers(es, f[k - 1], k - 1)
    BY <1>5, <2>1
  <2>3. f[k] = Firsts(es, f[k - 1], k)
    BY <1>2
  <2>. QED BY <1>3, <2>1, <2>2, <2>3, GathersOneMore
<1>6. m \in 0..m
  BY <1>1
<1>7. Gathers(es, f[m], m) /\ f[m] \in Seq(E)
  <2>1. 0..m \subseteq S
    <3>. HIDE DEF S
    <3>. QED BY <1>1, <1>4, <1>5, UpTo
  <2>. QED BY <1>6, <2>1
<1>8. ToSet(f[m]) = ToSet(es)
  <2>. DEFINE out == f[m]
  <2>0. Gathers(es, out, m)
    BY <1>7
  <2>. HIDE DEF out
  <2>1. \A x \in ToSet(out) : x \in ToSet(es)
    <3>1. \A l \in DOMAIN out : \E i \in DOMAIN es : out[l] = es[i]
      BY <1>1, <2>0 DEF Gathers
    <3>. QED BY <3>1 DEF ToSet
  <2>2. \A x \in ToSet(es) : x \in ToSet(out)
    <3>1. \A i \in DOMAIN es : \E l \in DOMAIN out : out[l] = es[i]
      BY <1>1, <2>0 DEF Gathers
    <3>. QED BY <3>1 DEF ToSet
  <2>. QED BY <2>1, <2>2 DEF out
<1>9. ASSUME IsInjective(es) PROVE f[m] = es
  <2>1. Len(f[m]) = Len(es) /\ \A i \in 1..Len(es) : f[m][i] = es[i]
    BY <1>7, <1>9 DEF m, Gathers
  <2>. QED BY <1>7, <2>1, SeqEqual
<1>10. IsInjective(f[m])
  BY <1>7 DEF IsInjective, Gathers
<1>. QED BY <1>2, <1>7, <1>8, <1>9, <1>10

(* Removing duplicates again removes none.                                  *)
LEMMA DeduplicateTwice ==
  ASSUME NEW g \in Graphs
  PROVE  Deduplicate(g) \in Graphs /\ Deduplicate(Deduplicate(g)) = Deduplicate(g)
<1>1. g.edges \in Seq(EdgeRecords)
  BY GraphParts
<1>. DEFINE es == Deduplicated(g.edges)
            h == Deduplicate(g)
<1>2. h = [nodes |-> g.nodes, edges |-> es]
  BY GraphParts DEF Deduplicate
<1>3. es \in Seq(EdgeRecords) /\ Deduplicated(es) = es
  <2>1. es \in Seq(EdgeRecords) /\ IsInjective(es)
    BY <1>1, DeduplicatedEdges
  <2>. HIDE DEF es
  <2>. QED BY <2>1, DeduplicatedEdges
<1>. HIDE DEF es, h
<1>4. h \in Graphs
  BY <1>2, <1>3, GraphParts DEF Graphs
<1>5. Deduplicate(h) = [nodes |-> g.nodes, edges |-> Deduplicated(es)]
  BY <1>2 DEF Deduplicate
<1>. QED BY <1>2, <1>3, <1>4, <1>5 DEF h

(* An edge for UNKNOWN, where the edges from n route on the other results.  *)
GuardOf(g, n) == Edge(n, Station(g, "task:MANUAL_REVIEW_UNMODELED_GATE"), UNKNOWN)

Guarding(g, es, n) == IF Lacks(es, n) THEN Append(es, GuardOf(g, n)) ELSE es

LEMMA GuardTyped ==
  ASSUME NEW g \in Graphs, NEW n \in Texts
  PROVE  GuardOf(g, n) \in EdgeRecords
<1>. DEFINE intent == "task:MANUAL_REVIEW_UNMODELED_GATE"
            hits == {i \in DOMAIN g.nodes : g.nodes[i].intent = intent}
<1>1. /\ DOMAIN g.nodes = 1..Len(g.nodes) /\ Len(g.nodes) \in Nat
      /\ \A i \in DOMAIN g.nodes : g.nodes[i] \in NodeRecords
  BY GraphParts
<1>2. hits # {} => (CHOOSE i \in hits : \A j \in hits : i <= j) \in hits
  <2>1. hits \subseteq Nat
    BY <1>1
  <2>. HIDE DEF hits
  <2>. QED BY <2>1, Least
<1>3. Station(g, intent) = IF hits = {} THEN Absent
                           ELSE g.nodes[CHOOSE i \in hits : \A j \in hits : i <= j].id
  BY DEF Station, FirstNode
<1>4. Station(g, intent) \in Texts
  <2>1. \A i \in hits : g.nodes[i].id \in Texts
    BY <1>1 DEF NodeRecords
  <2>2. Absent \in Texts
    BY DEF Texts
  <2>. HIDE DEF hits
  <2>3. CASE hits = {}
    BY <1>3, <2>2, <2>3
  <2>4. CASE hits # {}
    <3>. DEFINE first == CHOOSE i \in hits : \A j \in hits : i <= j
    <3>1. first \in hits /\ Station(g, intent) = g.nodes[first].id
      BY <1>2, <1>3, <2>4
    <3>. HIDE DEF first
    <3>. QED BY <2>1, <3>1
  <2>. QED BY <2>3, <2>4
<1>5. UNKNOWN \in Texts
  BY DEF Texts
<1>. DEFINE station == Station(g, intent)
<1>6. GuardOf(g, n) = [frm |-> n, to |-> station, cond |-> UNKNOWN]
  BY DEF GuardOf, Edge
<1>. HIDE DEF station
<1>7. station \in Texts
  BY <1>4 DEF station
<1>. QED BY <1>5, <1>6, <1>7 DEF EdgeRecords

LEMMA GuardedStepwise ==
  ASSUME NEW g \in Graphs
  PROVE  \E f \in [0..Len(g.edges) -> Seq(EdgeRecords)] :
           /\ f[0] = g.edges
           /\ \A k \in 1..Len(g.edges) : f[k] = Guarding(g, f[k - 1], g.edges[k].frm)
           /\ GuardUnknown(g) = [nodes |-> g.nodes, edges |-> f[Len(g.edges)]]
<1>. DEFINE m == Len(g.edges)
            es == g.edges
            R == Seq(EdgeRecords)
            step == [k \in 1..m |-> [out \in R |-> Guarding(g, out, es[k].frm)]]
            Walks(f) ==
              f = [i \in 0..m |-> IF i = 0 THEN es
                                  ELSE IF Lacks(f[i - 1], es[i].frm)
                                       THEN Append(f[i - 1], GuardOf(g, es[i].frm))
                                       ELSE f[i - 1]]
<1>1. m \in Nat /\ es \in R /\ \A k \in 1..m : es[k].frm \in Texts
  <2>1. es \in R /\ \A k \in DOMAIN es : es[k] \in EdgeRecords
    BY GraphParts
  <2>2. m \in Nat /\ DOMAIN es = 1..m
    BY <2>1
  <2>3. \A x \in EdgeRecords : x.frm \in Texts
    BY DEF EdgeRecords
  <2>. HIDE DEF es, m, R
  <2>. QED BY <2>1, <2>2, <2>3
<1>2. GuardUnknown(g) = [nodes |-> g.nodes, edges |-> (CHOOSE f : Walks(f))[m]]
  BY GraphParts DEF GuardUnknown, GuardOf
<1>. HIDE DEF m, es
<1>3. ASSUME NEW k \in 1..m, NEW out \in R PROVE Guarding(g, out, es[k].frm) \in R
  BY <1>1, GuardTyped, AppendProperties DEF Guarding
<1>. HIDE DEF R
<1>4. step \in StepsOn(R, m)
  BY <1>3 DEF StepsOn
<1>5. PICK f \in [0..m -> R] : f[0] = es /\ \A k \in 1..m : f[k] = step[k][f[k - 1]]
  <2>. HIDE DEF step
  <2>1. HasRun(R, m, es, step)
    BY <1>1, <1>4, Recursion
  <2>. QED BY <2>1 DEF HasRun
<1>6. \A k \in 1..m : k - 1 \in 0..m /\ k \in 0..m /\ k # 0
  BY <1>1
<1>7. ASSUME NEW k \in 1..m PROVE f[k] = Guarding(g, f[k - 1], es[k].frm)
  BY <1>5, <1>6
<1>8. \A e : Walks(e) <=> e = f
  <2>1. \A i \in 0..m : i = 0 \/ i \in 1..m
    BY <1>1
  <2>2. Walks(f)
    <3>1. \A i \in 0..m : f[i] = IF i = 0 THEN es
                                  ELSE IF Lacks(f[i - 1], es[i].frm)
                                       THEN Append(f[i - 1], GuardOf(g, es[i].frm))
                                       ELSE f[i - 1]
      BY <2>1, <1>5, <1>7 DEF Guarding
    <3>. QED BY <3>1
  <2>3. ASSUME NEW e, Walks(e) PROVE e = f
    <3>1. IsWalk(m, e) /\ e[0] = es
      BY <2>3, <1>1 DEF IsWalk
    <3>2. \A k \in 1..m : e[k] = Guarding(g, e[k - 1], es[k].frm)
      <4>1. \A i \in 0..m : e[i] = IF i = 0 THEN es
                                    ELSE IF Lacks(e[i - 1], es[i].frm)
                                         THEN Append(e[i - 1], GuardOf(g, es[i].frm))
                                         ELSE e[i - 1]
        BY <2>3
      <4>. HIDE DEF Walks
      <4>. QED BY <1>6, <4>1 DEF Guarding
    <3>3. IsWalk(m, f) /\ f[0] = es
      BY <1>5 DEF IsWalk
    <3>4. \A k \in 1..m : e[k - 1] = f[k - 1] => e[k] = f[k]
      BY <3>2, <1>7
    <3>. HIDE DEF Walks
    <3>. QED BY <1>1, <3>1, <3>3, <3>4, SameWalk
  <2>. QED BY <2>2, <2>3
<1>9. GuardUnknown(g) = [nodes |-> g.nodes, edges |-> f[m]]
  <2>1. f = CHOOSE e : Walks(e)
    <3>. HIDE DEF Walks
    <3>. QED BY <1>8
  <2>. HIDE DEF Walks
  <2>. QED BY <2>1, <1>2
<1>. QED BY <1>5, <1>7, <1>9 DEF m, R, es

(* The first k nodes an edge leaves have their guard.                       *)
Guarded(es, out, k) ==
  /\ \A l \in DOMAIN out : \E i \in DOMAIN es : out[l].frm = es[i].frm
  /\ \A i \in 1..k : ~Lacks(out, es[i].frm)

LEMMA GuardedOneMore ==
  ASSUME NEW g \in Graphs, NEW k \in 1..Len(g.edges), NEW out \in Seq(EdgeRecords),
         Guarded(g.edges, out, k - 1)
  PROVE  Guarded(g.edges, Guarding(g, out, g.edges[k].frm), k)
<1>. DEFINE es == g.edges
            n == es[k].frm
            e == GuardOf(g, n)
            d == Len(out)
            longer == Append(out, e)
            Conds(xs, x) == {xs[i].cond : i \in {j \in DOMAIN xs : xs[j].frm = x}}
<1>1. k \in Nat \ {0} /\ k \in DOMAIN es /\ n \in Texts
  BY GraphParts DEF EdgeRecords
<1>2. \A i : i \in 1..k <=> i \in 1..(k - 1) \/ i = k
  BY <1>1
<1>3. CASE ~Lacks(out, n)
  BY <1>2, <1>3 DEF Guarded, Guarding
<1>4. CASE Lacks(out, n)
  <2>1. Guarding(g, out, n) = longer
    BY <1>4 DEF Guarding
  <2>2. e \in EdgeRecords /\ e.frm = n /\ e.cond = UNKNOWN
    BY <1>1, GuardTyped DEF GuardOf, Edge
  <2>. HIDE DEF e
  <2>3. /\ d \in Nat /\ DOMAIN out = 1..d /\ DOMAIN longer = 1..(d + 1)
        /\ longer[d + 1] = e /\ \A l \in 1..d : longer[l] = out[l]
    BY <2>2, AppendProperties
  <2>. HIDE DEF longer, d, n, es
  <2>4. \A l : l \in 1..(d + 1) <=> l \in 1..d \/ l = d + 1
    BY <2>3
  <2>5. \A l \in DOMAIN longer : \E i \in DOMAIN es : longer[l].frm = es[i].frm
    <3>1. \A l \in 1..d : \E i \in DOMAIN es : out[l].frm = es[i].frm
      BY <2>3 DEF Guarded, es
    <3>2. longer[d + 1].frm = es[k].frm
      BY <2>2, <2>3 DEF n
    <3>. QED BY <1>1, <2>3, <2>4, <3>1, <3>2
  <2>6. ~Lacks(longer, n)
    <3>1. d + 1 \in DOMAIN longer /\ longer[d + 1].frm = n /\ longer[d + 1].cond = UNKNOWN
      BY <2>2, <2>3, <2>4
    <3>2. UNKNOWN \in Conds(longer, n)
      BY <3>1
    <3>. QED BY <3>2 DEF Lacks
  <2>7. ASSUME NEW x, x # n, ~Lacks(out, x) PROVE ~Lacks(longer, x)
    <3>1. Conds(longer, x) = Conds(out, x)
      <4>1. {j \in DOMAIN longer : longer[j].frm = x} = {j \in DOMAIN out : out[j].frm = x}
        BY <2>2, <2>3, <2>4, <2>7
      <4>2. \A j \in {i \in DOMAIN out : out[i].frm = x} : longer[j].cond = out[j].cond
        BY <2>3
      <4>. QED BY <4>1, <4>2
    <3>. QED BY <2>7, <3>1 DEF Lacks
  <2>8. \A i \in 1..(k - 1) : ~Lacks(out, es[i].frm)
    BY DEF Guarded, es
  <2>9. \A i \in 1..k : ~Lacks(longer, es[i].frm)
    BY <1>2, <2>6, <2>7, <2>8 DEF n
  <2>10. Guarded(es, longer, k)
    BY <2>5, <2>9 DEF Guarded
  <2>. QED BY <2>1, <2>10 DEF n, es
<1>. QED BY <1>3, <1>4

(* Once guarded, no node lacks a guard.                                     *)
LEMMA GuardedEverywhere ==
  ASSUME NEW g \in Graphs
  PROVE  GuardUnknown(g) \in Graphs /\ \A n : ~Lacks(GuardUnknown(g).edges, n)
<1>. DEFINE m == Len(g.edges)
<1>1. m \in Nat /\ DOMAIN g.edges = 1..m
  BY GraphParts
<1>2. PICK f \in [0..m -> Seq(EdgeRecords)] :
        /\ f[0] = g.edges /\ \A k \in 1..m : f[k] = Guarding(g, f[k - 1], g.edges[k].frm)
        /\ GuardUnknown(g) = [nodes |-> g.nodes, edges |-> f[m]]
  BY GuardedStepwise
<1>3. \A k \in 1..m : k \in 1..Len(g.edges)
  OBVIOUS
<1>. HIDE DEF m
<1>. DEFINE S == {k \in 0..m : Guarded(g.edges, f[k], k)}
<1>4. 0 \in S
  <2>1. 0 \in 0..m /\ f[0] = g.edges /\ 1..0 = {}
    BY <1>1, <1>2
  <2>. QED BY <2>1 DEF Guarded
<1>5. ASSUME NEW k \in 1..m, k - 1 \in S PROVE k \in S
  <2>1. k \in 0..m /\ k - 1 \in 0..m
    BY <1>1
  <2>2. f[k - 1] \in Seq(EdgeRecords) /\ Guarded(g.edges, f[k - 1], k - 1)
    BY <1>5, <2>1
  <2>3. f[k] = Guarding(g, f[k - 1], g.edges[k].frm)
    BY <1>2
  <2>. QED BY <1>3, <2>1, <2>2, <2>3, GuardedOneMore
<1>6. m \in 0..m
  BY <1>1
<1>7. Guarded(g.edges, f[m], m) /\ f[m] \in Seq(EdgeRecords)
  <2>1. 0..m \subseteq S
    <3>. HIDE DEF S
    <3>. QED BY <1>1, <1>4, <1>5, UpTo
  <2>. QED BY <1>6, <2>1
<1>8. ASSUME NEW n, Lacks(f[m], n) PROVE FALSE
  <2>1. PICK l \in DOMAIN f[m] : f[m][l].frm = n
    BY <1>8 DEF Lacks
  <2>2. PICK i \in DOMAIN g.edges : n = g.edges[i].frm
    BY <1>7, <2>1 DEF Guarded
  <2>. QED BY <1>1, <1>7, <1>8, <2>2 DEF Guarded
<1>9. GuardUnknown(g) \in Graphs
  BY <1>2, <1>7, GraphParts DEF Graphs
<1>. QED BY <1>2, <1>8, <1>9

(* Where no node lacks a guard, none is added.                              *)
LEMMA GuardTwice ==
  ASSUME NEW g \in Graphs
  PROVE  GuardUnknown(GuardUnknown(g)) = GuardUnknown(g)
<1>. DEFINE h == GuardUnknown(g)
            m == Len(h.edges)
<1>1. h \in Graphs /\ \A n : ~Lacks(h.edges, n)
  BY GuardedEverywhere
<1>. HIDE DEF h
<1>2. m \in Nat /\ h = [nodes |-> h.nodes, edges |-> h.edges]
  BY <1>1, GraphParts
<1>3. PICK f \in [0..m -> Seq(EdgeRecords)] :
        /\ f[0] = h.edges /\ \A k \in 1..m : f[k] = Guarding(h, f[k - 1], h.edges[k].frm)
        /\ GuardUnknown(h) = [nodes |-> h.nodes, edges |-> f[m]]
  BY <1>1, GuardedStepwise
<1>. HIDE DEF m
<1>. DEFINE S == {k \in 0..m : f[k] = h.edges}
<1>4. 0 \in S
  BY <1>2, <1>3
<1>5. ASSUME NEW k \in 1..m, k - 1 \in S PROVE k \in S
  <2>1. f[k - 1] = h.edges /\ k \in 0..m
    BY <1>2, <1>5
  <2>. QED BY <1>1, <1>3, <2>1 DEF Guarding
<1>6. m \in 0..m
  BY <1>2
<1>7. 0..m \subseteq S
  <2>. HIDE DEF S
  <2>. QED BY <1>2, <1>4, <1>5, UpTo
<1>. QED BY <1>2, <1>3, <1>6, <1>7 DEF h

(* The passes that repair keys and conditions, wire the route of a bad      *)
(* extraction, guard the UNKNOWN result and drop duplicate edges are what   *)
(* their docstrings call them, idempotent, on every graph (pass 17 is pass  *)
(* 15 again, under another name).                                           *)
THEOREM PassesTwice ==
  ASSUME NEW g \in Graphs, NEW p \in Picks, NEW q \in Picks,
         NEW pass \in {"fix_canonical_key_duplicates", "normalize_edge_conditions",
                       "wire_bad_extraction_route", "inject_match_result_unknown_guardrail",
                       "deduplicate_edges", "deduplicate_edges_strict"}
  PROVE  Apply(pass, Apply(pass, g, p), q) = Apply(pass, g, p)
<1>1. CASE pass = "fix_canonical_key_duplicates"
  BY <1>1, KeysTwice DEF Apply
<1>2. CASE pass = "normalize_edge_conditions"
  BY <1>2, ConditionsTwice DEF Apply
<1>3. CASE pass = "wire_bad_extraction_route"
  BY <1>3, BadExtractionTwice DEF Apply
<1>4. CASE pass = "inject_match_result_unknown_guardrail"
  BY <1>4, GuardTwice DEF Apply
<1>5. CASE pass \in {"deduplicate_edges", "deduplicate_edges_strict"}
  BY <1>5, DeduplicateTwice DEF Apply
<1>. QED BY <1>1, <1>2, <1>3, <1>4, <1>5
=============================================================================
