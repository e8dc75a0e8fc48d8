----------------------------- MODULE AgentProofs -----------------------------
(* What holds of the agent on every well-formed graph, for all inputs.       *)
EXTENDS AgentWorkflow, TLAPS

-----------------------------------------------------------------------------
(* Routing, for every state and every list of edges.                         *)

(* A node with one outgoing edge is left along it, whatever its condition.   *)
LEMMA LoneEdge ==
  ASSUME NEW s, NEW out, DOMAIN out = {1}
  PROVE  Selection(s, out) = {out[1].to}
BY DEF Selection, Selects, SameTarget

(* The only conditional edge that holds is selected.                         *)
LEMMA OnlyMatch ==
  ASSUME NEW s, NEW out, ~SameTarget(out), NEW i \in DOMAIN out, Matches(s, out) = {i}
  PROVE  Selection(s, out) = {out[i].to}
<1>1. \A j \in DOMAIN out : Selects(s, out, j) <=> j = i
  BY DEF Selects
<1>. QED BY <1>1 DEF Selection

(* When no condition holds, the only unconditional edge is selected.         *)
LEMMA OnlyFallback ==
  ASSUME NEW s, NEW out, ~SameTarget(out), NEW i \in DOMAIN out,
         Matches(s, out) = {}, Fallbacks(out) = {i}
  PROVE  Selection(s, out) = {out[i].to}
<1>1. \A j \in DOMAIN out : Selects(s, out, j) <=> j = i
  BY DEF Selects
<1>. QED BY <1>1 DEF Selection

(* With nothing to follow, nothing is selected and the reason is no_route.   *)
LEMMA NoEdge ==
  ASSUME NEW s, NEW out, ~SameTarget(out), Len(out) # 1,
         Matches(s, out) = {}, Fallbacks(out) = {}
  PROVE  Selection(s, out) = {} /\ Reason(s, out) = "no_route"
<1>1. \A j \in DOMAIN out : ~Selects(s, out, j)
  BY DEF Selects
<1>2. Selection(s, out) = {}
  BY <1>1 DEF Selection
<1>3. Reason(s, out) = "no_route"
  BY DEF Reason
<1>. QED BY <1>2, <1>3

(* Something is selected unless the node diverts.                            *)
LEMMA SelectionEmpty ==
  ASSUME NEW s, NEW out, Len(out) \in Nat \ {0}, DOMAIN out = 1..Len(out)
  PROVE  Selection(s, out) = {} <=> Reason(s, out) \in {"ambiguous_route", "no_route"}
<1>1. Len(out) = 1 => SameTarget(out)
  BY DEF SameTarget
<1>2. CASE SameTarget(out)
  <2>1. 1 \in DOMAIN out /\ Selects(s, out, 1)
    BY <1>2 DEF Selects
  <2>2. Selection(s, out) # {}
    BY <2>1 DEF Selection
  <2>. QED BY <2>2, <1>2 DEF Reason
<1>3. CASE ~SameTarget(out)
  <2>1. Selection(s, out) # {} <=> \E i \in DOMAIN out : Selects(s, out, i)
    BY DEF Selection
  <2>2. Matches(s, out) \subseteq DOMAIN out /\ Fallbacks(out) \subseteq DOMAIN out
    BY DEF Matches, Fallbacks
  <2>3. CASE \E i \in DOMAIN out : Matches(s, out) = {i}
    BY <2>1, <2>3, <1>1, <1>3 DEF Selects, Reason
  <2>4. CASE Matches(s, out) # {} /\ ~\E i \in DOMAIN out : Matches(s, out) = {i}
    <3>1. ~\E i \in DOMAIN out : Selects(s, out, i)
      BY <1>3, <2>4 DEF Selects
    <3>2. Reason(s, out) = "ambiguous_route"
      BY <1>1, <1>3, <2>4 DEF Reason
    <3>. QED BY <2>1, <3>1, <3>2
  <2>5. CASE Matches(s, out) = {}
    <3>1. \A i \in DOMAIN out : Selects(s, out, i) <=> Fallbacks(out) = {i}
      BY <1>3, <2>5 DEF Selects
    <3>2. ~\E i \in DOMAIN out : Matches(s, out) = {i}
      BY <2>5
    <3>3. Len(out) # 1
      BY <1>1, <1>3
    <3>4. Reason(s, out) =
            IF \E i \in DOMAIN out : Fallbacks(out) = {i} THEN "unconditional_fallback"
            ELSE IF Fallbacks(out) # {} THEN "ambiguous_route" ELSE "no_route"
      BY <1>3, <2>5, <3>2, <3>3 DEF Reason
    <3>. QED BY <2>1, <3>1, <3>4
  <2>. QED BY <2>3, <2>4, <2>5
<1>. QED BY <1>2, <1>3

(* Routing reads only the fields its conditions name.                        *)
LEMMA SameFieldsSameRoute ==
  ASSUME NEW s, NEW u, NEW out,
         \A i \in DOMAIN out : \A a \in out[i].all : s[a.field] = u[a.field]
  PROVE  Selection(s, out) = Selection(u, out) /\ Reason(s, out) = Reason(u, out)
<1>1. \A i \in DOMAIN out : Matched(s, out[i]) <=> Matched(u, out[i])
  BY DEF Matched, Holds
<1>2. Matches(s, out) = Matches(u, out)
  BY <1>1 DEF Matches
<1>3. \A i : Selects(s, out, i) <=> Selects(u, out, i)
  BY <1>2 DEF Selects
<1>4. Selection(s, out) = Selection(u, out)
  BY <1>3 DEF Selection
<1>5. Reason(s, out) = Reason(u, out)
  BY <1>2 DEF Reason
<1>. QED BY <1>4, <1>5

-----------------------------------------------------------------------------
(* Nodes and their edges.                                                    *)

(* The edges of a node form a list of the node's edges, all within the graph. *)
LEMMA NonEmptyList ==
  ASSUME NEW S, NEW q \in Seq(S), q # <<>>
  PROVE  DOMAIN q = 1..Len(q) /\ Len(q) \in Nat /\ Len(q) # 0
OBVIOUS

(* Routing leaves a node for a node of the graph, END or an exception.       *)
LEMMA TargetsTyped ==
  ASSUME NEW n \in Nodes, NEW d
  PROVE  Targets(n, d) \subseteq Nodes \cup {END, RAISED}
<1>1. \A t \in Nodes : Hop(t) \in Nodes \cup {END}
  BY DEF Hop
<1>2. \A r : Sink(r) \in Nodes \cup {END, RAISED}
  BY <1>1, GraphWellFormed DEF Sink
<1>3. Selection(d, Outgoing[n]) \subseteq Nodes
  BY GraphWellFormed DEF Selection, OutEdges
<1>. QED BY <1>1, <1>2, <1>3 DEF Targets

LEMMA DiversionReason ==
  ASSUME NEW n \in Nodes, NEW d, Diverted(n, d)
  PROVE  Reason(d, Outgoing[n]) \in {"ambiguous_route", "no_route"}
<1>1. Outgoing[n] # <<>> /\ Selection(d, Outgoing[n]) = {}
  BY DEF Diverted, Leaves
<1>2. Outgoing[n] \in Seq(OutEdges(n))
  BY GraphWellFormed
<1>3. /\ DOMAIN Outgoing[n] = 1..Len(Outgoing[n])
      /\ Len(Outgoing[n]) \in Nat /\ Len(Outgoing[n]) # 0
  BY <1>1, <1>2, NonEmptyList
<1>. QED BY <1>1, <1>3, SelectionEmpty

-----------------------------------------------------------------------------
(* Types.                                                                    *)

LEMMA EventTyped ==
  ASSUME TypeOK, NEW n \in Nodes, NEW kind \in EventKinds, NEW v \in EventValues
  PROVE  Event(kind, n, v) \in Events
BY DEF TypeOK, Event, Events, Doc

LEMMA DecisionTyped ==
  ASSUME NEW n \in Nodes, Decides(n)
  PROVE  Decision(n) \in Decisions /\ DecisionEvents(n) = <<Event("route_decision", n, Decision(n).reason)>>
<1>1. Selection(doc, Outgoing[n]) \in SUBSET Nodes
  BY GraphWellFormed DEF Selection, OutEdges
<1>2. Reason(doc, Outgoing[n]) \in Reasons
  BY DEF Reason, Reasons
<1>. QED BY <1>1, <1>2 DEF Decision, Decisions, Decides, DecisionEvents

LEMMA DecisionEventsTyped ==
  ASSUME TypeOK, NEW n \in Nodes
  PROVE  DecisionEvents(n) \in Seq(Events)
<1>1. CASE Decides(n)
  <2>1. Decision(n).reason \in EventValues /\ "route_decision" \in EventKinds
    BY <1>1, DecisionTyped DEF Decisions, EventValues, EventKinds
  <2>2. Event("route_decision", n, Decision(n).reason) \in Events
    BY <2>1, EventTyped
  <2>. QED BY <1>1, <2>2, DecisionTyped
<1>2. CASE ~Decides(n)
  BY <1>2 DEF DecisionEvents
<1>. QED BY <1>1, <1>2

LEMMA CommitTyped ==
  ASSUME TypeOK, NEW n \in Nodes, NEW d \in Doc, NEW evs \in Seq(Events), Commit(n, d, evs)
  PROVE  TypeOK'
<1>. DEFINE merged == [d EXCEPT !.last_gateway = IF n \in Gateways THEN n ELSE @]
<1>1. doc' = merged /\ merged \in Doc
  BY DEF Commit, Doc
<1>2. pc' \in Nodes \cup {END, RAISED}
  BY TargetsTyped DEF Commit
<1>3. audit' \in Seq(Events)
  <2>1. audit \in Seq(Events) /\ audit' = audit \o evs
    BY DEF TypeOK, Commit
  <2>. QED BY <2>1
<1>4. records' \in Seq(Decisions)
  <2>1. records \in Seq(Decisions)
    BY DEF TypeOK
  <2>2. CASE Decides(n)
    BY <2>1, <2>2, DecisionTyped DEF Commit
  <2>3. CASE ~Decides(n)
    BY <2>1, <2>3 DEF Commit
  <2>. QED BY <2>2, <2>3
<1>5. unmodeled' \in Seq(Unmodeled)
  <2>1. unmodeled \in Seq(Unmodeled)
    BY DEF TypeOK
  <2>2. CASE Diverted(n, merged)
    <3>1. [from |-> n, reason |-> Reason(merged, Outgoing[n])] \in Unmodeled
      BY <2>2, DiversionReason DEF Unmodeled
    <3>2. unmodeled' = Append(unmodeled, [from |-> n, reason |-> Reason(merged, Outgoing[n])])
      BY <2>2 DEF Commit, LogUnmodeled
    <3>. QED BY <2>1, <3>1, <3>2
  <2>3. CASE ~Diverted(n, merged)
    BY <2>1, <2>3 DEF Commit, LogUnmodeled
  <2>. QED BY <2>2, <2>3
<1>6. debug' \in BOOLEAN
  BY DEF TypeOK, Commit
<1>. QED BY <1>1, <1>2, <1>3, <1>4, <1>5, <1>6 DEF TypeOK

LEMMA RaiseTyped == TypeOK /\ Raise => TypeOK'
BY DEF TypeOK, Raise

LEMMA ExtractionsTyped ==
  ASSUME NEW d \in Doc, NEW failed \in {"NEEDS_RETRY", "BAD_EXTRACTION"},
         NEW r \in Extractions(d, failed)
  PROVE  r \in Doc
<1>1. ASSUME NEW family \in {"LLM_ERROR", "REJECTED"} PROVE Refused(d, family) \in Doc
  BY DEF Refused, Doc, Statuses
<1>2. ASSUME NEW a \in Values, NEW p \in BOOLEAN PROVE Verified(d, a, p) \in Doc
  BY DEF Verified, Doc, Statuses
<1>3. ASSUME NEW a \in Values, NEW p \in BOOLEAN PROVE Unverified(d, failed, a, p) \in Doc
  BY DEF Unverified, Doc, Statuses
<1>4. \A f \in Leftover(d) : f.amount \in Values /\ f.has_po \in BOOLEAN
  <2>1. d.amount \in Values /\ d.has_po \in BOOLEAN
    BY DEF Doc
  <2>2. CASE debug
    BY <2>1, <2>2 DEF Leftover
  <2>3. CASE ~debug
    BY <2>1, <2>3 DEF Leftover
  <2>. QED BY <2>2, <2>3
<1>. QED BY <1>1, <1>2, <1>3, <1>4 DEF Extractions

LEMMA ExtractionEventsTyped ==
  ASSUME TypeOK, NEW n \in Nodes, NEW kind \in {"extraction", "critic_retry_executed"},
         NEW d \in Doc
  PROVE  ExtractionEvents(n, kind, d) \in Seq(Events)
<1>1. \A v \in Statuses \cup {"valid", "invalid", "LLM_ERROR"} :
        Event(kind, n, v) \in Events /\ Event("verifier_summary", n, v) \in Events
  BY EventTyped DEF EventKinds, EventValues
<1>2. d.status \in Statuses
  BY DEF Doc
<1>3. ExtractionVariant(d) \in Statuses \cup {"valid", "invalid", "LLM_ERROR"}
  BY <1>2 DEF ExtractionVariant, Doc
<1>. DEFINE own == Event(kind, n, IF kind = "extraction" THEN ExtractionVariant(d) ELSE d.status)
            summary == IF d.provenance = "empty" THEN <<>>
                       ELSE <<Event("verifier_summary", n, d.status)>>
<1>4. own \in Events
  BY <1>1, <1>2, <1>3
<1>5. summary \in Seq(Events)
  BY <1>1, <1>2
<1>6. <<own>> \in Seq(Events) /\ ExtractionEvents(n, kind, d) = <<own>> \o summary
  BY <1>4 DEF ExtractionEvents
<1>. HIDE DEF own, summary
<1>. QED BY <1>5, <1>6

(* One handler call keeps the types.                                         *)
LEMMA StepTyped ==
  ASSUME TypeOK, NEW n \in Nodes, Step(n)
  PROVE  TypeOK'
<1>. USE DEF At
<1>0. doc \in Doc
  BY DEF TypeOK
<1>1. CASE EnterRecord(n)
  <2>1. CASE Raise
    BY <2>1, RaiseTyped
  <2>2. ASSUME NEW failed \in {"NEEDS_RETRY", "BAD_EXTRACTION"}, NEW d \in Extractions(doc, failed),
               Commit(n, d, ExtractionEvents(n, "extraction", d))
        PROVE  TypeOK'
    BY <1>0, <2>2, ExtractionsTyped, ExtractionEventsTyped, CommitTyped
  <2>. QED BY <1>1, <2>1, <2>2 DEF EnterRecord
<1>2. CASE CriticRetry(n)
  <2>. DEFINE retried == [doc EXCEPT !.retry_count = @ + 1]
  <2>1. CASE Raise
    BY <2>1, RaiseTyped
  <2>2. ASSUME NEW d \in Extractions(retried, "BAD_EXTRACTION"),
               Commit(n, d, ExtractionEvents(n, "critic_retry_executed", d))
        PROVE  TypeOK'
    <3>1. doc.retry_count \in Nat
      BY <1>0 DEF Doc
    <3>2. doc.retry_count + 1 \in Nat
      BY <3>1
    <3>3. retried \in Doc
      BY <1>0, <3>2 DEF Doc
    <3>. HIDE DEF retried
    <3>. QED BY <3>3, <2>2, ExtractionsTyped, ExtractionEventsTyped, CommitTyped
  <2>. QED BY <1>2, <2>1, <2>2 DEF CriticRetry
<1>3. CASE ValidateFields(n)
  <2>1. CASE Raise
    BY <2>1, RaiseTyped
  <2>2. ASSUME NEW s \in {"VALIDATED", "MISSING_DATA", doc.status},
               Commit(n, [doc EXCEPT !.status = s], <<>>)
        PROVE  TypeOK'
    <3>1. [doc EXCEPT !.status = s] \in Doc
      BY <1>0 DEF Doc, Statuses
    <3>2. <<>> \in Seq(Events)
      OBVIOUS
    <3>. QED BY <3>1, <3>2, <2>2, CommitTyped
  <2>. QED BY <1>3, <2>1, <2>2 DEF ValidateFields
<1>4. CASE RouteForReview(n)
  <2>1. ReviewReason[n] \in DOMAIN ReviewStatus
    BY GraphWellFormed
  <2>2. ReviewReason[n] \in EventValues /\ ReviewStatus[ReviewReason[n]] \in Statuses
    BY <2>1 DEF ReviewStatus, Statuses, EventValues
  <2>3. [doc EXCEPT !.status = ReviewStatus[ReviewReason[n]]] \in Doc
    BY <1>0, <2>2 DEF Doc
  <2>4. <<Event("exception_station", n, ReviewReason[n])>> \in Seq(Events)
    BY <2>2, EventTyped DEF EventKinds
  <2>. QED BY <1>4, <2>3, <2>4, CommitTyped DEF RouteForReview
<1>5. CASE AssignStatus(n)
  <2>1. SetsStatus[Intent[n]] \in Statuses
    BY <1>5 DEF AssignStatus, SetsStatus, Statuses
  <2>2. [doc EXCEPT !.status = SetsStatus[Intent[n]]] \in Doc
    BY <1>0, <2>1 DEF Doc
  <2>. QED BY <1>5, <2>2, DecisionEventsTyped, CommitTyped DEF AssignStatus
<1>6. CASE FlagForReview(n)
  <2>1. ManualReview[Intent[n]] \in Statuses /\ FlagReason[Intent[n]] \in EventValues
    BY <1>6 DEF FlagForReview, ManualReview, FlagReason, Statuses, EventValues, ReviewStatus
  <2>2. [doc EXCEPT !.status = ManualReview[Intent[n]]] \in Doc
    BY <1>0, <2>1 DEF Doc
  <2>3. <<Event("exception_station", n, FlagReason[Intent[n]])>> \in Seq(Events)
    BY <2>1, EventTyped DEF EventKinds
  <2>. QED BY <1>6, <2>2, <2>3, CommitTyped DEF FlagForReview
<1>7. CASE SequentialDispatch(n)
  <2>1. <<Event("sequential_dispatch", n, "chain")>> \in Seq(Events)
    BY EventTyped DEF EventKinds, EventValues
  <2>. QED BY <1>0, <1>7, <2>1, CommitTyped DEF SequentialDispatch
<1>8. CASE Match3Way(n)
  <2>1. MatchResult \in MatchResults
    BY DEF MatchResult, MatchResults
  <2>2. [doc EXCEPT !.match_3_way = (MatchFlag # None /\ MatchFlag),
                    !.match_result = MatchResult] \in Doc
    BY <1>0, <2>1 DEF Doc
  <2>3. <<Event("match_inputs", n, "flags"), Event("match_result_set", n, MatchResult)>>
          \in Seq(Events)
    BY <2>1, EventTyped DEF EventKinds, EventValues
  <2>. QED BY <1>8, <2>2, <2>3, CommitTyped DEF Match3Way
<1>9. CASE UpdateStatus(n)
  <2>1. [doc EXCEPT !.status = IF @ \in {"APPROVED", "PAID", "REJECTED"}
                               THEN @ ELSE "CLOSED"] \in Doc
    BY <1>0 DEF Doc, Statuses
  <2>. QED BY <1>9, <2>1, DecisionEventsTyped, CommitTyped DEF UpdateStatus
<1>10. CASE RequestClarification(n)
  <2>1. [doc EXCEPT !.status = IF @ = "NEW" THEN "PENDING_INFO" ELSE @] \in Doc
    BY <1>0 DEF Doc, Statuses
  <2>. QED BY <1>10, <2>1, DecisionEventsTyped, CommitTyped DEF RequestClarification
<1>11. CASE PassThrough(n)
  BY <1>0, <1>11, DecisionEventsTyped, CommitTyped DEF PassThrough
<1>. QED
  BY <1>1, <1>2, <1>3, <1>4, <1>5, <1>6, <1>7, <1>8, <1>9, <1>10, <1>11 DEF Step

LEMMA InitTyped == Init => TypeOK
<1>. SUFFICES ASSUME Init PROVE TypeOK
  OBVIOUS
<1>1. PICK m \in PoMatchInputs, legacy \in LegacyInputs :
        doc = [status |-> "NEW", amount |-> 0, has_po |-> FALSE, po_match |-> m,
               match_3_way |-> IF legacy = None THEN m ELSE legacy,
               match_result |-> "UNKNOWN", retry_count |-> 0,
               failure_codes |-> "none", provenance |-> "empty", last_gateway |-> ""]
  BY DEF Init
<1>2. m \in BOOLEAN \cup {None} /\ legacy \in BOOLEAN \cup {None} /\ 0 \in Values
  BY InputsTyped DEF Values
<1>3. "NEW" \in Statuses /\ "UNKNOWN" \in MatchResults
  BY DEF Statuses, MatchResults
<1>4. doc \in Doc
  BY <1>1, <1>2, <1>3 DEF Doc
<1>5. pc \in Nodes /\ debug \in BOOLEAN
  BY GraphWellFormed DEF Init
<1>6. audit \in Seq(Events) /\ records \in Seq(Decisions) /\ unmodeled \in Seq(Unmodeled)
  <2>1. audit = <<>> /\ records = <<>> /\ unmodeled = <<>>
    BY DEF Init
  <2>2. \A S : <<>> \in Seq(S)
    OBVIOUS
  <2>. QED BY <2>1, <2>2
<1>. QED BY <1>4, <1>5, <1>6 DEF TypeOK

(* The state keeps its type on every well-formed graph.                      *)
THEOREM TypeCorrect == SafeSpec => []TypeOK
<1>1. TypeOK /\ [Next]_vars => TypeOK'
  <2>1. TypeOK /\ Next => TypeOK'
    BY StepTyped DEF Next
  <2>2. TypeOK /\ UNCHANGED vars => TypeOK'
    BY DEF TypeOK, vars
  <2>. QED BY <2>1, <2>2
<1>. QED BY <1>1, InitTyped, PTL DEF SafeSpec
-----------------------------------------------------------------------------
(* Diversions.                                                               *)

(* A step is taken at the current node by the handler of its intent.        *)
LEMMA HandledBy ==
  ASSUME NEW n, Step(n)
  PROVE  /\ pc = n
         /\ \/ EnterRecord(n) /\ Intent[n] = "ENTER_RECORD"
            \/ CriticRetry(n) /\ Intent[n] = "CRITIC_RETRY"
            \/ ValidateFields(n) /\ Intent[n] = "VALIDATE_FIELDS"
            \/ RouteForReview(n) /\ Intent[n] = "ROUTE_FOR_REVIEW"
            \/ AssignStatus(n) /\ Intent[n] \in DOMAIN SetsStatus
            \/ FlagForReview(n) /\ Intent[n] \in DOMAIN ManualReview
            \/ SequentialDispatch(n) /\ Intent[n] = "SEQUENTIAL_DISPATCH"
            \/ Match3Way(n) /\ Intent[n] = "MATCH_3_WAY"
            \/ UpdateStatus(n) /\ Intent[n] = "UPDATE_STATUS"
            \/ RequestClarification(n) /\ Intent[n] = "REQUEST_CLARIFICATION"
            \/ PassThrough(n) /\ Intent[n] \notin ActingIntents
<1>1. EnterRecord(n) => pc = n /\ Intent[n] = "ENTER_RECORD"
  BY DEF EnterRecord, At
<1>2. CriticRetry(n) => pc = n /\ Intent[n] = "CRITIC_RETRY"
  BY DEF CriticRetry, At
<1>3. ValidateFields(n) => pc = n /\ Intent[n] = "VALIDATE_FIELDS"
  BY DEF ValidateFields, At
<1>4. RouteForReview(n) => pc = n /\ Intent[n] = "ROUTE_FOR_REVIEW"
  BY DEF RouteForReview, At
<1>5. AssignStatus(n) => pc = n /\ Intent[n] \in DOMAIN SetsStatus
  BY DEF AssignStatus, At
<1>6. FlagForReview(n) => pc = n /\ Intent[n] \in DOMAIN ManualReview
  BY DEF FlagForReview, At
<1>7. SequentialDispatch(n) => pc = n /\ Intent[n] = "SEQUENTIAL_DISPATCH"
  BY DEF SequentialDispatch, At
<1>8. Match3Way(n) => pc = n /\ Intent[n] = "MATCH_3_WAY"
  BY DEF Match3Way, At
<1>9. UpdateStatus(n) => pc = n /\ Intent[n] = "UPDATE_STATUS"
  BY DEF UpdateStatus, At
<1>10. RequestClarification(n) => pc = n /\ Intent[n] = "REQUEST_CLARIFICATION"
  BY DEF RequestClarification, At
<1>11. PassThrough(n) => pc = n /\ Intent[n] \notin ActingIntents
  BY DEF PassThrough
<1>. QED
  BY <1>1, <1>2, <1>3, <1>4, <1>5, <1>6, <1>7, <1>8, <1>9, <1>10, <1>11 DEF Step

(* Every handler call either raises or commits one update.                   *)
LEMMA StepCommits ==
  ASSUME NEW n, Step(n)
  PROVE  Raise \/ \E d, evs : Commit(n, d, evs)
<1>1. EnterRecord(n) \/ CriticRetry(n) \/ ValidateFields(n) => Raise \/ \E d, evs : Commit(n, d, evs)
  BY DEF EnterRecord, CriticRetry, ValidateFields
<1>2. RouteForReview(n) \/ AssignStatus(n) \/ FlagForReview(n) => \E d, evs : Commit(n, d, evs)
  BY DEF RouteForReview, AssignStatus, FlagForReview
<1>3. SequentialDispatch(n) \/ Match3Way(n) => \E d, evs : Commit(n, d, evs)
  BY DEF SequentialDispatch, Match3Way
<1>4. UpdateStatus(n) \/ RequestClarification(n) \/ PassThrough(n) => \E d, evs : Commit(n, d, evs)
  BY DEF UpdateStatus, RequestClarification, PassThrough
<1>. QED BY <1>1, <1>2, <1>3, <1>4 DEF Step

(* A call that diverts nothing logs nothing; one that does goes to the sink. *)
LEMMA DivertsOrNot ==
  ASSUME NEW n \in Nodes, NEW d, NEW evs, Commit(n, d, evs)
  PROVE  \/ /\ unmodeled' = unmodeled
            /\ Leaves(n) => pc' = END
         \/ /\ ~Leaves(n)
            /\ \E r \in {"ambiguous_route", "no_route"} :
                 unmodeled' = Append(unmodeled, [from |-> n, reason |-> r]) /\ pc' = Sink(r)
<1>. DEFINE r == Reason(doc', Outgoing[n])
<1>1. /\ pc' \in Targets(n, doc')
      /\ unmodeled' = IF Diverted(n, doc') THEN Append(unmodeled, [from |-> n, reason |-> r])
                                            ELSE unmodeled
  BY DEF Commit, LogUnmodeled
<1>2. CASE Diverted(n, doc')
  <2>1. ~Leaves(n) /\ r \in {"ambiguous_route", "no_route"}
    BY <1>2, DiversionReason DEF Diverted
  <2>2. pc' = Sink(r)
    BY <1>1, <1>2, <2>1 DEF Targets
  <2>. QED BY <1>1, <1>2, <2>1, <2>2
<1>3. CASE ~Diverted(n, doc')
  BY <1>1, <1>3 DEF Targets
<1>. QED BY <1>2, <1>3

(* The sink of a reason is one of its review nodes, or there is none.        *)
LEMMA SinkReviews ==
  ASSUME StationsEndRuns, NEW r \in {"ambiguous_route", "no_route"}
  PROVE  Sink(r) \in ReviewNodes(r) \/ (Sink(r) = RAISED /\ ReviewNodes(r) = {})
BY DEF StationsEndRuns, Sink, Hop

(* A diverted run stays closed: at its review node it only ends.             *)
LEMMA ClosedStep ==
  ASSUME StationsEndRuns, TypeOK, FailsClosed, NEW n \in Nodes, Step(n)
  PROVE  FailsClosed'
<1>1. pc = n
  BY HandledBy
<1>2. unmodeled \in Seq(Unmodeled) /\ doc \in Doc
  BY DEF TypeOK
<1>3. CASE unmodeled = <<>>
  <2>1. CASE Raise
    BY <1>3, <2>1 DEF Raise, FailsClosed
  <2>2. ASSUME NEW d, NEW evs, Commit(n, d, evs) PROVE FailsClosed'
    <3>1. CASE unmodeled' = unmodeled
      BY <1>3, <3>1 DEF FailsClosed
    <3>2. ASSUME NEW r \in {"ambiguous_route", "no_route"},
                 unmodeled' = Append(unmodeled, [from |-> n, reason |-> r]), pc' = Sink(r)
          PROVE  FailsClosed'
      <4>1. unmodeled' = <<[from |-> n, reason |-> r]>>
        BY <1>3, <3>2
      <4>2. Len(unmodeled') = 1 /\ unmodeled'[1].reason = r
        BY <4>1
      <4>. QED BY <4>2, <3>2, SinkReviews DEF FailsClosed
    <3>. QED BY <2>2, <3>1, <3>2, DivertsOrNot
  <2>. QED BY <2>1, <2>2, StepCommits
<1>4. CASE unmodeled # <<>>
  <2>. DEFINE r == unmodeled[1].reason
  <2>1. r \in {"ambiguous_route", "no_route"} /\ Len(unmodeled) = 1
    <3>1. unmodeled[1] \in Unmodeled
      BY <1>2, <1>4
    <3>2. r \in {"ambiguous_route", "no_route"}
      BY <3>1 DEF Unmodeled
    <3>. QED BY <3>2, <1>4 DEF FailsClosed
  <2>2. n \in ReviewNodes(r)
    BY <1>1, <1>4, GraphWellFormed DEF FailsClosed
  <2>3. Intent[n] = "ROUTE_FOR_REVIEW" /\ ReviewStatus[ReviewReason[n]] = ReviewedAs(r)
    BY <2>2 DEF ReviewNodes
  <2>4. Leaves(n)
    BY <2>1, <2>2 DEF StationsEndRuns, Leaves
  <2>. DEFINE d == [doc EXCEPT !.status = ReviewedAs(r)]
  <2>5. PICK evs : Commit(n, d, evs)
    <3>1. RouteForReview(n)
      BY <2>3, HandledBy DEF SetsStatus, ManualReview, ActingIntents
    <3>. QED BY <2>3, <3>1 DEF RouteForReview
  <2>6. doc'.status = ReviewedAs(r)
    BY <1>2, <2>5 DEF Commit, Doc
  <2>7. unmodeled' = unmodeled /\ pc' = END
    BY <2>4, <2>5, DivertsOrNot
  <2>. QED BY <2>1, <2>6, <2>7 DEF FailsClosed
<1>. QED BY <1>3, <1>4

(* On every graph whose review nodes end runs, a run the router cannot       *)
(* continue goes to review, ends there, and does nothing else.               *)
THEOREM DiversionsFailClosed ==
  ASSUME StationsEndRuns
  PROVE  SafeSpec => []FailsClosed
<1>1. Init => FailsClosed
  BY DEF Init, FailsClosed
<1>2. TypeOK /\ FailsClosed /\ [Next]_vars => FailsClosed'
  <2>1. TypeOK /\ FailsClosed /\ Next => FailsClosed'
    BY ClosedStep DEF Next
  <2>2. FailsClosed /\ UNCHANGED vars => FailsClosed'
    BY DEF FailsClosed, vars
  <2>. QED BY <2>1, <2>2
<1>. QED BY <1>1, <1>2, TypeCorrect, PTL DEF SafeSpec

-----------------------------------------------------------------------------
(* What handlers leave alone.                                                *)

SameExtraction(d, e) ==
  /\ d.amount = e.amount /\ d.has_po = e.has_po
  /\ d.provenance = e.provenance /\ d.failure_codes = e.failure_codes
  /\ d.retry_count = e.retry_count

(* An extraction leaves the invoice's match flag alone.                      *)
LEMMA ExtractionKeeps ==
  ASSUME NEW d \in Doc, NEW failed, NEW r \in Extractions(d, failed)
  PROVE  r.po_match = d.po_match
<1>1. CASE \E family \in {"LLM_ERROR", "REJECTED"} : r = Refused(d, family)
  BY <1>1 DEF Refused, Doc
<1>2. CASE \E a \in Values, p \in BOOLEAN : r = Verified(d, a, p)
  BY <1>2 DEF Verified, Doc
<1>3. CASE \E f \in Leftover(d) : r = Unverified(d, failed, f.amount, f.has_po)
  BY <1>3 DEF Unverified, Doc
<1>. QED BY <1>1, <1>2, <1>3 DEF Extractions

(* Only the two extracting handlers touch what an extraction writes, and no  *)
(* handler touches the match flag the invoice came with.                     *)
LEMMA OnlyExtractionWritesFields ==
  ASSUME TypeOK, NEW n \in Nodes, Step(n)
  PROVE  /\ doc'.po_match = doc.po_match
         /\ Intent[n] \notin {"ENTER_RECORD", "CRITIC_RETRY"} => SameExtraction(doc', doc)
<1>1. doc \in Doc
  BY DEF TypeOK
<1>2. CASE Raise
  BY <1>2 DEF Raise, SameExtraction
<1>3. ASSUME NEW d \in Doc, NEW evs, Commit(n, d, evs), d.po_match = doc.po_match
      PROVE  doc'.po_match = doc.po_match
  BY <1>3 DEF Commit, Doc
<1>4. CASE EnterRecord(n) /\ ~Raise
  <2>. DEFINE failed == IF doc.retry_count = 0 THEN "NEEDS_RETRY" ELSE "BAD_EXTRACTION"
  <2>1. PICK d \in Extractions(doc, failed) : \E evs : Commit(n, d, evs)
    BY <1>4 DEF EnterRecord
  <2>. HIDE DEF failed
  <2>2. d \in Doc /\ d.po_match = doc.po_match
    <3>1. failed \in {"NEEDS_RETRY", "BAD_EXTRACTION"}
      BY DEF failed
    <3>. QED BY <1>1, <3>1, ExtractionsTyped, ExtractionKeeps
  <2>. QED BY <1>3, <1>4, <2>1, <2>2 DEF EnterRecord, At
<1>5. CASE CriticRetry(n) /\ ~Raise
  <2>. DEFINE retried == [doc EXCEPT !.retry_count = @ + 1]
  <2>1. PICK d \in Extractions(retried, "BAD_EXTRACTION") : \E evs : Commit(n, d, evs)
    BY <1>5 DEF CriticRetry
  <2>2. retried \in Doc /\ retried.po_match = doc.po_match
    <3>1. doc.retry_count \in Nat
      BY <1>1 DEF Doc
    <3>2. doc.retry_count + 1 \in Nat
      BY <3>1
    <3>. QED BY <1>1, <3>2 DEF Doc
  <2>. HIDE DEF retried
  <2>3. d \in Doc /\ d.po_match = doc.po_match
    BY <2>2, ExtractionsTyped, ExtractionKeeps
  <2>. QED BY <1>3, <1>5, <2>1, <2>3 DEF CriticRetry, At
<1>6. ASSUME NEW d, NEW evs, Commit(n, d, evs),
             \/ d = doc
             \/ \E s : d = [doc EXCEPT !.status = s]
             \/ \E b, r : d = [doc EXCEPT !.match_3_way = b, !.match_result = r]
      PROVE  doc'.po_match = doc.po_match /\ SameExtraction(doc', doc)
  BY <1>1, <1>6 DEF Commit, Doc, SameExtraction
<1>7. CASE ValidateFields(n) \/ RouteForReview(n) \/ AssignStatus(n) \/ FlagForReview(n)
  BY <1>2, <1>6, <1>7 DEF ValidateFields, RouteForReview, AssignStatus, FlagForReview
<1>8. CASE SequentialDispatch(n) \/ Match3Way(n) \/ PassThrough(n)
  BY <1>6, <1>8 DEF SequentialDispatch, Match3Way, PassThrough
<1>9. CASE UpdateStatus(n) \/ RequestClarification(n)
  BY <1>6, <1>9 DEF UpdateStatus, RequestClarification
<1>. QED BY <1>2, <1>4, <1>5, <1>7, <1>8, <1>9 DEF Step
=============================================================================
