--------------------------- MODULE InvoiceDecision ---------------------------
(***************************************************************************)
(* What the agent promises for one invoice, without graph, router or log:  *)
(* an extraction is either verified once, fixing the facts the decision is *)
(* taken on, or it never is; then the invoice gets one outcome, a function *)
(* of those facts alone, and keeps it.                                     *)
(***************************************************************************)
EXTENDS Integers

CONSTANTS Threshold, Amounts, NaN, PoMatchInputs

VARIABLES
  poMatch,   \* the purchase-order match flag the invoice came with
  facts,     \* what a verified extraction said, or Unknown
  outcome    \* "open", a final status, or "raised"

vars == <<poMatch, facts, outcome>>

Unknown == [verified |-> FALSE, amount |-> 0, has_po |-> FALSE]

Facts == [verified : {TRUE}, amount : Amounts \cup {NaN}, has_po : BOOLEAN]

Outcome ==
  CASE ~facts.verified                             -> "EXCEPTION_BAD_EXTRACTION"
    [] facts.verified /\ ~facts.has_po             -> "EXCEPTION_NO_PO"
    [] facts.has_po /\ facts.amount = NaN          -> "EXCEPTION_NO_ROUTE"
    [] facts.has_po /\ facts.amount # NaN /\ facts.amount > Threshold -> "ESCALATED"
    [] facts.has_po /\ facts.amount # NaN /\ facts.amount <= Threshold ->
         IF poMatch THEN "APPROVED" ELSE "EXCEPTION_MATCH_FAILED"

Init ==
  /\ poMatch \in PoMatchInputs
  /\ facts = Unknown
  /\ outcome = "open"

Verify ==
  /\ outcome = "open"
  /\ ~facts.verified
  /\ facts' \in Facts
  /\ UNCHANGED <<poMatch, outcome>>

Decide ==
  /\ outcome = "open"
  /\ outcome' = Outcome
  /\ UNCHANGED <<poMatch, facts>>

Fail ==
  /\ outcome = "open"
  /\ outcome' = "raised"
  /\ UNCHANGED <<poMatch, facts>>

Next == Verify \/ Decide \/ Fail

SafeSpec == Init /\ [][Next]_vars

Spec == SafeSpec /\ WF_vars(Next)
=============================================================================
