------------------------------ MODULE Extraction ------------------------------
(***************************************************************************)
(* An invoice's extraction with what AgentWorkflow.tla leaves to chance:   *)
(* the text, the LLM's answers and the checks of Verifier.tla.  The        *)
(* handlers are ENTER_RECORD and, when it leaves NEEDS_RETRY, CRITIC_RETRY *)
(* of src/agent/nodes.py.                                                  *)
(***************************************************************************)
EXTENDS Verifier, EdgeTerms

CONSTANTS
  Texts,             \* texts of invoices
  Answers(_),        \* answers of the LLM to a text at first extraction
  Corrections(_),    \* answers of the critic
  Failed,            \* the answer {"_error": ...}
  Money              \* amounts answers name

OptionalFields == {"invoice_date", "tax_amount"}

Answered(t) == (Answers(t) \cup Corrections(t)) \ {Failed}

(* What json.loads and the prompt's schema leave of an answer: five fields,  *)
(* each missing, no object, or a value and a piece of evidence.              *)
ASSUME AnswersTyped ==
  /\ Texts \subseteq Seq(DOMAIN Lexicon)
  /\ Money \subseteq Nat /\ 0 \in Money
  /\ \A t \in Texts : \A answer \in Answered(t) :
       /\ DOMAIN answer = RequiredFields \cup OptionalFields
       /\ \A f \in DOMAIN answer :
            answer[f] \in {Absent, Malformed} \/ answer[f].evidence \in Seq(DOMAIN Lexicon) \cup {None}
       /\ \/ answer.amount \in {Absent, Malformed}
          \/ answer.amount.value \in Money \cup {NaN, None, Wrong} \cup {n \in Int : n < 0}
       /\ \/ answer.has_po \in {Absent, Malformed}
          \/ answer.has_po.value \in BOOLEAN \cup {None, Wrong}

(* The words a faithful answer quotes as labels are what the verifier takes  *)
(* them for.                                                                *)
ASSUME LabelsAreKeywords ==
  /\ \A w \in {"total", "tax", "po"} \cap DOMAIN Lexicon : Lexicon[w].numbers = <<>>
  /\ "tax" \in DOMAIN Lexicon => TaxAnchor("tax")
  /\ "po" \in DOMAIN Lexicon => Lexicon["po"].po

ASSUME NoStatus == \A s \in {"NEW", "NEEDS_RETRY", "BAD_EXTRACTION", "DATA_EXTRACTED"} : s # None

VARIABLES
  stage,     \* "enter", "critic" or "done"
  text,      \* state["raw_text"]
  debug,     \* ALLOW_UNVERIFIED_EXTRACTION is set
  doc,       \* the fields extraction writes
  audit      \* structured audit events

vars == <<stage, text, debug, doc, audit>>

Provenance(v) == IF ~v.ran THEN "empty" ELSE IF v.codes = {} THEN "passed" ELSE "failed"

(* The fields a verified answer writes.  An optional field is written when  *)
(* the answer has it.                                                       *)
Kept(d, answer, f) == IF answer[f] = Absent THEN d[f] ELSE answer[f].value

Promoted(d, answer) ==
  [d EXCEPT !.vendor = answer.vendor.value, !.amount = answer.amount.value,
            !.has_po = answer.has_po.value,
            !.invoice_date = Kept(d, answer, "invoice_date"),
            !.tax_amount = Kept(d, answer, "tax_amount")]

(* The fields a refused answer writes in debug mode, whatever the verifier  *)
(* said of them: a tax of the wrong type is not written, a date of any type  *)
(* is (as a string).                                                        *)
Usable(answer, f) ==
  /\ answer[f] # Absent
  /\ answer[f].value # None /\ (f = "tax_amount" => answer[f].value # Wrong)

Leaked(d, answer) ==
  [f \in DOMAIN d |-> IF f \in DOMAIN answer /\ Usable(answer, f) THEN answer[f].value ELSE d[f]]

(* Mutant: the debug flag is not asked.                                     *)
WrittenAlways(d, answer, v) ==
  IF v.ran /\ v.codes = {} THEN Promoted(d, answer)
  ELSE IF v.ran THEN Leaked(d, answer)
  ELSE d

Written(d, answer, v) ==
  IF v.ran /\ v.codes = {} THEN Promoted(d, answer)
  ELSE IF v.ran /\ debug THEN Leaked(d, answer)
  ELSE d

(* The document after an answer that the checks gave verdict v.              *)
After(d, answer, v, failed) ==
  [Written(d, answer, v) EXCEPT
     !.status = IF ~v.ran THEN "BAD_EXTRACTION" ELSE IF v.codes = {} THEN "DATA_EXTRACTED" ELSE failed,
     !.failure_codes = v.codes,
     !.provenance = Provenance(v),
     !.extraction = answer]

(* Verdicts of an answer: an LLM error never reaches the checks.             *)
Verdicts(answer) ==
  IF answer = Failed THEN {[ran |-> FALSE, codes |-> {"LLM_ERROR"}]}
                     ELSE {Verdict(answer, text, near) : near \in BOOLEAN}

Event(kind, node, value) == [event |-> kind, node |-> node, value |-> value, gateway |-> ""]

Summary(node, d) ==
  IF d.provenance = "empty" THEN <<>> ELSE <<Event("verifier_summary", node, d.status)>>

(* What the extraction event says: its error, its status or its "valid".     *)
Variant(answer, v) ==
  IF answer = Failed THEN "LLM_ERROR"
  ELSE IF ~v.ran THEN "BAD_EXTRACTION"
  ELSE IF v.codes = {} THEN "valid" ELSE "invalid"

EnterRecord ==
  /\ stage = "enter"
  /\ \E answer \in Answers(text) \cup {Failed} : \E v \in Verdicts(answer) :
       /\ doc' = After(doc, answer, v, IF doc.retry_count = 0 THEN "NEEDS_RETRY" ELSE "BAD_EXTRACTION")
       /\ audit' = audit \o (<<Event("extraction", "enter", Variant(answer, v))>> \o Summary("enter", doc'))
  /\ stage' = IF doc'.status = "NEEDS_RETRY" THEN "critic" ELSE "done"
  /\ UNCHANGED <<text, debug>>

(* Mutant: a refused correction asks for another retry.                     *)
CriticRetryAgain ==
  /\ stage = "critic"
  /\ \E answer \in Corrections(text) \cup {Failed} : \E v \in Verdicts(answer) :
       /\ doc' = [After(doc, answer, v, "NEEDS_RETRY") EXCEPT !.retry_count = doc.retry_count + 1]
       /\ audit' = audit \o (<<Event("critic_retry_executed", "critic", doc'.status)>>
                          \o Summary("critic", doc'))
  /\ stage' = "done"
  /\ UNCHANGED <<text, debug>>

CriticRetry ==
  /\ stage = "critic"
  /\ \E answer \in Corrections(text) \cup {Failed} : \E v \in Verdicts(answer) :
       /\ doc' = [After(doc, answer, v, "BAD_EXTRACTION") EXCEPT !.retry_count = doc.retry_count + 1]
       /\ audit' = audit \o (<<Event("critic_retry_executed", "critic", doc'.status)>>
                          \o Summary("critic", doc'))
  /\ stage' = "done"
  /\ UNCHANGED <<text, debug>>

Init ==
  /\ stage = "enter"
  /\ text \in Texts
  /\ debug \in BOOLEAN
  /\ doc = [status |-> "NEW", vendor |-> "", amount |-> 0, has_po |-> FALSE,
            invoice_date |-> "", tax_amount |-> 0, failure_codes |-> {},
            provenance |-> "empty", retry_count |-> 0, extraction |-> None]
  /\ audit = <<>>

Next == EnterRecord \/ CriticRetry

Spec == Init /\ [][Next]_vars
-----------------------------------------------------------------------------
(* Properties.                                                               *)

Verified == doc.status = "DATA_EXTRACTED"

Default(f) == IF f = "invoice_date" THEN "" ELSE 0

(* What evidence can show of a text: its words, and what is left of one that *)
(* the evidence starts or stops inside.                                      *)
Shown == ToSet(text) \cup {c[1] : c \in {p \in Tails \cup Heads : p[2] \in ToSet(text)}}

InText(v) == v = NaN \/ \E w \in Shown : \E n \in ToSet(Lexicon[w].numbers) : v - n \in {-1, 0, 1}

(* What a verified document says can be pointed at in its text: its amounts *)
(* to the cent (NaN is the exception), a mention of a purchase order, its   *)
(* date in some form; through both attempts, whatever the model claimed as  *)
(* evidence.                                                                *)
VerifiedFromText ==
  Verified =>
    /\ InText(doc.amount)
    /\ doc.has_po => \E w \in Shown : Lexicon[w].po
    /\ doc.extraction.tax_amount # Absent => InText(doc.tax_amount)
    /\ doc.extraction.invoice_date # Absent =>
         \E w \in Shown : Lexicon[w].date = Lexicon[doc.invoice_date].date

(* Every field of a verified document is that of the answer the verifier    *)
(* accepted, or its default: nothing of a refused first answer is left.     *)
(* In debug mode this is claimed of the required fields only.               *)
VerifiedFieldsCurrent ==
  Verified =>
    /\ \A f \in RequiredFields : doc[f] = doc.extraction[f].value
    /\ ~debug => \A f \in OptionalFields : doc[f] = IF doc.extraction[f] = Absent
                                                     THEN Default(f) ELSE doc.extraction[f].value

(* A text whose sums are refused is refused for good: no answer and no      *)
(* correction makes a verified document of it.                              *)
RefusedSumsStayRefused == ArithmeticCodes(text) # {} => ~Verified

(* An answer that only reads off what is printed beside its label.          *)
Beside(f, label) ==
  \/ f = Absent
  \/ /\ Len(f.evidence) = 2 /\ f.evidence[1] = label
     /\ \E k \in 1..Len(text) - 1 : SubSeq(text, k, k + 1) = f.evidence
     /\ ~Lexicon[f.evidence[2]].rate /\ Lexicon[f.evidence[2]].numbers = <<f.value>>

Faithful(answer) ==
  /\ \A f \in DOMAIN answer : answer[f] # Malformed /\ (f \in RequiredFields => answer[f] # Absent)
  /\ answer.vendor.evidence = <<answer.vendor.value>> /\ answer.vendor.value \in ToSet(text)
  /\ Beside(answer.amount, "total")
  /\ \/ answer.has_po = [value |-> FALSE, evidence |-> <<>>]
     \/ answer.has_po = [value |-> TRUE, evidence |-> <<"po">>] /\ "po" \in ToSet(text)
  /\ Beside(answer.tax_amount, "tax")
  /\ answer.invoice_date = Absent

(* Such an answer is accepted, first or second, unless the text's sums are  *)
(* refused.                                                                 *)
FaithfulAnswerAccepted ==
  (/\ doc.extraction \notin {None, Failed}
   /\ Faithful(doc.extraction)
   /\ ArithmeticCodes(text) = {}) => Verified

CodeFamily ==
  IF doc.failure_codes = {} THEN "none"
  ELSE IF doc.failure_codes = {"LLM_ERROR"} THEN "LLM_ERROR"
  ELSE IF doc.provenance = "empty" THEN "REJECTED" ELSE "VERIFIER"

Handlers == {"enter", "critic", "done"}

HandlerEdges ==
  [enter |-> <<When("critic", {Is("status", "NEEDS_RETRY")}), Always("done")>>,
   critic |-> <<Always("done")>>, done |-> <<>>]

AgentDoc ==   \* what AgentWorkflow sees of the document
  [status |-> doc.status, amount |-> doc.amount, has_po |-> doc.has_po,
   po_match |-> TRUE, match_3_way |-> TRUE, match_result |-> "UNKNOWN",
   retry_count |-> doc.retry_count, failure_codes |-> CodeFamily,
   provenance |-> doc.provenance, last_gateway |-> ""]

Workflow == INSTANCE AgentWorkflow WITH
  Nodes <- Handlers, StartNode <- "enter", EndNodes <- {}, Gateways <- {},
  Intent <- [enter |-> "ENTER_RECORD", critic |-> "CRITIC_RETRY", done |-> "end"],
  ReviewReason <- [n \in Handlers |-> "UNKNOWN"], Outgoing <- HandlerEdges,
  StationMap <- <<>>, Amounts <- Money, PoMatchInputs <- {TRUE}, LegacyInputs <- {None},
  pc <- stage, records <- <<>>, unmodeled <- <<>>, doc <- AgentDoc

(* AgentWorkflow's free choice of a document covers what the checks can     *)
(* return, events included: the handlers with the verifier inside implement *)
(* the handlers the agent's theorems are about.                             *)
ImplementsWorkflow == Workflow!SafeSpec

-----------------------------------------------------------------------------

(* "Status still becomes BAD_EXTRACTION": what the debug flag writes of a   *)
(* refused answer never stands in a verified document.                      *)
DebugValuesRejected ==
  Verified => \A f \in OptionalFields :
                doc[f] = IF doc.extraction[f] = Absent THEN Default(f) ELSE doc.extraction[f].value

(* "Source-text subtotal+tax+fees != total": the total is said to mismatch  *)
(* only when the labelled numbers of the text do not add up.                *)
Labelled(role) ==
  {n \in Numbers(text) : n[3] = 1 /\ n[2] > 1 /\ Lexicon[text[n[2] - 1]].keyword = role}

MismatchesAreReal ==
  "ARITH_TOTAL_MISMATCH" \in doc.failure_codes =>
    Apart(LastOf(Labelled("subtotal")) + Plus(Labelled("tax")) + Plus(Labelled("fee")),
          LastOf(Labelled("total"))) > 1
=============================================================================
