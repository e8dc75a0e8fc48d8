------------------------------- MODULE Verifier -------------------------------
(***************************************************************************)
(* The checks between an LLM's answer and the invoice's document: shape    *)
(* and plausibility (contracts.py, the payload schema), evidence           *)
(* (verifier.py through its registry) and arithmetic (arithmetic.py).      *)
(*                                                                         *)
(* A text, and a piece of evidence, is a sequence of words; money is in    *)
(* cents.  The lexicon says what the regular expressions find in a word,   *)
(* and windows of characters are windows of words.                         *)
(***************************************************************************)
EXTENDS Integers, SequencesExt

CONSTANTS
  None, NaN,
  Wrong,         \* a value of a type the field may not have
  Absent,        \* the answer does not have the field
  Malformed,     \* the field is no object with a value and an evidence
  Lexicon,       \* [word -> [numbers, rate, keyword, po, date]]
  Tails, Heads,  \* <<part, word>>: what is left of word when evidence starts, or stops, inside
  AmountWindow,  \* words before a number in which a keyword singles it out
  RoleWindow,    \* words before a number in which a keyword names its role
  PoWindow,      \* words around the evidence in which a PO word counts
  TaxWindow      \* words between a tax anchor and its number

ASSUME LexiconTyped ==
  /\ \A w \in DOMAIN Lexicon : Lexicon[w].numbers \in Seq(Nat)
  /\ {AmountWindow, RoleWindow, PoWindow, TaxWindow} \subseteq Nat

(* Python's None and the values of a wrong type are none of the others.      *)
ASSUME NoValues ==
  /\ \A v \in {None, Wrong} : v \notin DOMAIN Lexicon \cup Int \cup BOOLEAN
  /\ None \notin Seq(DOMAIN Lexicon)
  /\ NaN \notin {None, Wrong}

NoDate == "no date"

Failures == {"DATE_AMBIGUOUS", "DATE_PARSE_FAILED"}

-----------------------------------------------------------------------------
(* Evidence in a text.                                                       *)

FoundAt(ev, text, k) ==
  /\ k + Len(ev) <= Len(text)
  /\ \A i \in DOMAIN ev :
       \/ ev[i] = text[k + i]
       \/ i = 1 /\ <<ev[i], text[k + i]>> \in Tails
       \/ i = Len(ev) /\ <<ev[i], text[k + i]>> \in Heads

Places(ev, text) == {k \in 0..Len(text) : FoundAt(ev, text, k)}

(* Mutant: evidence need not be in the text.                                *)
GroundedAnywhere(ev, text) == ev # <<>>

Grounded(ev, text) == Places(ev, text) # {}

Place(ev, text) == CHOOSE k \in Places(ev, text) : \A l \in Places(ev, text) : k <= l

Window(words, i, size) == {words[j] : j \in {j \in DOMAIN words : i - size <= j /\ j < i}}

(* The numbers of a piece of text as <<value, its word, its place there>>.   *)
Numbers(words) ==
  UNION {{<<Lexicon[words[i]].numbers[j], i, j>> : j \in DOMAIN Lexicon[words[i]].numbers} :
         i \in DOMAIN words}

Single(set) == \E x \in set : set = {x}

(* Money within a tolerance of one cent.  A difference of one cent itself is *)
(* above it or not as the floats round: near says which.  No comparison     *)
(* with a NaN is above it.                                                  *)
Agree(claimed, printed, near) ==
  \/ claimed = NaN \/ claimed = printed
  \/ near /\ claimed - printed \in {1, -1}

-----------------------------------------------------------------------------
(* Field verifiers: the codes each appends.                                  *)

VendorCodes(f, text) ==
  IF f.evidence = <<>> THEN {"MISSING_EVIDENCE"} \cup IF f.value = None THEN {"MISSING_VENDOR"} ELSE {}
  ELSE IF ~Grounded(f.evidence, text)
  THEN {"EVIDENCE_NOT_FOUND"} \cup IF f.value = None THEN {"MISSING_VENDOR"} ELSE {}
  ELSE IF f.value = None THEN {"MISSING_VENDOR"}
  ELSE IF \E i \in DOMAIN f.evidence :
            f.value = f.evidence[i] \/ <<f.value, f.evidence[i]>> \in Tails \cup Heads THEN {}
  ELSE {"VENDOR_EVIDENCE_MISMATCH"}

AmountKeyword(w) == Lexicon[w].keyword \in {"subtotal", "total"}

Singled(ev) ==
  {n \in Numbers(ev) : \E w \in Window(ev, n[2], AmountWindow) : AmountKeyword(w)}

AmountCodes(f, text, near) ==
  LET numbers == Numbers(f.evidence)
      chosen == IF Single(numbers) THEN numbers ELSE Singled(f.evidence)
  IN IF f.value = None THEN {"WRONG_TYPE"}
     ELSE IF f.evidence = <<>> THEN {"MISSING_EVIDENCE"}
     ELSE IF ~Grounded(f.evidence, text) THEN {"EVIDENCE_NOT_FOUND"}
     ELSE IF numbers = {} THEN {"AMOUNT_MISMATCH"}
     ELSE IF ~Single(chosen) THEN {"AMBIGUOUS_AMOUNT_EVIDENCE"}
     ELSE IF \E n \in chosen : Agree(f.value, n[1], near) THEN {} ELSE {"AMOUNT_MISMATCH"}

PoWordNear(ev, text) ==
  LET k == Place(ev, text)
  IN \/ \E i \in DOMAIN ev : Lexicon[ev[i]].po
     \/ \E i \in DOMAIN text :
          /\ k + 1 - PoWindow <= i /\ i <= k + Len(ev) + PoWindow
          /\ Lexicon[text[i]].po

(* Mutant: no purchase order needs its evidence too.                        *)
HasPoCodesStrict(f, text) ==
  IF f.value = None THEN {"WRONG_TYPE"}
  ELSE IF f.evidence = <<>> THEN {"MISSING_EVIDENCE"}
  ELSE IF ~Grounded(f.evidence, text) THEN {"EVIDENCE_NOT_FOUND"}
  ELSE IF f.value /\ ~PoWordNear(f.evidence, text) THEN {"PO_PATTERN_MISSING"} ELSE {}

HasPoCodes(f, text) ==
  IF f.value = None THEN {"WRONG_TYPE"}
  ELSE IF f.evidence = <<>> THEN IF f.value THEN {"MISSING_EVIDENCE"} ELSE {}
  ELSE IF ~Grounded(f.evidence, text) THEN {"EVIDENCE_NOT_FOUND"}
  ELSE IF f.value /\ ~PoWordNear(f.evidence, text) THEN {"PO_PATTERN_MISSING"} ELSE {}

(* The date of a piece of evidence, or why it has none.                      *)
EvidencedDate(ev) ==
  LET dates == {Lexicon[ev[i]].date : i \in DOMAIN ev} \ {NoDate, "DATE_PARSE_FAILED"}
  IN IF "DATE_AMBIGUOUS" \in dates THEN "DATE_AMBIGUOUS"
     ELSE IF dates = {} THEN "DATE_PARSE_FAILED"
     ELSE IF \E d \in dates : dates = {d} THEN CHOOSE d \in dates : TRUE
     ELSE "DATE_AMBIGUOUS"

(* A value is one token; a word that is no date does not parse as one.       *)
DateCodes(f, text) ==
  LET claimed == IF Lexicon[f.value].date = NoDate THEN "DATE_PARSE_FAILED" ELSE Lexicon[f.value].date
  IN IF f.value \in {None, Wrong} THEN {"DATE_WRONG_TYPE"}
     ELSE IF f.evidence = <<>> THEN {"DATE_MISSING_KEY"}
     ELSE IF ~Grounded(f.evidence, text) THEN {"DATE_EVIDENCE_NOT_FOUND"}
     ELSE IF claimed \in Failures THEN {claimed}
     ELSE IF EvidencedDate(f.evidence) \in Failures THEN {EvidencedDate(f.evidence)}
     ELSE IF claimed = EvidencedDate(f.evidence) THEN {} ELSE {"DATE_VALUE_MISMATCH"}

TaxAnchor(w) == Lexicon[w].keyword = "tax"

(* The first number that follows an anchor, for each anchor.  A percentage  *)
(* is a number like any other here.                                         *)
TaxValues(ev) ==
  {n[1] : n \in {m \in Numbers(ev) :
                   /\ m[3] = 1
                   /\ \E i \in DOMAIN ev : /\ TaxAnchor(ev[i])
                                           /\ i < m[2] /\ m[2] <= i + 1 + TaxWindow
                                           /\ \A k \in (i + 1)..(m[2] - 1) : Lexicon[ev[k]].numbers = <<>>}}

TaxCodes(f, text, near) ==
  IF f.value \in {None, Wrong} THEN {"TAX_WRONG_TYPE"}
  ELSE IF f.evidence = <<>> THEN {"TAX_MISSING_EVIDENCE"}
  ELSE IF ~Grounded(f.evidence, text) THEN {"TAX_EVIDENCE_NOT_FOUND"}
  ELSE IF ~\E i \in DOMAIN f.evidence : TaxAnchor(f.evidence[i]) THEN {"TAX_ANCHOR_MISSING"}
  ELSE IF TaxValues(f.evidence) = {} THEN {"TAX_PARSE_FAILED"}
  ELSE IF ~Single(TaxValues(f.evidence)) THEN {"TAX_AMBIGUOUS_EVIDENCE"}
  ELSE IF \E v \in TaxValues(f.evidence) : Agree(f.value, v, near) THEN {}
  ELSE {"TAX_AMOUNT_MISMATCH"}

(* verify_extraction: an optional field is checked when the answer has it.   *)
VerifierCodes(answer, text, near) ==
  VendorCodes(answer.vendor, text) \cup AmountCodes(answer.amount, text, near)
  \cup HasPoCodes(answer.has_po, text)
  \cup (IF answer.invoice_date = Absent THEN {} ELSE DateCodes(answer.invoice_date, text))
  \cup (IF answer.tax_amount = Absent THEN {} ELSE TaxCodes(answer.tax_amount, text, near))

-----------------------------------------------------------------------------
(* Arithmetic of the text itself.                                            *)

(* The role of a number at word i is that of the closest keyword before it.  *)
RoleAt(text, i) ==
  LET before == {j \in DOMAIN text : /\ i - RoleWindow <= j /\ j < i
                                     /\ Lexicon[text[j]].keyword # "none"}
  IN IF before = {} THEN "none"
     ELSE Lexicon[text[CHOOSE j \in before : \A k \in before : k <= j]].keyword

InRole(text, role) ==
  {n \in Numbers(text) : ~Lexicon[text[n[2]]].rate /\ RoleAt(text, n[2]) = role}

Plus(numbers) == MapThenSumSet(LAMBDA n : n[1], numbers)

LastOf(numbers) ==
  (CHOOSE n \in numbers :
     \A m \in numbers : m[2] < n[2] \/ (m[2] = n[2] /\ m[3] <= n[3]))[1]

Apart(x, y) == IF x < y THEN y - x ELSE x - y

TotalMismatch(text) ==
  LET subtotals == InRole(text, "subtotal")
      totals == InRole(text, "total")
  IN /\ subtotals # {} /\ totals # {}
     /\ Apart(LastOf(subtotals) + Plus(InRole(text, "tax")) + Plus(InRole(text, "fee")),
              LastOf(totals)) > 1

(* Percentages are cents of a unit here: 10% is 1000.                        *)
Rates(text) == {i \in DOMAIN text : i > 1 /\ Lexicon[text[i]].rate /\ TaxAnchor(text[i - 1])}

TaxRateMismatch(text) ==
  LET rate == Lexicon[text[Min(Rates(text))]].numbers[1]
      subtotals == InRole(text, "subtotal")
      taxes == InRole(text, "tax")
  IN /\ Rates(text) # {} /\ subtotals # {} /\ taxes # {}
     /\ Apart(rate * LastOf(subtotals), 10000 * LastOf(taxes)) > 15000

ArithmeticCodes(text) ==
       (IF TotalMismatch(text) THEN {"ARITH_TOTAL_MISMATCH"} ELSE {})
  \cup (IF TaxRateMismatch(text) THEN {"ARITH_TAX_RATE_MISMATCH"} ELSE {})

-----------------------------------------------------------------------------
(* _validate_extraction_pipeline.                                            *)

RequiredFields == {"vendor", "amount", "has_po"}

Given(answer) == {f \in DOMAIN answer : answer[f] # Absent}

Shapeless(answer) == \E f \in RequiredFields : answer[f] \in {Absent, Malformed}

Implausible(answer) ==
  \/ \E f \in RequiredFields : answer[f].value = Wrong
  \/ answer.amount.value \notin {None, NaN} /\ answer.amount.value < 0

OffSchema(answer) == \E f \in Given(answer) : answer[f] = Malformed \/ answer[f].evidence = None

(* Mutant: the sums are not added up.                                       *)
VerdictWithoutSums(answer, text, near) ==
  IF Shapeless(answer) THEN [ran |-> FALSE, codes |-> {"STRUCT"}]
  ELSE IF Implausible(answer) THEN [ran |-> FALSE, codes |-> {"SEM"}]
  ELSE IF OffSchema(answer) THEN [ran |-> FALSE, codes |-> {"SCHEMA_EXTRACTION_INVALID"}]
  ELSE [ran |-> TRUE, codes |-> VerifierCodes(answer, text, near)]

(* ran: whether the verifier was reached, so that there is a provenance.     *)
Verdict(answer, text, near) ==
  IF Shapeless(answer) THEN [ran |-> FALSE, codes |-> {"STRUCT"}]
  ELSE IF Implausible(answer) THEN [ran |-> FALSE, codes |-> {"SEM"}]
  ELSE IF OffSchema(answer) THEN [ran |-> FALSE, codes |-> {"SCHEMA_EXTRACTION_INVALID"}]
  ELSE [ran |-> TRUE, codes |-> VerifierCodes(answer, text, near) \cup ArithmeticCodes(text)]
=============================================================================
