--------------------------- MODULE ExtractionProofs ---------------------------
(***************************************************************************)
(* What an extraction leaves behind, for every set of texts, every answer  *)
(* of the model and of the critic, and every lexicon.                      *)
(***************************************************************************)
EXTENDS Extraction, TLAPS

Fields == {"status", "vendor", "amount", "has_po", "invoice_date", "tax_amount",
           "failure_codes", "provenance", "retry_count", "extraction"}

IsDocument(d) == d = [f \in Fields |-> d[f]]

Accepted(v) == v.ran /\ v.codes = {}

(* A piece of evidence, and an answer all of whose fields have one.          *)
Evidence == Seq(DOMAIN Lexicon)

(* VerifiedFieldsCurrent is not inductive: what a critic's answer leaves     *)
(* standing depends on what the refused first answer wrote.                 *)
IInv ==
  /\ IsDocument(doc) /\ text \in Texts
  /\ stage # "done" => ~Verified
  /\ stage # "done" /\ ~debug => \A f \in OptionalFields : doc[f] = Default(f)
  /\ VerifiedFieldsCurrent
  /\ RefusedSumsStayRefused
  /\ VerifiedFromText
  /\ FaithfulAnswerAccepted

-----------------------------------------------------------------------------
(* What the checks have seen of an answer that reached the verifier.         *)

LEMMA RanShape ==
  ASSUME text \in Texts, NEW answer \in Answered(text) \cup {Failed},
         NEW v \in Verdicts(answer), v.ran
  PROVE  /\ answer \in Answered(text)
         /\ \A f \in RequiredFields : answer[f] \notin {Absent, Malformed} /\ answer[f].evidence \in Evidence
         /\ \A f \in OptionalFields : answer[f] = Absent \/ answer[f].evidence \in Evidence
         /\ \E near \in BOOLEAN : v.codes = VerifierCodes(answer, text, near) \cup ArithmeticCodes(text)
         /\ answer.amount.value \in Money \cup {NaN, None}
         /\ answer.has_po.value \in BOOLEAN \cup {None}
<1>1. answer # Failed
  BY DEF Verdicts
<1>2. PICK near \in BOOLEAN : v = Verdict(answer, text, near)
  BY <1>1 DEF Verdicts
<1>3. ~Shapeless(answer) /\ ~Implausible(answer) /\ ~OffSchema(answer)
  BY <1>2 DEF Verdict
<1>4. v.codes = VerifierCodes(answer, text, near) \cup ArithmeticCodes(text)
  BY <1>2, <1>3 DEF Verdict
<1>5. answer \in Answered(text)
  BY <1>1
<1>6. DOMAIN answer = RequiredFields \cup OptionalFields
  BY <1>5, AnswersTyped
<1>7. \A f \in RequiredFields : answer[f] \notin {Absent, Malformed}
  BY <1>3 DEF Shapeless
<1>8. \A f \in DOMAIN answer : answer[f] # Absent => answer[f] # Malformed /\ answer[f].evidence # None
  BY <1>3 DEF OffSchema, Given
<1>9. \A f \in DOMAIN answer :
        answer[f] \in {Absent, Malformed} \/ answer[f].evidence \in Evidence \cup {None}
  BY <1>5, AnswersTyped DEF Evidence
<1>10. answer.amount.value \in Money \cup {NaN, None}
  <2>1. answer.amount.value \in Money \cup {NaN, None, Wrong} \cup {n \in Int : n < 0}
    BY <1>5, <1>7, AnswersTyped DEF RequiredFields
  <2>2. answer.amount.value # Wrong
    BY <1>3 DEF Implausible, RequiredFields
  <2>3. answer.amount.value \in {None, NaN} \/ ~(answer.amount.value < 0)
    BY <1>3 DEF Implausible
  <2>. QED BY <2>1, <2>2, <2>3
<1>11. answer.has_po.value \in BOOLEAN \cup {None}
  <2>1. answer.has_po.value \in BOOLEAN \cup {None, Wrong}
    BY <1>5, <1>7, AnswersTyped DEF RequiredFields
  <2>2. answer.has_po.value # Wrong
    BY <1>3 DEF Implausible, RequiredFields
  <2>. QED BY <2>1, <2>2
<1>. QED BY <1>4, <1>5, <1>6, <1>7, <1>8, <1>9, <1>10, <1>11

(* Every word of grounded evidence is shown by the text.                    *)
LEMMA GroundedShown ==
  ASSUME text \in Texts, NEW ev \in Evidence, Grounded(ev, text), NEW i \in DOMAIN ev
  PROVE  ev[i] \in Shown
<1>1. PICK k \in 0..Len(text) : FoundAt(ev, text, k)
  BY DEF Grounded, Places
<1>2. text \in Seq(DOMAIN Lexicon)
  BY AnswersTyped
<1>3. k + i \in DOMAIN text
  BY <1>1, <1>2 DEF FoundAt, Evidence
<1>4. text[k + i] \in ToSet(text)
  BY <1>3 DEF ToSet
<1>5. ev[i] = text[k + i] \/ <<ev[i], text[k + i]>> \in Tails \cup Heads
  BY <1>1 DEF FoundAt
<1>6. CASE ev[i] = text[k + i]
  BY <1>4, <1>6 DEF Shown
<1>7. CASE <<ev[i], text[k + i]>> \in Tails \cup Heads
  <2>. DEFINE c == <<ev[i], text[k + i]>>
  <2>1. c \in {p \in Tails \cup Heads : p[2] \in ToSet(text)} /\ c[1] = ev[i]
    BY <1>4, <1>7
  <2>. QED BY <2>1 DEF Shown
<1>. QED BY <1>5, <1>6, <1>7

(* A value within a cent of a number of grounded evidence is in the text.   *)
LEMMA AgreedInText ==
  ASSUME text \in Texts, NEW ev \in Evidence, Grounded(ev, text),
         NEW n \in Numbers(ev), NEW value, NEW near, Agree(value, n[1], near)
  PROVE  InText(value)
<1>1. PICK i \in DOMAIN ev : \E j \in DOMAIN Lexicon[ev[i]].numbers :
        n = <<Lexicon[ev[i]].numbers[j], i, j>>
  BY DEF Numbers
<1>2. PICK j \in DOMAIN Lexicon[ev[i]].numbers : n = <<Lexicon[ev[i]].numbers[j], i, j>>
  BY <1>1
<1>3. ev[i] \in Shown
  BY GroundedShown
<1>4. ev[i] \in DOMAIN Lexicon
  BY DEF Evidence
<1>5. n[1] \in ToSet(Lexicon[ev[i]].numbers)
  BY <1>2 DEF ToSet
<1>6. n[1] \in Nat
  BY <1>2, <1>4, LexiconTyped
<1>7. value = NaN \/ value - n[1] \in {-1, 0, 1}
  BY <1>6 DEF Agree
<1>. QED BY <1>3, <1>5, <1>7 DEF InText

LEMMA AmountFromText ==
  ASSUME text \in Texts, NEW f, f.evidence \in Evidence, NEW near,
         AmountCodes(f, text, near) = {}
  PROVE  f.value # None /\ InText(f.value)
<1>. DEFINE numbers == Numbers(f.evidence)
            chosen == IF Single(numbers) THEN numbers ELSE Singled(f.evidence)
<1>1. f.value # None /\ Grounded(f.evidence, text) /\ \E n \in chosen : Agree(f.value, n[1], near)
  BY DEF AmountCodes
<1>2. chosen \subseteq numbers
  BY DEF Singled
<1>. QED BY <1>1, <1>2, AgreedInText

LEMMA PoFromText ==
  ASSUME text \in Texts, NEW f, f.evidence \in Evidence, HasPoCodes(f, text) = {}
  PROVE  f.value # None /\ (f.value => \E w \in Shown : Lexicon[w].po)
<1>1. f.value # None
  BY DEF HasPoCodes
<1>2. ASSUME f.value PROVE Grounded(f.evidence, text) /\ PoWordNear(f.evidence, text)
  BY <1>2 DEF HasPoCodes
<1>3. ASSUME f.value PROVE \E w \in Shown : Lexicon[w].po
  <2>1. CASE \E i \in DOMAIN f.evidence : Lexicon[f.evidence[i]].po
    BY <1>2, <1>3, <2>1, GroundedShown
  <2>2. CASE \E i \in DOMAIN text : Lexicon[text[i]].po
    BY <2>2 DEF Shown, ToSet
  <2>. QED BY <1>2, <1>3, <2>1, <2>2 DEF PoWordNear
<1>. QED BY <1>1, <1>3

LEMMA DateFromText ==
  ASSUME text \in Texts, NEW f, f.evidence \in Evidence, DateCodes(f, text) = {}
  PROVE  \E w \in Shown : Lexicon[w].date = Lexicon[f.value].date
<1>. DEFINE claimed == IF Lexicon[f.value].date = NoDate THEN "DATE_PARSE_FAILED" ELSE Lexicon[f.value].date
            dates == {Lexicon[f.evidence[i]].date : i \in DOMAIN f.evidence} \ {NoDate, "DATE_PARSE_FAILED"}
<1>1. Grounded(f.evidence, text) /\ claimed \notin Failures /\ claimed = EvidencedDate(f.evidence)
  BY DEF DateCodes
<1>2. claimed = Lexicon[f.value].date
  BY <1>1 DEF Failures
<1>3. EvidencedDate(f.evidence) \in dates
  <2>1. EvidencedDate(f.evidence) \notin Failures
    BY <1>1
  <2>2. EvidencedDate(f.evidence) = CHOOSE d \in dates : TRUE
    BY <2>1 DEF EvidencedDate, Failures
  <2>3. dates # {}
    BY <2>1 DEF EvidencedDate, Failures
  <2>. QED BY <2>2, <2>3
<1>4. PICK i \in DOMAIN f.evidence : Lexicon[f.evidence[i]].date = claimed
  BY <1>1, <1>3
<1>. QED BY <1>1, <1>2, <1>4, GroundedShown

LEMMA TaxFromText ==
  ASSUME text \in Texts, NEW f, f.evidence \in Evidence, NEW near,
         TaxCodes(f, text, near) = {}
  PROVE  InText(f.value)
<1>1. Grounded(f.evidence, text) /\ \E v \in TaxValues(f.evidence) : Agree(f.value, v, near)
  BY DEF TaxCodes
<1>2. \E n \in Numbers(f.evidence) : Agree(f.value, n[1], near)
  BY <1>1 DEF TaxValues
<1>. QED BY <1>1, <1>2, AgreedInText

(* So every field of an accepted answer is.                                 *)
LEMMA AcceptedFromText ==
  ASSUME text \in Texts, NEW answer \in Answered(text) \cup {Failed},
         NEW v \in Verdicts(answer), Accepted(v)
  PROVE  /\ answer.amount.value # None /\ InText(answer.amount.value)
         /\ answer.has_po.value # None
         /\ answer.has_po.value => \E w \in Shown : Lexicon[w].po
         /\ answer.tax_amount # Absent => InText(answer.tax_amount.value)
         /\ answer.invoice_date # Absent =>
              \E w \in Shown : Lexicon[w].date = Lexicon[answer.invoice_date.value].date
<1>. v.ran /\ v.codes = {}
  BY DEF Accepted
<1>1. PICK near \in BOOLEAN : VerifierCodes(answer, text, near) = {}
  BY RanShape
<1>2. answer.amount.evidence \in Evidence /\ answer.has_po.evidence \in Evidence
  BY RanShape DEF RequiredFields
<1>3. \A f \in OptionalFields : answer[f] # Absent => answer[f].evidence \in Evidence
  BY RanShape
<1>4. AmountCodes(answer.amount, text, near) = {} /\ HasPoCodes(answer.has_po, text) = {}
  BY <1>1 DEF VerifierCodes
<1>5. answer.tax_amount # Absent => TaxCodes(answer.tax_amount, text, near) = {}
  BY <1>1 DEF VerifierCodes
<1>6. answer.invoice_date # Absent => DateCodes(answer.invoice_date, text) = {}
  BY <1>1 DEF VerifierCodes
<1>. QED BY <1>2, <1>3, <1>4, <1>5, <1>6, AmountFromText, PoFromText, TaxFromText, DateFromText
         DEF OptionalFields

-----------------------------------------------------------------------------
(* What the checks do not refuse.                                            *)

(* Words of the text are found in it.                                       *)
LEMMA QuotedIsGrounded ==
  ASSUME text \in Texts, NEW k \in DOMAIN text
  PROVE  /\ Grounded(<<text[k]>>, text)
         /\ k + 1 \in DOMAIN text => Grounded(<<text[k], text[k + 1]>>, text)
<1>1. text \in Seq(DOMAIN Lexicon)
  BY AnswersTyped
<1>2. k \in Nat /\ k - 1 \in 0..Len(text) /\ k <= Len(text) /\ (k + 1 \in DOMAIN text => k + 1 <= Len(text))
      /\ (k - 1) + 1 = k /\ (k - 1) + 2 = k + 1
  BY <1>1
<1>3. ASSUME NEW ev, ev = <<text[k]>> PROVE FoundAt(ev, text, k - 1)
  <2>1. Len(ev) = 1 /\ DOMAIN ev = {1} /\ ev[1] = text[(k - 1) + 1]
    BY <1>2, <1>3
  <2>. QED BY <1>2, <2>1 DEF FoundAt
<1>4. ASSUME NEW ev, ev = <<text[k], text[k + 1]>>, k + 1 \in DOMAIN text PROVE FoundAt(ev, text, k - 1)
  <2>1. Len(ev) = 2 /\ DOMAIN ev = {1, 2} /\ ev[1] = text[(k - 1) + 1] /\ ev[2] = text[(k - 1) + 2]
    BY <1>2, <1>4
  <2>. QED BY <1>2, <1>4, <2>1 DEF FoundAt
<1>. QED BY <1>2, <1>3, <1>4 DEF Grounded, Places

(* A field that says what stands beside its label.                          *)
LEMMA BesideRead ==
  ASSUME text \in Texts, NEW f, NEW label \in {"total", "tax"}, f # Absent, Beside(f, label)
  PROVE  /\ f.evidence = <<label, f.evidence[2]>> /\ f.evidence \in Evidence
         /\ Grounded(f.evidence, text)
         /\ f.value \in Nat /\ Numbers(f.evidence) = {<<f.value, 2, 1>>}
         /\ label \in DOMAIN Lexicon
<1>1. text \in Seq(DOMAIN Lexicon)
  BY AnswersTyped
<1>2. PICK k \in 1..Len(text) - 1 : SubSeq(text, k, k + 1) = f.evidence
  BY DEF Beside
<1>3. k \in DOMAIN text /\ k + 1 \in DOMAIN text
  <2>1. \A l \in Nat : \A j \in 1..l - 1 : j \in 1..l /\ j + 1 \in 1..l
    OBVIOUS
  <2>. QED BY <1>1, <2>1
<1>a. SubSeq(text, k, k + 1) = <<text[k], text[k + 1]>>
  <2>. DEFINE s == SubSeq(text, k, k + 1)
  <2>1. Len(s) = 2 /\ s[1] = text[k] /\ s[2] = text[k + 1] /\ s \in Seq(DOMAIN Lexicon)
    BY <1>1, <1>3
  <2>. HIDE DEF s
  <2>2. s = <<s[1], s[2]>>
    BY <2>1
  <2>3. s = <<text[k], text[k + 1]>>
    BY <2>1, <2>2
  <2>. QED BY <2>3 DEF s
<1>4. f.evidence = <<label, text[k + 1]>> /\ text[k] = label /\ Lexicon[text[k + 1]].numbers = <<f.value>>
  <2>1. f.evidence = <<text[k], text[k + 1]>> /\ f.evidence[1] = text[k] /\ f.evidence[2] = text[k + 1]
    BY <1>2, <1>a
  <2>2. f.evidence[1] = label /\ Lexicon[f.evidence[2]].numbers = <<f.value>>
    BY DEF Beside
  <2>. QED BY <2>1, <2>2
<1>5. label \in DOMAIN Lexicon /\ text[k + 1] \in DOMAIN Lexicon
  BY <1>1, <1>3, <1>4
<1>6. f.value \in Nat
  <2>1. <<f.value>> \in Seq(Nat)
    BY <1>4, <1>5, LexiconTyped
  <2>. QED BY <2>1
<1>7. Lexicon[label].numbers = <<>>
  BY <1>5, LabelsAreKeywords
<1>8. Numbers(<<label, text[k + 1]>>) = {<<f.value, 2, 1>>}
  <2>. DEFINE ev == <<label, text[k + 1]>>
              none == Lexicon[ev[1]].numbers
              one == Lexicon[ev[2]].numbers
  <2>1. DOMAIN ev = {1, 2} /\ ev[1] = label /\ ev[2] = text[k + 1]
    OBVIOUS
  <2>2. none = <<>> /\ one = <<f.value>>
    BY <1>4, <1>7, <2>1
  <2>3. DOMAIN none = {} /\ DOMAIN one = {1} /\ one[1] = f.value
    BY <2>2
  <2>4. Numbers(ev) = {<<Lexicon[ev[1]].numbers[j], 1, j>> : j \in DOMAIN none}
                      \cup {<<Lexicon[ev[2]].numbers[j], 2, j>> : j \in DOMAIN one}
    BY <2>1 DEF Numbers
  <2>. QED BY <2>3, <2>4
<1>9. f.evidence[2] = text[k + 1] /\ <<label, text[k + 1]>> \in Evidence
  BY <1>4, <1>5 DEF Evidence
<1>10. Grounded(<<label, text[k + 1]>>, text)
  BY <1>3, <1>4, QuotedIsGrounded
<1>. QED BY <1>4, <1>5, <1>6, <1>8, <1>9, <1>10

(* No check has anything against a faithful answer, but the arithmetic one. *)
LEMMA FaithfulVendor ==
  ASSUME text \in Texts, NEW f, f.evidence = <<f.value>>, f.value \in ToSet(text)
  PROVE  VendorCodes(f, text) = {} /\ f.value \notin {None, Wrong} /\ f.evidence \in Evidence
<1>1. text \in Seq(DOMAIN Lexicon)
  BY AnswersTyped
<1>2. PICK k \in DOMAIN text : f.value = text[k]
  BY DEF ToSet
<1>3. f.value \in DOMAIN Lexicon
  BY <1>1, <1>2
<1>4. f.value \notin {None, Wrong}
  BY <1>3, NoValues
<1>5. Grounded(f.evidence, text) /\ f.evidence # <<>>
  <2>1. Grounded(<<text[k]>>, text)
    BY QuotedIsGrounded
  <2>. QED BY <1>2, <2>1
<1>6. 1 \in DOMAIN f.evidence /\ f.evidence[1] = f.value
  OBVIOUS
<1>. QED BY <1>3, <1>4, <1>5, <1>6 DEF VendorCodes, Evidence

LEMMA FaithfulAmount ==
  ASSUME text \in Texts, NEW f, f # Absent, Beside(f, "total"), NEW near
  PROVE  AmountCodes(f, text, near) = {} /\ f.value \in Nat /\ f.evidence \in Evidence
<1>. DEFINE n == <<f.value, 2, 1>>
<1>1. /\ f.value \in Nat /\ Grounded(f.evidence, text) /\ Numbers(f.evidence) = {n}
      /\ f.evidence # <<>> /\ f.evidence \in Evidence
  BY BesideRead
<1>2. f.value # None
  BY <1>1, NoValues
<1>3. Single(Numbers(f.evidence)) /\ n[1] = f.value
  BY <1>1 DEF Single
<1>4. Agree(f.value, n[1], near)
  BY <1>3 DEF Agree
<1>. HIDE DEF n
<1>. QED BY <1>1, <1>2, <1>3, <1>4 DEF AmountCodes

LEMMA FaithfulTax ==
  ASSUME text \in Texts, NEW f, f # Absent, Beside(f, "tax"), NEW near
  PROVE  TaxCodes(f, text, near) = {} /\ f.evidence \in Evidence
<1>. DEFINE n == <<f.value, 2, 1>>
<1>1. /\ f.value \in Nat /\ Grounded(f.evidence, text) /\ Numbers(f.evidence) = {n}
      /\ f.evidence # <<>> /\ f.evidence \in Evidence /\ f.evidence = <<"tax", f.evidence[2]>>
      /\ "tax" \in DOMAIN Lexicon
  BY BesideRead
<1>2. f.value \notin {None, Wrong}
  BY <1>1, NoValues
<1>3. 1 \in DOMAIN f.evidence /\ TaxAnchor(f.evidence[1])
  BY <1>1, LabelsAreKeywords
<1>4. n[1] = f.value /\ n[2] = 2 /\ n[3] = 1
  OBVIOUS
<1>5. TaxWindow \in Nat
  BY LexiconTyped
<1>. HIDE DEF n
<1>6. TaxValues(f.evidence) = {f.value}
  <2>1. /\ 1 < n[2] /\ n[2] <= 1 + 1 + TaxWindow
        /\ \A k \in (1 + 1)..(n[2] - 1) : Lexicon[f.evidence[k]].numbers = <<>>
    BY <1>4, <1>5
  <2>. QED BY <1>1, <1>3, <1>4, <2>1 DEF TaxValues
<1>7. Single(TaxValues(f.evidence)) /\ Agree(f.value, f.value, near)
  BY <1>6 DEF Single, Agree
<1>. QED BY <1>1, <1>2, <1>3, <1>6, <1>7 DEF TaxCodes

LEMMA FaithfulPo ==
  ASSUME text \in Texts, NEW f,
         \/ f = [value |-> FALSE, evidence |-> <<>>]
         \/ f = [value |-> TRUE, evidence |-> <<"po">>] /\ "po" \in ToSet(text)
  PROVE  HasPoCodes(f, text) = {} /\ f.value \in BOOLEAN /\ f.evidence \in Evidence
<1>1. text \in Seq(DOMAIN Lexicon)
  BY AnswersTyped
<1>2. CASE f = [value |-> FALSE, evidence |-> <<>>]
  <2>1. ~f.value /\ f.value \in BOOLEAN /\ f.evidence = <<>>
    BY <1>2
  <2>2. f.value # None
    BY <2>1, NoValues
  <2>3. f.evidence \in Evidence
    BY <2>1 DEF Evidence
  <2>. QED BY <2>1, <2>2, <2>3 DEF HasPoCodes
<1>3. CASE f = [value |-> TRUE, evidence |-> <<"po">>] /\ "po" \in ToSet(text)
  <2>1. f.value = TRUE /\ f.evidence = <<"po">> /\ TRUE # None
    BY <1>3, NoValues
  <2>2. PICK k \in DOMAIN text : text[k] = "po"
    BY <1>3 DEF ToSet
  <2>3. Grounded(f.evidence, text) /\ "po" \in DOMAIN Lexicon
    <3>1. Grounded(<<text[k]>>, text)
      BY QuotedIsGrounded
    <3>2. text[k] \in DOMAIN Lexicon
      BY <1>1
    <3>. QED BY <2>1, <2>2, <3>1, <3>2
  <2>4. PoWordNear(f.evidence, text)
    <3>1. 1 \in DOMAIN f.evidence /\ Lexicon[f.evidence[1]].po
      BY <2>1, <2>3, LabelsAreKeywords
    <3>. QED BY <3>1 DEF PoWordNear
  <2>5. f.evidence # <<>> /\ f.evidence \in Evidence
    BY <2>1, <2>3 DEF Evidence
  <2>. QED BY <2>1, <2>3, <2>4, <2>5 DEF HasPoCodes
<1>. QED BY <1>2, <1>3

LEMMA FaithfulVerdict ==
  ASSUME text \in Texts, NEW answer \in Answered(text), Faithful(answer),
         ArithmeticCodes(text) = {}, NEW near \in BOOLEAN
  PROVE  Accepted(Verdict(answer, text, near))
<1>1. DOMAIN answer = RequiredFields \cup OptionalFields
  BY AnswersTyped
<1>2. \A f \in DOMAIN answer : answer[f] # Malformed /\ (f \in RequiredFields => answer[f] # Absent)
  BY DEF Faithful
<1>3. VendorCodes(answer.vendor, text) = {} /\ answer.vendor.value # Wrong /\ answer.vendor.evidence \in Evidence
  BY FaithfulVendor DEF Faithful
<1>4. answer.amount # Absent
  BY <1>1, <1>2 DEF RequiredFields
<1>5. AmountCodes(answer.amount, text, near) = {} /\ answer.amount.value \in Nat /\ answer.amount.evidence \in Evidence
  BY <1>4, FaithfulAmount DEF Faithful
<1>6. HasPoCodes(answer.has_po, text) = {} /\ answer.has_po.value \in BOOLEAN /\ answer.has_po.evidence \in Evidence
  BY FaithfulPo DEF Faithful
<1>7. answer.tax_amount # Absent =>
        TaxCodes(answer.tax_amount, text, near) = {} /\ answer.tax_amount.evidence \in Evidence
  BY FaithfulTax DEF Faithful
<1>8. answer.invoice_date = Absent
  BY DEF Faithful
<1>9. VerifierCodes(answer, text, near) = {}
  BY <1>3, <1>5, <1>6, <1>7, <1>8 DEF VerifierCodes
<1>10. ~Shapeless(answer)
  BY <1>1, <1>2 DEF Shapeless
<1>11. ~Implausible(answer)
  <2>1. answer.amount.value # Wrong /\ answer.has_po.value # Wrong
    BY <1>5, <1>6, NoValues
  <2>2. ~(answer.amount.value < 0)
    BY <1>5
  <2>. QED BY <1>3, <2>1, <2>2 DEF Implausible, RequiredFields
<1>12. ~OffSchema(answer)
  <2>1. \A f \in Given(answer) : answer[f].evidence \in Evidence
    BY <1>1, <1>3, <1>5, <1>6, <1>7, <1>8 DEF Given, RequiredFields, OptionalFields
  <2>2. None \notin Evidence
    BY NoValues DEF Evidence
  <2>. QED BY <1>2, <2>1, <2>2 DEF OffSchema, Given
<1>. QED BY <1>9, <1>10, <1>11, <1>12 DEF Verdict, Accepted

-----------------------------------------------------------------------------
(* The document an answer leaves.                                            *)

(* Only an accepted answer makes a document verified.                       *)
LEMMA AfterStatus ==
  ASSUME NEW d, IsDocument(d), NEW answer, NEW v,
         NEW failed \in {"NEEDS_RETRY", "BAD_EXTRACTION"}
  PROVE  /\ IsDocument(After(d, answer, v, failed))
         /\ After(d, answer, v, failed).extraction = answer
         /\ After(d, answer, v, failed).status = "DATA_EXTRACTED" <=> Accepted(v)
<1>1. IsDocument(Written(d, answer, v))
  BY DEF Written, Promoted, Leaked, IsDocument, Fields
<1>2. After(d, answer, v, failed).status
        = IF ~v.ran THEN "BAD_EXTRACTION" ELSE IF v.codes = {} THEN "DATA_EXTRACTED" ELSE failed
  BY <1>1 DEF After, IsDocument, Fields
<1>3. IsDocument(After(d, answer, v, failed)) /\ After(d, answer, v, failed).extraction = answer
  BY <1>1 DEF After, IsDocument, Fields
<1> QED
  BY <1>2, <1>3 DEF Accepted

(* What an accepted answer writes, and that a refused one writes nothing    *)
(* outside debug mode.                                                      *)
LEMMA AfterFields ==
  ASSUME NEW d, IsDocument(d), NEW answer, NEW v, NEW failed
  PROVE  /\ Accepted(v) =>
              /\ \A f \in RequiredFields : After(d, answer, v, failed)[f] = answer[f].value
              /\ \A f \in OptionalFields : After(d, answer, v, failed)[f] = Kept(d, answer, f)
         /\ ~Accepted(v) /\ ~debug =>
              \A f \in OptionalFields : After(d, answer, v, failed)[f] = d[f]
<1>1. IsDocument(Written(d, answer, v))
  BY DEF Written, Promoted, Leaked, IsDocument, Fields
<1>2. \A f \in RequiredFields \cup OptionalFields :
        After(d, answer, v, failed)[f] = Written(d, answer, v)[f]
  BY <1>1 DEF After, IsDocument, Fields, RequiredFields, OptionalFields
<1>3. CASE Accepted(v)
  <2>1. Written(d, answer, v) = Promoted(d, answer)
    BY <1>3 DEF Written, Accepted
  <2>2. /\ \A f \in RequiredFields : Promoted(d, answer)[f] = answer[f].value
        /\ \A f \in OptionalFields : Promoted(d, answer)[f] = Kept(d, answer, f)
    BY DEF Promoted, IsDocument, Fields, RequiredFields, OptionalFields
  <2> QED
    BY <1>2, <1>3, <2>1, <2>2
<1>4. CASE ~Accepted(v)
  BY <1>2, <1>4 DEF Written, Accepted
<1> QED
  BY <1>3, <1>4

LEMMA Initially == Init => IInv
<1> SUFFICES ASSUME Init PROVE IInv
  OBVIOUS
<1>1. IsDocument(doc)
  BY DEF Init, IsDocument, Fields
<1>2. ~Verified
  BY DEF Init, Verified
<1>3. \A f \in OptionalFields : doc[f] = Default(f)
  <2>1. doc.invoice_date = "" /\ doc.tax_amount = 0
    BY DEF Init
  <2> QED
    BY <2>1 DEF OptionalFields, Default
<1>4. doc.extraction = None /\ text \in Texts
  BY DEF Init
<1> QED
  BY <1>1, <1>2, <1>3, <1>4
     DEF IInv, VerifiedFieldsCurrent, RefusedSumsStayRefused, VerifiedFromText, FaithfulAnswerAccepted

(* Either handler, from any document that IInv allows.                      *)
LEMMA AnswerKeepsFields ==
  ASSUME IInv, stage # "done",
         NEW answer \in Answered(text) \cup {Failed}, NEW v \in Verdicts(answer),
         NEW failed \in {"NEEDS_RETRY", "BAD_EXTRACTION"},
         text' = text, debug' = debug,
         IsDocument(doc'),
         doc'.extraction = answer,
         doc'.status = After(doc, answer, v, failed).status,
         \A f \in RequiredFields \cup OptionalFields : doc'[f] = After(doc, answer, v, failed)[f]
  PROVE  /\ VerifiedFieldsCurrent'
         /\ RefusedSumsStayRefused'
         /\ VerifiedFromText'
         /\ FaithfulAnswerAccepted'
         /\ ~Verified' /\ ~debug => \A f \in OptionalFields : doc'[f] = Default(f)
<1>1. Verified' <=> Accepted(v)
  BY AfterStatus DEF Verified, IInv
<1>2. CASE Accepted(v)
  <2>1. ArithmeticCodes(text) = {}
    BY <1>2, RanShape DEF Accepted, IInv
  <2>2. \A f \in RequiredFields : doc'[f] = answer[f].value
    BY <1>2, AfterFields DEF IInv
  <2>3. \A f \in OptionalFields : doc'[f] = Kept(doc, answer, f)
    BY <1>2, AfterFields DEF IInv
  <2>4. ~debug => \A f \in OptionalFields :
                    doc'[f] = IF answer[f] = Absent THEN Default(f) ELSE answer[f].value
    BY <2>3 DEF Kept, IInv
  <2>5. VerifiedFieldsCurrent'
    BY <2>2, <2>4 DEF VerifiedFieldsCurrent, Verified
  <2>6. ArithmeticCodes(text)' = {}
    BY <2>1
  <2>7. VerifiedFromText'
    <3>1. /\ doc'.amount = answer.amount.value /\ doc'.has_po = answer.has_po.value
          /\ answer.tax_amount # Absent => doc'.tax_amount = answer.tax_amount.value
          /\ answer.invoice_date # Absent => doc'.invoice_date = answer.invoice_date.value
      BY <2>2, <2>3 DEF Kept, RequiredFields, OptionalFields
    <3>. QED BY <1>2, <3>1, AcceptedFromText DEF IInv, VerifiedFromText, InText, Shown
  <2>8. FaithfulAnswerAccepted'
    BY <1>1, <1>2 DEF FaithfulAnswerAccepted
  <2> QED
    BY <1>1, <1>2, <2>5, <2>6, <2>7, <2>8 DEF RefusedSumsStayRefused
<1>3. CASE ~Accepted(v)
  <2>1. ~debug => \A f \in OptionalFields : doc'[f] = Default(f)
    BY <1>3, AfterFields DEF IInv
  <2>2. FaithfulAnswerAccepted'
    <3>1. SUFFICES ASSUME answer # Failed, Faithful(answer), ArithmeticCodes(text) = {} PROVE FALSE
      BY DEF FaithfulAnswerAccepted, Faithful, Beside
    <3>2. PICK near \in BOOLEAN : v = Verdict(answer, text, near)
      BY <3>1 DEF Verdicts
    <3>. QED BY <1>3, <3>1, <3>2, FaithfulVerdict DEF IInv
  <2> QED
    BY <1>1, <1>3, <2>1, <2>2 DEF VerifiedFieldsCurrent, RefusedSumsStayRefused, VerifiedFromText
<1> QED
  BY <1>2, <1>3

LEMMA EnterRecordStep ==
  ASSUME IInv, EnterRecord
  PROVE  IInv'
<1> DEFINE failed == IF doc.retry_count = 0 THEN "NEEDS_RETRY" ELSE "BAD_EXTRACTION"
<1>1. PICK answer \in Answers(text) \cup {Failed} : \E v \in Verdicts(answer) :
        doc' = After(doc, answer, v, failed)
  BY DEF EnterRecord
<1>a. PICK v \in Verdicts(answer) : doc' = After(doc, answer, v, failed)
  BY <1>1
<1>2. /\ stage # "done" /\ text' = text /\ debug' = debug
      /\ stage' = IF doc'.status = "NEEDS_RETRY" THEN "critic" ELSE "done"
  BY DEF EnterRecord
<1>3. failed \in {"NEEDS_RETRY", "BAD_EXTRACTION"}
  OBVIOUS
<1>4. IsDocument(doc') /\ doc'.extraction = answer
  BY <1>a, <1>3, AfterStatus DEF IInv
<1>5. /\ VerifiedFieldsCurrent' /\ RefusedSumsStayRefused'
      /\ VerifiedFromText' /\ FaithfulAnswerAccepted'
      /\ ~Verified' /\ ~debug => \A f \in OptionalFields : doc'[f] = Default(f)
  <2> HIDE DEF failed
  <2>1. answer \in Answered(text) \cup {Failed}
    BY DEF Answered
  <2> QED
    BY <2>1, <1>a, <1>2, <1>3, <1>4, AnswerKeepsFields
<1>6. stage' # "done" => ~Verified'
  BY <1>2 DEF Verified
<1> QED
  BY <1>2, <1>4, <1>5, <1>6 DEF IInv, IsDocument

LEMMA CriticRetryStep ==
  ASSUME IInv, CriticRetry
  PROVE  IInv'
<1>1. PICK answer \in Corrections(text) \cup {Failed} : \E v \in Verdicts(answer) :
        doc' = [After(doc, answer, v, "BAD_EXTRACTION") EXCEPT !.retry_count = doc.retry_count + 1]
  BY DEF CriticRetry
<1>a. PICK v \in Verdicts(answer) :
        doc' = [After(doc, answer, v, "BAD_EXTRACTION") EXCEPT !.retry_count = doc.retry_count + 1]
  BY <1>1
<1>2. stage # "done" /\ stage' = "done" /\ text' = text /\ debug' = debug
  BY DEF CriticRetry
<1>3. /\ IsDocument(After(doc, answer, v, "BAD_EXTRACTION"))
      /\ After(doc, answer, v, "BAD_EXTRACTION").extraction = answer
  BY AfterStatus DEF IInv
<1>4. /\ IsDocument(doc') /\ doc'.extraction = answer
      /\ doc'.status = After(doc, answer, v, "BAD_EXTRACTION").status
      /\ \A f \in RequiredFields \cup OptionalFields :
           doc'[f] = After(doc, answer, v, "BAD_EXTRACTION")[f]
  BY <1>a, <1>3 DEF IsDocument, Fields, RequiredFields, OptionalFields
<1>5. VerifiedFieldsCurrent' /\ RefusedSumsStayRefused' /\ VerifiedFromText' /\ FaithfulAnswerAccepted'
  <2>1. answer \in Answered(text) \cup {Failed}
    BY DEF Answered
  <2>. QED BY <2>1, <1>2, <1>4, AnswerKeepsFields
<1> QED
  BY <1>2, <1>4, <1>5 DEF IInv, IsDocument

LEMMA InvariantHolds == Spec => []IInv
<1>1. IInv /\ [Next]_vars => IInv'
  <2> SUFFICES ASSUME IInv, [Next]_vars PROVE IInv'
    OBVIOUS
  <2>1. CASE EnterRecord
    BY <2>1, EnterRecordStep
  <2>2. CASE CriticRetry
    BY <2>2, CriticRetryStep
  <2>3. CASE UNCHANGED vars
    <3>1. UNCHANGED <<stage, text, debug, doc>>
      BY <2>3 DEF vars
    <3>2. VerifiedFromText'
      BY <3>1 DEF IInv, Verified, VerifiedFromText, InText, Shown
    <3>3. FaithfulAnswerAccepted'
      BY <3>1 DEF IInv, Verified, FaithfulAnswerAccepted, Faithful, Beside
    <3>. QED BY <3>1, <3>2, <3>3
             DEF IInv, IsDocument, Verified, VerifiedFieldsCurrent, RefusedSumsStayRefused
  <2> QED
    BY <2>1, <2>2, <2>3 DEF Next
<1> QED
  BY Initially, <1>1, PTL DEF Spec

(* Every required field of a verified document, and outside debug mode every *)
(* optional one, is that of the accepted answer or its default: nothing of  *)
(* a refused first answer is left (execute_node, ENTER_RECORD and           *)
(* CRITIC_RETRY).                                                           *)
THEOREM FieldsAreCurrent == Spec => []VerifiedFieldsCurrent
BY InvariantHolds, PTL DEF IInv

(* A text whose sums check_arithmetic refuses never becomes a verified      *)
(* document, whatever the model and the critic answer.                      *)
THEOREM RefusedSumsAreFinal == Spec => []RefusedSumsStayRefused
BY InvariantHolds, PTL DEF IInv

(* Whatever the model claims as evidence, at first or as the critic's        *)
(* correction, the fields of a verified document can be pointed at in its   *)
(* text: the verifier's own checks suffice for it.                          *)
THEOREM VerifiedIsInText == Spec => []VerifiedFromText
BY InvariantHolds, PTL DEF IInv

(* The gates of _validate_extraction_pipeline agree: an answer that reads   *)
(* off what the text prints beside its labels passes all of them, on both   *)
(* attempts, unless the text's own sums are refused.                        *)
THEOREM FaithfulIsAccepted == Spec => []FaithfulAnswerAccepted
BY InvariantHolds, PTL DEF IInv
-----------------------------------------------------------------------------
(* The handlers implement those of AgentWorkflow.                            *)

(* An answer that did not reach the verifier has one code, of a gate before *)
(* it; none that did has the code of an LLM error.                          *)
LEMMA VerdictFamilies ==
  ASSUME text \in Texts, NEW answer \in Answered(text) \cup {Failed}, NEW v \in Verdicts(answer)
  PROVE  \/ ~v.ran /\ answer = Failed /\ v.codes = {"LLM_ERROR"}
         \/ ~v.ran /\ answer # Failed /\ v.codes \in {{"STRUCT"}, {"SEM"}, {"SCHEMA_EXTRACTION_INVALID"}}
         \/ v.ran /\ answer # Failed /\ "LLM_ERROR" \notin v.codes
<1>1. CASE answer = Failed
  BY <1>1 DEF Verdicts
<1>2. CASE answer # Failed
  <2>1. PICK near \in BOOLEAN : v = Verdict(answer, text, near)
    BY <1>2 DEF Verdicts
  <2>2. CASE Shapeless(answer) \/ Implausible(answer) \/ OffSchema(answer)
    BY <1>2, <2>1, <2>2 DEF Verdict
  <2>3. CASE ~Shapeless(answer) /\ ~Implausible(answer) /\ ~OffSchema(answer)
    <3>1. v.ran /\ v.codes = VerifierCodes(answer, text, near) \cup ArithmeticCodes(text)
      BY <2>1, <2>3 DEF Verdict
    <3>2. \A f : "LLM_ERROR" \notin VendorCodes(f, text)
      BY DEF VendorCodes
    <3>3. \A f : "LLM_ERROR" \notin AmountCodes(f, text, near)
      BY DEF AmountCodes
    <3>4. \A f : "LLM_ERROR" \notin HasPoCodes(f, text)
      BY DEF HasPoCodes
    <3>5. \A f : "LLM_ERROR" \notin DateCodes(f, text)
      BY DEF DateCodes, Failures
    <3>6. \A f : "LLM_ERROR" \notin TaxCodes(f, text, near)
      BY DEF TaxCodes
    <3>7. "LLM_ERROR" \notin ArithmeticCodes(text)
      BY DEF ArithmeticCodes
    <3>. QED BY <1>2, <3>1, <3>2, <3>3, <3>4, <3>5, <3>6, <3>7 DEF VerifierCodes
  <2>. QED BY <2>2, <2>3
<1>. QED BY <1>1, <1>2

(* What a handler writes, field by field.                                   *)
LEMMA FieldsWritten ==
  ASSUME IsDocument(doc), NEW answer, NEW v, NEW failed
  PROVE  LET a == After(doc, answer, v, failed)
         IN /\ IsDocument(a)
            /\ a.status = IF ~v.ran THEN "BAD_EXTRACTION" ELSE IF v.codes = {} THEN "DATA_EXTRACTED" ELSE failed
            /\ a.failure_codes = v.codes /\ a.provenance = Provenance(v)
            /\ \A f \in {"amount", "has_po"} :
                 a[f] = IF Accepted(v) THEN answer[f].value
                        ELSE IF v.ran /\ debug /\ f \in DOMAIN answer /\ Usable(answer, f)
                        THEN answer[f].value ELSE doc[f]
<1>1. IsDocument(Written(doc, answer, v))
  BY DEF Written, Promoted, Leaked, IsDocument, Fields
<1>2. \A f \in {"amount", "has_po"} :
        Written(doc, answer, v)[f] = IF Accepted(v) THEN answer[f].value
                                     ELSE IF v.ran /\ debug /\ f \in DOMAIN answer /\ Usable(answer, f)
                                     THEN answer[f].value ELSE doc[f]
  <2>1. Promoted(doc, answer).amount = answer.amount.value /\ Promoted(doc, answer).has_po = answer.has_po.value
    BY DEF Promoted, IsDocument, Fields
  <2>2. \A f \in {"amount", "has_po"} :
          Leaked(doc, answer)[f] = IF f \in DOMAIN answer /\ Usable(answer, f) THEN answer[f].value ELSE doc[f]
    BY DEF Leaked, IsDocument, Fields
  <2>. QED BY <2>1, <2>2 DEF Written, Accepted
<1>. QED BY <1>1, <1>2 DEF After, IsDocument, Fields

AgentFields ==
  {"status", "amount", "has_po", "po_match", "match_3_way", "match_result", "retry_count",
   "failure_codes", "provenance", "last_gateway"}

IsAgentDoc(d) == d = [f \in AgentFields |-> d[f]]

LEMMA SameAgentDoc ==
  ASSUME NEW d, NEW e, IsAgentDoc(d), IsAgentDoc(e), \A f \in AgentFields : d[f] = e[f]
  PROVE  d = e
BY DEF IsAgentDoc

(* Which fields AgentWorkflow's three outcomes write.                       *)
LEMMA RefusedFields ==
  ASSUME NEW d, IsAgentDoc(d), NEW family
  PROVE  LET e == Workflow!Refused(d, family)
         IN /\ IsAgentDoc(e)
            /\ e.status = "BAD_EXTRACTION" /\ e.failure_codes = family /\ e.provenance = "empty"
            /\ \A g \in AgentFields \ {"status", "failure_codes", "provenance"} : e[g] = d[g]
BY DEF IsAgentDoc, AgentFields, Workflow!Refused

LEMMA VerifiedFields ==
  ASSUME NEW d, IsAgentDoc(d), NEW x, NEW p
  PROVE  LET e == Workflow!Verified(d, x, p)
         IN /\ IsAgentDoc(e)
            /\ e.status = "DATA_EXTRACTED" /\ e.failure_codes = "none" /\ e.provenance = "passed" /\ e.amount = x /\ e.has_po = p
            /\ \A g \in AgentFields \ {"status", "failure_codes", "provenance", "amount", "has_po"} : e[g] = d[g]
BY DEF IsAgentDoc, AgentFields, Workflow!Verified

LEMMA UnverifiedFields ==
  ASSUME NEW d, IsAgentDoc(d), NEW f, NEW x, NEW p
  PROVE  LET e == Workflow!Unverified(d, f, x, p)
         IN /\ IsAgentDoc(e)
            /\ e.status = f /\ e.failure_codes = "VERIFIER" /\ e.provenance = "failed" /\ e.amount = x /\ e.has_po = p
            /\ \A g \in AgentFields \ {"status", "failure_codes", "provenance", "amount", "has_po"} : e[g] = d[g]
BY DEF IsAgentDoc, AgentFields, Workflow!Unverified

(* What the agent's document shows.                                         *)
AgentDocs ==
  /\ IsAgentDoc(AgentDoc)
  /\ AgentDoc.status = doc.status /\ AgentDoc.amount = doc.amount /\ AgentDoc.has_po = doc.has_po
  /\ AgentDoc.retry_count = doc.retry_count /\ AgentDoc.provenance = doc.provenance
  /\ AgentDoc.failure_codes = CodeFamily
  /\ AgentDoc.po_match = TRUE /\ AgentDoc.match_3_way = TRUE
  /\ AgentDoc.match_result = "UNKNOWN" /\ AgentDoc.last_gateway = ""

LEMMA AgentDocFields == AgentDocs
<1>1. IsAgentDoc(AgentDoc)
  BY Zenon DEF AgentDoc, IsAgentDoc, AgentFields
<1>2. /\ AgentDoc.status = doc.status /\ AgentDoc.amount = doc.amount /\ AgentDoc.has_po = doc.has_po
      /\ AgentDoc.retry_count = doc.retry_count /\ AgentDoc.provenance = doc.provenance
      /\ AgentDoc.failure_codes = CodeFamily
      /\ AgentDoc.po_match = TRUE /\ AgentDoc.match_3_way = TRUE
      /\ AgentDoc.match_result = "UNKNOWN" /\ AgentDoc.last_gateway = ""
  BY DEF AgentDoc
<1>. QED BY <1>1, <1>2 DEF AgentDocs

(* An answer leaves a document AgentWorkflow allows.                        *)
LEMMA AnswerIsExtraction ==
  ASSUME IInv, doc.has_po \in BOOLEAN,
         NEW answer \in Answered(text) \cup {Failed}, NEW v \in Verdicts(answer),
         NEW failed \in {"NEEDS_RETRY", "BAD_EXTRACTION"}, NEW r,
         doc' = [After(doc, answer, v, failed) EXCEPT !.retry_count = r]
  PROVE  /\ AgentDoc' \in Workflow!Extractions([AgentDoc EXCEPT !.retry_count = r], failed)
         /\ doc'.has_po \in BOOLEAN
         /\ doc'.failure_codes = v.codes /\ doc'.provenance = Provenance(v)
         /\ ~v.ran => doc'.status = "BAD_EXTRACTION"
         /\ doc'.status \in {"BAD_EXTRACTION", "DATA_EXTRACTED", "NEEDS_RETRY"}
<1>. DEFINE base == [AgentDoc EXCEPT !.retry_count = r]
            a == After(doc, answer, v, failed)
<1>0. text \in Texts /\ IsDocument(doc)
  BY DEF IInv
<1>1. /\ doc'.retry_count = r
      /\ doc'.status = IF ~v.ran THEN "BAD_EXTRACTION" ELSE IF v.codes = {} THEN "DATA_EXTRACTED" ELSE failed
      /\ doc'.failure_codes = v.codes /\ doc'.provenance = Provenance(v)
      /\ \A f \in {"amount", "has_po"} :
           doc'[f] = IF Accepted(v) THEN answer[f].value
                     ELSE IF v.ran /\ debug /\ f \in DOMAIN answer /\ Usable(answer, f)
                     THEN answer[f].value ELSE doc[f]
  <2>1. /\ IsDocument(a)
        /\ a.status = IF ~v.ran THEN "BAD_EXTRACTION" ELSE IF v.codes = {} THEN "DATA_EXTRACTED" ELSE failed
        /\ a.failure_codes = v.codes /\ a.provenance = Provenance(v)
        /\ \A f \in {"amount", "has_po"} :
             a[f] = IF Accepted(v) THEN answer[f].value
                    ELSE IF v.ran /\ debug /\ f \in DOMAIN answer /\ Usable(answer, f)
                    THEN answer[f].value ELSE doc[f]
    BY <1>0, FieldsWritten
  <2>2. doc' = [a EXCEPT !.retry_count = r]
    OBVIOUS
  <2>. HIDE DEF a
  <2>3. doc'.retry_count = r /\ \A f \in Fields \ {"retry_count"} : doc'[f] = a[f]
    BY <2>1, <2>2 DEF IsDocument, Fields
  <2>. QED BY <2>1, <2>3 DEF Fields
<1>2. /\ IsAgentDoc(base) /\ base.retry_count = r
      /\ \A f \in AgentFields \ {"retry_count"} : base[f] = AgentDoc[f]
  BY AgentDocFields DEF AgentDocs, IsAgentDoc, AgentFields
<1>3. /\ IsAgentDoc(AgentDoc')
      /\ \A f \in {"status", "amount", "has_po", "retry_count", "provenance"} : AgentDoc'[f] = doc'[f]
      /\ AgentDoc'.failure_codes = CodeFamily'
      /\ \A f \in {"po_match", "match_3_way", "match_result", "last_gateway"} : AgentDoc'[f] = AgentDoc[f]
  <2>1. AgentDocs'
    BY AgentDocFields, PTL DEF AgentDocs
  <2>. QED BY <2>1, AgentDocFields DEF AgentDocs, AgentDocs, IsAgentDoc
<1>. DEFINE Goal == AgentDoc' \in Workflow!Extractions(base, failed) /\ doc'.has_po \in BOOLEAN
<1>. HIDE DEF base, a
<1>4. ASSUME ~v.ran PROVE Goal
  <2>1. doc'.amount = doc.amount /\ doc'.has_po = doc.has_po /\ doc'.provenance = "empty"
        /\ doc'.status = "BAD_EXTRACTION"
    BY <1>1, <1>4 DEF Accepted, Provenance
  <2>2. CodeFamily' \in {"LLM_ERROR", "REJECTED"}
    BY <1>0, <1>1, <1>4, <2>1, VerdictFamilies DEF CodeFamily
  <2>3. AgentDoc' = Workflow!Refused(base, CodeFamily')
    <3>. DEFINE e == Workflow!Refused(base, CodeFamily')
    <3>1. IsAgentDoc(e)
      BY <1>2, RefusedFields
    <3>2. \A f \in AgentFields : AgentDoc'[f] = e[f]
      <4>1. /\ e.status = "BAD_EXTRACTION" /\ e.failure_codes = CodeFamily' /\ e.provenance = "empty"
            /\ \A g \in AgentFields \ {"status", "failure_codes", "provenance"} : e[g] = base[g]
        BY <1>2, RefusedFields
      <4>2. \A g \in {"amount", "has_po", "retry_count"} : AgentDoc'[g] = base[g]
        <5>1. base.amount = AgentDoc.amount /\ base.has_po = AgentDoc.has_po /\ base.retry_count = r
          BY <1>2 DEF AgentFields
        <5>2. AgentDoc'.amount = doc'.amount /\ AgentDoc'.has_po = doc'.has_po /\ AgentDoc'.retry_count = r
          BY <1>1, <1>3
        <5>3. AgentDoc.amount = doc.amount /\ AgentDoc.has_po = doc.has_po
          BY AgentDocFields DEF AgentDocs
        <5>. QED BY <2>1, <5>1, <5>2, <5>3
      <4>3. \A g \in {"po_match", "match_3_way", "match_result", "last_gateway"} : AgentDoc'[g] = base[g]
        BY <1>2, <1>3 DEF AgentFields
      <4>4. AgentDoc'.status = "BAD_EXTRACTION" /\ AgentDoc'.failure_codes = CodeFamily'
            /\ AgentDoc'.provenance = "empty"
        BY <1>3, <2>1
      <4>. HIDE DEF e
      <4>. QED BY <4>1, <4>2, <4>3, <4>4 DEF AgentFields
    <3>. HIDE DEF e
    <3>3. AgentDoc' = e
      BY <1>3, <3>1, <3>2, SameAgentDoc
    <3>. QED BY <3>3 DEF e
  <2>4. AgentDoc' \in Workflow!Extractions(base, failed)
    BY <2>2, <2>3 DEF Workflow!Extractions
  <2>. QED BY <2>1, <2>4
<1>5. ASSUME Accepted(v) PROVE Goal
  <2>. DEFINE x == answer.amount.value
              p == answer.has_po.value
  <2>1. v.ran /\ v.codes = {}
    BY <1>5 DEF Accepted
  <2>2. x \in Money \cup {NaN, None} /\ p \in BOOLEAN \cup {None} /\ x # None /\ p # None
    BY <1>0, <1>5, <2>1, RanShape, AcceptedFromText
  <2>3. x \in Workflow!Values /\ p \in BOOLEAN
    BY <2>2 DEF Workflow!Values
  <2>4. doc'.amount = x /\ doc'.has_po = p /\ doc'.provenance = "passed" /\ doc'.status = "DATA_EXTRACTED"
        /\ CodeFamily' = "none"
    BY <1>1, <1>5, <2>1 DEF Provenance, CodeFamily
  <2>. HIDE DEF x, p
  <2>5. AgentDoc' = Workflow!Verified(base, x, p)
    <3>. DEFINE e == Workflow!Verified(base, x, p)
    <3>1. IsAgentDoc(e)
      BY <1>2, VerifiedFields
    <3>2. \A f \in AgentFields : AgentDoc'[f] = e[f]
      BY <1>1, <1>2, <1>3, <2>4, VerifiedFields DEF AgentFields
    <3>. HIDE DEF e
    <3>3. AgentDoc' = e
      BY <1>3, <3>1, <3>2, SameAgentDoc
    <3>. QED BY <3>3 DEF e
  <2>6. AgentDoc' \in Workflow!Extractions(base, failed)
    BY <2>3, <2>5 DEF Workflow!Extractions
  <2>. QED BY <2>3, <2>4, <2>6
<1>6. ASSUME v.ran /\ ~Accepted(v) PROVE Goal
  <2>1. v.codes # {}
    BY <1>6 DEF Accepted
  <2>2. doc'.status = failed /\ doc'.provenance = "failed"
    BY <1>1, <1>6, <2>1 DEF Provenance
  <2>3. CodeFamily' = "VERIFIER"
    BY <1>0, <1>1, <1>6, <2>1, <2>2, VerdictFamilies DEF CodeFamily
  <2>4. answer.amount.value \in Money \cup {NaN, None} /\ answer.has_po.value \in BOOLEAN \cup {None}
    BY <1>0, <1>6, RanShape
  <2>5. /\ doc'.amount = doc.amount \/ (debug /\ doc'.amount \in Money \cup {NaN})
        /\ doc'.has_po = doc.has_po \/ (debug /\ doc'.has_po \in BOOLEAN)
    BY <1>1, <1>6, <2>4 DEF Usable
  <2>. DEFINE left == [amount |-> doc'.amount, has_po |-> doc'.has_po]
  <2>9. base.amount = doc.amount /\ base.has_po = doc.has_po
    BY <1>2, AgentDocFields DEF AgentDocs, AgentFields
  <2>6. left \in Workflow!Leftover(base)
    <3>1. CASE debug
      BY <2>5, <2>9, <3>1 DEF Workflow!Leftover, Workflow!Values
    <3>2. CASE ~debug
      BY <2>5, <2>9, <3>2 DEF Workflow!Leftover
    <3>. QED BY <3>1, <3>2
  <2>7. AgentDoc' = Workflow!Unverified(base, failed, left.amount, left.has_po)
    <3>. DEFINE e == Workflow!Unverified(base, failed, left.amount, left.has_po)
    <3>1. IsAgentDoc(e)
      BY <1>2, UnverifiedFields
    <3>2. \A f \in AgentFields : AgentDoc'[f] = e[f]
      BY <1>1, <1>2, <1>3, <2>2, <2>3, UnverifiedFields DEF AgentFields
    <3>. HIDE DEF e
    <3>3. AgentDoc' = e
      BY <1>3, <3>1, <3>2, SameAgentDoc
    <3>. QED BY <3>3 DEF e
  <2>. HIDE DEF left
  <2>8. AgentDoc' \in Workflow!Extractions(base, failed)
    BY <2>6, <2>7 DEF Workflow!Extractions
  <2>. QED BY <2>5, <2>8
<1>7. Goal
  BY <1>4, <1>5, <1>6 DEF Accepted
<1>8. /\ ~v.ran => doc'.status = "BAD_EXTRACTION"
      /\ doc'.status \in {"BAD_EXTRACTION", "DATA_EXTRACTED", "NEEDS_RETRY"}
  BY <1>1
<1>. QED BY <1>1, <1>7, <1>8 DEF base

(* The two nodes lead where the stage says.                                 *)
LEMMA EnterLeadsOn ==
  ASSUME NEW d, d.status # None
  PROVE  /\ Workflow!Targets("enter", d) = {IF d.status = "NEEDS_RETRY" THEN "critic" ELSE "done"}
         /\ ~Workflow!Diverted("enter", d)
<1>. DEFINE out == HandlerEdges["enter"]
<1>1. /\ out = <<When("critic", {Is("status", "NEEDS_RETRY")}), Always("done")>>
      /\ DOMAIN out = {1, 2} /\ out # <<>>
      /\ out[1] = When("critic", {Is("status", "NEEDS_RETRY")}) /\ out[2] = Always("done")
  BY DEF HandlerEdges
<1>2. out[1].to = "critic" /\ out[2].to = "done" /\ out[1].kind = "when" /\ out[2].kind = "always"
      /\ out[1].all = {Is("status", "NEEDS_RETRY")}
  BY <1>1 DEF When, Always
<1>. HIDE DEF out
<1>3. ~Workflow!SameTarget(out)
  BY <1>1, <1>2 DEF Workflow!SameTarget
<1>4. Workflow!Fallbacks(out) = {2}
  BY <1>1, <1>2 DEF Workflow!Fallbacks
<1>5. Workflow!Holds(Is("status", "NEEDS_RETRY"), d) <=> d.status = "NEEDS_RETRY"
  BY DEF Is, Workflow!Holds, Workflow!Compare
<1>6. Workflow!Matches(d, out) = IF d.status = "NEEDS_RETRY" THEN {1} ELSE {}
  BY <1>1, <1>2, <1>5 DEF Workflow!Matches, Workflow!Matched
<1>7. Workflow!Selection(d, out) = {IF d.status = "NEEDS_RETRY" THEN "critic" ELSE "done"}
  <2>1. CASE d.status = "NEEDS_RETRY"
    <3>1. \A i \in DOMAIN out : Workflow!Selects(d, out, i) <=> i = 1
      BY <1>1, <1>3, <1>6, <2>1 DEF Workflow!Selects
    <3>. QED BY <1>1, <1>2, <2>1, <3>1 DEF Workflow!Selection
  <2>2. CASE d.status # "NEEDS_RETRY"
    <3>1. \A i \in DOMAIN out : Workflow!Selects(d, out, i) <=> i = 2
      BY <1>1, <1>3, <1>4, <1>6, <2>2 DEF Workflow!Selects
    <3>. QED BY <1>1, <1>2, <2>2, <3>1 DEF Workflow!Selection
  <2>. QED BY <2>1, <2>2
<1>8. ~Workflow!Leaves("enter")
  BY <1>1 DEF Workflow!Leaves, out
<1>. QED BY <1>7, <1>8 DEF Workflow!Targets, Workflow!Diverted, Workflow!Hop, out

LEMMA CriticLeadsOn ==
  ASSUME NEW d
  PROVE  Workflow!Targets("critic", d) = {"done"} /\ ~Workflow!Diverted("critic", d)
<1>. DEFINE out == HandlerEdges["critic"]
<1>1. out = <<Always("done")>> /\ DOMAIN out = {1} /\ out # <<>> /\ out[1].to = "done"
  BY DEF HandlerEdges, Always
<1>. HIDE DEF out
<1>2. Workflow!Selection(d, out) = {"done"}
  BY <1>1 DEF Workflow!Selection, Workflow!Selects, Workflow!SameTarget
<1>3. ~Workflow!Leaves("critic")
  BY <1>1 DEF Workflow!Leaves, out
<1>. QED BY <1>2, <1>3 DEF Workflow!Targets, Workflow!Diverted, Workflow!Hop, out

(* A commit of a document that leads on: no gateway, nothing diverted.      *)
LEMMA Committed ==
  ASSUME NEW n, NEW evs, stage' \in Workflow!Targets(n, AgentDoc'), ~Workflow!Diverted(n, AgentDoc'),
         audit' = audit \o evs, UNCHANGED debug
  PROVE  Workflow!Commit(n, AgentDoc', evs)
<1>. DEFINE d == AgentDoc'
            merged == [d EXCEPT !.last_gateway = IF n \in {} THEN n ELSE @]
<1>1. AgentDocs'
  BY AgentDocFields, PTL
<1>2. IsAgentDoc(d)
  BY <1>1 DEF AgentDocs, IsAgentDoc
<1>. HIDE DEF d
<1>3. merged = d
  BY <1>2 DEF IsAgentDoc, AgentFields
<1>4. ~Workflow!Decides(n)
  BY DEF Workflow!Decides
<1>. QED BY <1>3, <1>4 DEF Workflow!Commit, Workflow!LogUnmodeled, d

(* The events of a handler are those AgentWorkflow derives from the document *)
(* it leaves.                                                               *)
LEMMA EventsAgree ==
  ASSUME text \in Texts, NEW answer \in Answered(text) \cup {Failed}, NEW v \in Verdicts(answer), NEW n,
         doc'.failure_codes = v.codes, doc'.provenance = Provenance(v), ~v.ran => doc'.status = "BAD_EXTRACTION"
  PROVE  Workflow!ExtractionEvents(n, "extraction", AgentDoc')
           = <<Event("extraction", n, Variant(answer, v))>> \o Summary(n, doc')
<1>1. doc'.failure_codes = v.codes /\ doc'.provenance = Provenance(v) /\ (~v.ran => doc'.status = "BAD_EXTRACTION")
  OBVIOUS
<1>2. AgentDoc'.status = doc'.status /\ AgentDoc'.provenance = doc'.provenance
      /\ AgentDoc'.failure_codes = CodeFamily'
  BY DEF AgentDoc
<1>3. AgentDoc.last_gateway = ""
  BY DEF AgentDoc
<1>4. Workflow!ExtractionVariant(AgentDoc') = Variant(answer, v)
  <2>1. CASE ~v.ran
    <3>1. doc'.provenance = "empty" /\ doc'.status = "BAD_EXTRACTION"
      BY <1>1, <2>1 DEF Provenance
    <3>2. CodeFamily' = "LLM_ERROR" <=> answer = Failed
      BY <1>1, <2>1, <3>1, VerdictFamilies DEF CodeFamily
    <3>. QED BY <1>2, <2>1, <3>1, <3>2 DEF Variant, Workflow!ExtractionVariant
  <2>2. CASE v.ran
    <3>1. answer # Failed
      BY <2>2 DEF Verdicts
    <3>. QED BY <1>1, <1>2, <2>2, <3>1 DEF Variant, Provenance, Workflow!ExtractionVariant
  <2>. QED BY <2>1, <2>2
<1>5. \A kind, value : Workflow!Event(kind, n, value) = Event(kind, n, value)
  BY <1>3 DEF Workflow!Event, Event
<1>. QED BY <1>2, <1>4, <1>5 DEF Workflow!ExtractionEvents, Summary

LEMMA RetryEventsAgree ==
  ASSUME NEW n
  PROVE  Workflow!ExtractionEvents(n, "critic_retry_executed", AgentDoc')
           = <<Event("critic_retry_executed", n, doc'.status)>> \o Summary(n, doc')
<1>1. AgentDoc'.status = doc'.status /\ AgentDoc'.provenance = doc'.provenance
  BY DEF AgentDoc
<1>2. AgentDoc.last_gateway = ""
  BY DEF AgentDoc
<1>3. \A kind, value : Workflow!Event(kind, n, value) = Event(kind, n, value)
  BY <1>2 DEF Workflow!Event, Event
<1>. QED BY <1>1, <1>3 DEF Workflow!ExtractionEvents, Summary

LEMMA InitImplemented == Init => Workflow!Init
<1>. SUFFICES ASSUME Init PROVE Workflow!Init
  OBVIOUS
<1>. DEFINE first == [status |-> "NEW", amount |-> 0, has_po |-> FALSE, po_match |-> TRUE,
                      match_3_way |-> IF None = None THEN TRUE ELSE None,
                      match_result |-> "UNKNOWN", retry_count |-> 0,
                      failure_codes |-> "none", provenance |-> "empty", last_gateway |-> ""]
<1>1. /\ doc.status = "NEW" /\ doc.amount = 0 /\ doc.has_po = FALSE /\ doc.retry_count = 0
      /\ doc.failure_codes = {} /\ doc.provenance = "empty"
  BY DEF Init
<1>2. CodeFamily = "none"
  BY <1>1 DEF CodeFamily
<1>3. IsAgentDoc(first)
  BY Zenon DEF IsAgentDoc, AgentFields
<1>4. /\ first.status = "NEW" /\ first.amount = 0 /\ first.has_po = FALSE /\ first.po_match = TRUE
      /\ first.match_3_way = TRUE /\ first.match_result = "UNKNOWN" /\ first.retry_count = 0
      /\ first.failure_codes = "none" /\ first.provenance = "empty" /\ first.last_gateway = ""
  OBVIOUS
<1>. HIDE DEF first
<1>5. AgentDoc = first
  <2>1. \A f \in AgentFields : AgentDoc[f] = first[f]
    BY <1>1, <1>2, <1>4, AgentDocFields DEF AgentDocs, AgentFields
  <2>. QED BY <1>3, <2>1, AgentDocFields, SameAgentDoc DEF AgentDocs
<1>. QED BY <1>5 DEF Init, Workflow!Init, first

LEMMA WrittenKeepsCount ==
  ASSUME IsDocument(doc), NEW answer \in Answered(text) \cup {Failed}, NEW v \in Verdicts(answer), text \in Texts
  PROVE  IsDocument(Written(doc, answer, v)) /\ Written(doc, answer, v).retry_count = doc.retry_count
<1>1. CASE v.ran
  <2>1. DOMAIN answer = RequiredFields \cup OptionalFields
    BY <1>1, RanShape, AnswersTyped
  <2>. QED BY <2>1 DEF Written, Promoted, Leaked, IsDocument, Fields, RequiredFields, OptionalFields
<1>2. CASE ~v.ran
  BY <1>2 DEF Written
<1>. QED BY <1>1, <1>2

(* Each attempt is a step of the node that makes it.                        *)
RefInv == stage \in Handlers /\ doc.has_po \in BOOLEAN

LEMMA EnterImplemented ==
  ASSUME IInv, RefInv, EnterRecord
  PROVE  Workflow!EnterRecord("enter") /\ RefInv'
<1>. DEFINE failed == IF doc.retry_count = 0 THEN "NEEDS_RETRY" ELSE "BAD_EXTRACTION"
<1>1. PICK answer \in Answers(text) \cup {Failed} : \E v \in Verdicts(answer) :
        /\ doc' = After(doc, answer, v, failed)
        /\ audit' = audit \o (<<Event("extraction", "enter", Variant(answer, v))>> \o Summary("enter", doc'))
  BY DEF EnterRecord
<1>2. PICK v \in Verdicts(answer) :
        /\ doc' = After(doc, answer, v, failed)
        /\ audit' = audit \o (<<Event("extraction", "enter", Variant(answer, v))>> \o Summary("enter", doc'))
  BY <1>1
<1>3. stage = "enter" /\ text' = text /\ debug' = debug
  BY DEF EnterRecord
<1>s. stage' = IF doc'.status = "NEEDS_RETRY" THEN "critic" ELSE "done"
  BY DEF EnterRecord
<1>4. answer \in Answered(text) \cup {Failed} /\ failed \in {"NEEDS_RETRY", "BAD_EXTRACTION"}
      /\ text \in Texts /\ IsDocument(doc) /\ doc.has_po \in BOOLEAN
  BY DEF Answered, IInv, RefInv
<1>. HIDE DEF failed
<1>5. doc' = [After(doc, answer, v, failed) EXCEPT !.retry_count = doc.retry_count]
  <2>. DEFINE a == After(doc, answer, v, failed)
  <2>1. IsDocument(a) /\ a.retry_count = doc.retry_count
    BY <1>4, WrittenKeepsCount DEF After, IsDocument, Fields
  <2>2. doc' = a
    BY <1>2
  <2>. HIDE DEF a
  <2>3. a = [a EXCEPT !.retry_count = doc.retry_count]
    BY <2>1 DEF IsDocument, Fields
  <2>4. doc' = [a EXCEPT !.retry_count = doc.retry_count]
    BY <2>2, <2>3
  <2>. QED BY <2>4 DEF a
<1>6. /\ AgentDoc' \in Workflow!Extractions([AgentDoc EXCEPT !.retry_count = doc.retry_count], failed)
      /\ doc'.has_po \in BOOLEAN
      /\ doc'.failure_codes = v.codes /\ doc'.provenance = Provenance(v)
      /\ ~v.ran => doc'.status = "BAD_EXTRACTION"
      /\ doc'.status \in {"BAD_EXTRACTION", "DATA_EXTRACTED", "NEEDS_RETRY"}
  BY <1>4, <1>5, AnswerIsExtraction
<1>7. [AgentDoc EXCEPT !.retry_count = doc.retry_count] = AgentDoc
  <2>1. IsAgentDoc(AgentDoc) /\ AgentDoc.retry_count = doc.retry_count
    BY AgentDocFields DEF AgentDocs
  <2>. QED BY <2>1 DEF IsAgentDoc, AgentFields
<1>8. audit' = audit \o Workflow!ExtractionEvents("enter", "extraction", AgentDoc')
  <2>1. Workflow!ExtractionEvents("enter", "extraction", AgentDoc')
          = <<Event("extraction", "enter", Variant(answer, v))>> \o Summary("enter", doc')
    BY <1>4, <1>6, EventsAgree
  <2>. QED BY <1>2, <2>1
<1>9. stage' \in Workflow!Targets("enter", AgentDoc') /\ ~Workflow!Diverted("enter", AgentDoc')
  <2>1. AgentDoc'.status = doc'.status
    BY DEF AgentDoc
  <2>2. AgentDoc'.status # None
    BY <1>6, <2>1, NoStatus
  <2>3. /\ Workflow!Targets("enter", AgentDoc') = {IF AgentDoc'.status = "NEEDS_RETRY" THEN "critic" ELSE "done"}
        /\ ~Workflow!Diverted("enter", AgentDoc')
    BY <2>2, EnterLeadsOn
  <2>. QED BY <1>s, <2>1, <2>3
<1>10. Workflow!Commit("enter", AgentDoc', Workflow!ExtractionEvents("enter", "extraction", AgentDoc'))
  BY <1>3, <1>8, <1>9, Committed
<1>11. Workflow!At("enter", {"ENTER_RECORD"})
  BY <1>3 DEF Workflow!At
<1>12. AgentDoc' \in Workflow!Extractions(AgentDoc, IF AgentDoc.retry_count = 0 THEN "NEEDS_RETRY" ELSE "BAD_EXTRACTION")
  <2>1. AgentDoc.retry_count = doc.retry_count
    BY AgentDocFields DEF AgentDocs
  <2>. QED BY <1>6, <1>7, <2>1 DEF failed
<1>13. Workflow!EnterRecord("enter")
  BY <1>10, <1>11, <1>12 DEF Workflow!EnterRecord
<1>14. stage' \in Handlers
  BY <1>s DEF Handlers
<1>. QED BY <1>6, <1>13, <1>14 DEF RefInv

LEMMA CriticImplemented ==
  ASSUME IInv, RefInv, CriticRetry
  PROVE  Workflow!CriticRetry("critic") /\ RefInv'
<1>1. PICK answer \in Corrections(text) \cup {Failed} : \E v \in Verdicts(answer) :
        /\ doc' = [After(doc, answer, v, "BAD_EXTRACTION") EXCEPT !.retry_count = doc.retry_count + 1]
        /\ audit' = audit \o (<<Event("critic_retry_executed", "critic", doc'.status)>> \o Summary("critic", doc'))
  BY DEF CriticRetry
<1>2. PICK v \in Verdicts(answer) :
        /\ doc' = [After(doc, answer, v, "BAD_EXTRACTION") EXCEPT !.retry_count = doc.retry_count + 1]
        /\ audit' = audit \o (<<Event("critic_retry_executed", "critic", doc'.status)>> \o Summary("critic", doc'))
  BY <1>1
<1>3. stage = "critic" /\ stage' = "done" /\ text' = text /\ debug' = debug
  BY DEF CriticRetry
<1>4. answer \in Answered(text) \cup {Failed} /\ text \in Texts /\ IsDocument(doc) /\ doc.has_po \in BOOLEAN
  BY DEF Answered, IInv, RefInv
<1>5. /\ AgentDoc' \in Workflow!Extractions([AgentDoc EXCEPT !.retry_count = doc.retry_count + 1], "BAD_EXTRACTION")
      /\ doc'.has_po \in BOOLEAN
      /\ doc'.failure_codes = v.codes /\ doc'.provenance = Provenance(v)
      /\ ~v.ran => doc'.status = "BAD_EXTRACTION"
  BY <1>2, <1>4, AnswerIsExtraction
<1>6. AgentDoc' \in Workflow!Extractions([AgentDoc EXCEPT !.retry_count = @ + 1], "BAD_EXTRACTION")
  <2>1. AgentDoc.retry_count = doc.retry_count
    BY AgentDocFields DEF AgentDocs
  <2>2. [AgentDoc EXCEPT !.retry_count = @ + 1] = [AgentDoc EXCEPT !.retry_count = doc.retry_count + 1]
    BY <2>1
  <2>3. AgentDoc' \in Workflow!Extractions([AgentDoc EXCEPT !.retry_count = doc.retry_count + 1], "BAD_EXTRACTION")
    BY <1>5
  <2>. QED BY <2>2, <2>3
<1>7. audit' = audit \o Workflow!ExtractionEvents("critic", "critic_retry_executed", AgentDoc')
  <2>1. Workflow!ExtractionEvents("critic", "critic_retry_executed", AgentDoc')
          = <<Event("critic_retry_executed", "critic", doc'.status)>> \o Summary("critic", doc')
    BY RetryEventsAgree
  <2>. QED BY <1>2, <2>1
<1>8. Workflow!Commit("critic", AgentDoc', Workflow!ExtractionEvents("critic", "critic_retry_executed", AgentDoc'))
  BY <1>3, <1>7, CriticLeadsOn, Committed
<1>9. Workflow!At("critic", {"CRITIC_RETRY"})
  BY <1>3 DEF Workflow!At
<1>10. Workflow!CriticRetry("critic")
  BY <1>6, <1>8, <1>9 DEF Workflow!CriticRetry
<1>11. stage' \in Handlers
  BY <1>3 DEF Handlers
<1>12. doc'.has_po \in BOOLEAN
  BY <1>5
<1>. QED BY <1>10, <1>11, <1>12 DEF RefInv

(* The handlers with the verifier inside are those of AgentWorkflow on the   *)
(* three-node graph: its free choice of a document covers what the checks can *)
(* return, and the events follow from the document.                         *)
THEOREM HandlersImplementWorkflow == Spec => ImplementsWorkflow
<1>1. Init => RefInv
  <2>. SUFFICES ASSUME Init PROVE RefInv
    OBVIOUS
  <2>1. stage = "enter"
    BY DEF Init
  <2>2. doc.has_po = FALSE
    BY Zenon DEF Init
  <2>. QED BY <2>1, <2>2 DEF RefInv, Handlers
<1>2. IInv /\ RefInv /\ [Next]_vars => [Workflow!Next]_(Workflow!vars) /\ RefInv'
  <2>. SUFFICES ASSUME IInv, RefInv, [Next]_vars
               PROVE  [Workflow!Next]_(Workflow!vars) /\ RefInv'
    OBVIOUS
  <2>1. CASE EnterRecord
    <3>1. Workflow!Next
      BY <2>1, EnterImplemented DEF Workflow!Next, Workflow!Step, Handlers
    <3>. QED BY <2>1, <3>1, EnterImplemented
  <2>2. CASE CriticRetry
    <3>1. Workflow!Next
      BY <2>2, CriticImplemented DEF Workflow!Next, Workflow!Step, Handlers
    <3>. QED BY <2>2, <3>1, CriticImplemented
  <2>3. CASE UNCHANGED vars
    BY <2>3 DEF vars, RefInv, Workflow!vars, AgentDoc, CodeFamily
  <2>. QED BY <2>1, <2>2, <2>3 DEF Next
<1>3. QED
  BY <1>1, <1>2, InvariantHolds, InitImplemented, PTL DEF Spec, ImplementsWorkflow, Workflow!SafeSpec
=============================================================================
