----------------------------- MODULE MCExtraction -----------------------------
(***************************************************************************)
(* Six short invoices: one that adds up, one with a date, a tax rate and a *)
(* fee, one with a wrong rate, one that does not add up, one without a     *)
(* subtotal and a purchase order, and one that adds up and ends in a date. *)
(* An answer differs from a faithful one in one field, or in the amount    *)
(* and an optional field, a correction in up to one field.  Evidence may   *)
(* cut a number, a purchase order and a date out of longer words.          *)
(***************************************************************************)
EXTENDS Extraction

Plain == [numbers |-> <<>>, rate |-> FALSE, keyword |-> "none", po |-> FALSE, date |-> NoDate]
Number(n) == [Plain EXCEPT !.numbers = <<n>>]
Keyword(k) == [Plain EXCEPT !.keyword = k]
Date(numbers, date) == [Plain EXCEPT !.numbers = numbers, !.date = date]

Numerals == [w \in {"8.10", "9.00", "9.90", "81.00", "90.00", "99.00"} |->
               CASE w = "8.10" -> 810 [] w = "9.00" -> 900 [] w = "9.90" -> 990
                 [] w = "81.00" -> 8100 [] w = "90.00" -> 9000 [] OTHER -> 9900]

Iso == "2024-01-15"      \* an ISO date, and the same with slashes
Slashed == "15/01/2024"
NextDay == "2024-01-16"
Ambiguous == "11/01/2024"
Cut == "1/01/2024"       \* of the ambiguous date, not ambiguous
NotADay == "2024-13-01"

MCLexicon ==
  [w \in {"acme", "globex", "tempo", "subtotal", "tax", "shipping", "total", "po", "10%",
          Iso, Slashed, NextDay, Ambiguous, Cut, NotADay}
         \cup DOMAIN Numerals |->
     CASE w \in DOMAIN Numerals -> Number(Numerals[w])
       [] w \in {"subtotal", "tax", "total"} -> Keyword(w)
       [] w = "shipping" -> Keyword("fee")
       [] w = "po" -> [Plain EXCEPT !.po = TRUE]
       [] w = "10%" -> [Number(1000) EXCEPT !.rate = TRUE]
       [] w = Iso -> Date(<<202400, 100, 1500>>, Iso)
       [] w = Slashed -> Date(<<1500, 100, 202400>>, Iso)
       [] w = NextDay -> Date(<<202400, 100, 1600>>, NextDay)
       [] w = Ambiguous -> Date(<<1100, 100, 202400>>, "DATE_AMBIGUOUS")
       [] w = Cut -> Date(<<100, 100, 202400>>, "2024-01-01")
       [] w = NotADay -> Date(<<202400, 1300, 100>>, "DATE_PARSE_FAILED")
       [] OTHER -> Plain]

MCTails == {<<"9.00", "99.00">>, <<"po", "tempo">>, <<Cut, Ambiguous>>}

AddsUp == <<"acme", "po", "subtotal", "90.00", "tax", "9.00", "total", "99.00">>
WithRate == <<Iso, "acme", "po", "subtotal", "81.00", "tax", "10%", "8.10", "shipping", "9.90", "total", "99.00">>
WrongRate == <<"acme", "po", "subtotal", "9.00", "tax", "10%", "tax", "90.00", "total", "99.00">>
DoesNotAddUp == <<"acme", "po", "subtotal", "90.00", "tax", "9.00", "total", "90.00">>
NoSubtotal == <<"acme", "tempo", "total", "99.00", Slashed, Ambiguous>>
EndsInDate == <<"acme", "po", "subtotal", "90.00", "tax", "9.00", "total", "99.00", Iso>>

MCTexts == {AddsUp, WithRate, WrongRate, DoesNotAddUp, NoSubtotal, EndsInDate}

Says(v, e) == [value |-> v, evidence |-> e]

Truth(t) ==
  [vendor |-> Says("acme", <<"acme">>),
   amount |-> IF t = DoesNotAddUp THEN Says(9000, <<"total", "90.00">>) ELSE Says(9900, <<"total", "99.00">>),
   has_po |-> IF t = NoSubtotal THEN Says(FALSE, <<>>) ELSE Says(TRUE, <<"po">>),
   invoice_date |-> Absent, tax_amount |-> Absent]

Deviations ==
  [vendor |-> {Absent, Malformed, Says(None, <<"acme">>), Says(None, <<>>), Says("globex", <<"acme">>),
               Says("globex", <<"globex">>), Says(Wrong, <<"acme">>), Says("acme", None)},
   amount |-> {Absent, Says(9901, <<"total", "99.00">>), Says(9000, <<"total", "99.00">>),
               Says(9000, <<"total", "90.00">>), Says(900, <<"9.00">>), Says(900, <<"tax", "9.00">>),
               Says(9900, <<"90.00", "tax", "9.00", "total", "99.00">>),
               Says(9900, <<"subtotal", "90.00", "tax", "9.00", "total", "99.00">>),
               Says(NaN, <<"total", "99.00">>), Says(None, <<"total">>), Says(-1, <<"total", "99.00">>),
               Says(9900, <<"total">>), Says(9900, <<>>), Says(Wrong, <<>>)},
   has_po |-> {Says(TRUE, <<"po">>), Says(FALSE, None), Says(TRUE, <<"acme">>), Says(TRUE, <<>>), Says(FALSE, <<>>),
               Says(FALSE, <<"po">>), Says(None, <<>>), Says(Wrong, <<>>)},
   invoice_date |-> {Malformed, Says(Iso, <<Iso>>), Says(Iso, <<Slashed>>), Says(Slashed, <<Iso>>), Says(NextDay, <<Iso>>),
                     Says(Iso, <<Slashed, Ambiguous>>), Says(Ambiguous, <<Ambiguous>>), Says(Cut, <<Cut>>),
                     Says(NotADay, <<Iso>>), Says("acme", <<"acme">>), Says(Wrong, <<Iso>>), Says(Iso, <<>>)},
   tax_amount |-> {Says(900, <<"tax", "9.00">>), Says(900, <<"9.00">>), Says(810, <<"tax", "10%", "8.10">>),
                   Says(900, <<"tax">>), Says(1000, <<"tax", "10%", "tax", "90.00">>),
                   Says(1000, <<"tax", "10%">>), Says(901, <<"tax", "9.00">>), Says(9900, <<"tax", "9.00">>),
                   Says(Wrong, <<"tax", "9.00">>), Says(900, <<>>), Says(NaN, <<"tax", "9.00">>)}]

Changes == UNION {{<<f, g>> : g \in Deviations[f]} : f \in DOMAIN Deviations}

MCCorrections(t) == {Truth(t)} \cup {[Truth(t) EXCEPT ![c[1]] = c[2]] : c \in Changes}

MCAnswers(t) ==
  MCCorrections(t) \cup
  {[Truth(t) EXCEPT ![c[1]] = c[2], ![d[1]] = d[2]] :
     c \in {c \in Changes : c[1] = "amount"}, d \in {d \in Changes : d[1] \in OptionalFields}}

MCMoney == {0, 900, 901, 1000, 9000, 9900, 9901}
=============================================================================
