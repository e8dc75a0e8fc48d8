----------------------------- MODULE MCConditions -----------------------------
(* Labels of the miners, comparisons of every field with every kind of value *)
(* in either case, the right-hand sides Python and the tokenizer disagree    *)
(* about, and compounds of any two of them.                                  *)
EXTENDS Conditions

MCAlphabet ==
  <<"ACME", "AMOUNT", "DUPLICATE", "FALSE", "HAS_PO", "IF_CONDITION", "INF", "MATCH",
    "MATCH_RESULT", "NAN", "NO_MATCH", "STATUS", "THRESH", "TRUE", "VARIANCE", "VENDOR",
    "acme", "amount", "duplicate", "false", "has_po", "if_condition", "inf", "match",
    "match_result", "nan", "no_match", "status", "thresh", "true", "variance", "vendor">>

Upper(w) == LET i == CHOOSE i \in 1..32 : MCAlphabet[i] = w
            IN MCAlphabet[IF i > 16 THEN i - 16 ELSE i]
Lower(w) == LET i == CHOOSE i \in 1..32 : MCAlphabet[i] = w
            IN MCAlphabet[IF i > 16 THEN i ELSE i + 16]

MCUpperOf == [w \in ToSet(MCAlphabet) |-> Upper(w)]
MCLowerOf == [w \in ToSet(MCAlphabet) |-> Lower(w)]

Labels == {<<Ident(w)>> : w \in {"HAS_PO", "no_match", "IF_CONDITION", "acme"}}

Values ==
  {<<<<"BOOL", "TRUE">>>>, <<<<"INT", 2>>>>, <<<<"FLOAT", 1>>>>, <<<<"PYNUM", 1>>>>,
   <<Ident("duplicate")>>, <<<<"STRING", "acme">>>>, <<Ident("thresh")>>, <<Ident("nan")>>,
   <<<<"OTHER", "">>>>, <<<<"INT", 1>>, <<"INT", 2>>>>, <<>>}

Comparisons ==
  {<<Ident(f), Op(o)>> \o v : f \in {"amount", "has_po", "status", "vendor"}, o \in {"==", "<="},
                              v \in Values}

Singles == Labels \cup Comparisons

MCTexts ==
  [lex : Singles \cup {a \o <<And>> \o b : a, b \in Singles}, spaced : BOOLEAN]

MCStates ==
  [amount : {None, <<"float", 1>>, <<"float", 3>>}, has_po : {<<"bool", b>> : b \in BOOLEAN},
   status : {<<"str", "DUPLICATE">>, <<"str", "MATCH">>}, match_result : {<<"str", "NO_MATCH">>},
   vendor : {<<"str", "acme">>}]
=============================================================================
