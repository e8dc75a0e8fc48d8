------------------------------ MODULE Conditions ------------------------------
(***************************************************************************)
(* The condition language (src/conditions.py): how the text of an edge's   *)
(* condition becomes a predicate on the state, and what the static check   *)
(* of types says of it.                                                    *)
(*                                                                         *)
(* A text is [lex, spaced]: its pieces <<kind, value>>, and whether there  *)
(* is more white space than they need. The kinds are the tokenizer's, and  *)
(* two more: "PYNUM", a number Python reads and the tokenizer does not     *)
(* read as one (1e5, 1_000), and "OTHER", what no token starts with. A     *)
(* condition is the sequence of its comparisons [field, op, lit]; a        *)
(* literal, like a value of the state, is <<type, value>>.                 *)
(***************************************************************************)
EXTENDS Integers, Sequences, SequencesExt

CONSTANTS
  None,
  Alphabet,    \* the words in use, in dictionary order
  UpperOf,     \* the upper-case form of each
  LowerOf,     \* and the lower-case form
  Threshold,   \* the approval threshold of src/policy.py
  Texts,       \* conditions an edge may be mined with
  States       \* states they are evaluated on

Words == ToSet(Alphabet)

(* Upper and lower case of ASCII, and the words in which synonyms are       *)
(* written.                                                                 *)
ASSUME WordsHaveCases ==
  /\ UpperOf \in [Words -> Words] /\ LowerOf \in [Words -> Words]
  /\ \A w \in Words : UpperOf[UpperOf[w]] = UpperOf[w] /\ LowerOf[LowerOf[w]] = LowerOf[w]
  /\ {"match_result", "has_po", "amount", "status", "true", "false"} \subseteq Words
  /\ LowerOf["true"] = "true" /\ LowerOf["false"] = "false"
  /\ \A w \in {"MATCH", "NO_MATCH", "VARIANCE", "DUPLICATE"} : w \in Words /\ UpperOf[w] = w

Ident(w) == <<"IDENT", w>>
Op(o) == <<"OP", o>>
And == <<"AND", "AND">>
Text(lex) == [lex |-> lex, spaced |-> TRUE]

Token ==
  ({"IDENT", "BOOL", "STRING"} \X Words) \cup ({"INT", "FLOAT", "PYNUM"} \X Int)
  \cup {Op(o) : o \in {"==", "!=", ">", ">=", "<", "<="}} \cup {And, <<"OTHER", "">>}

ASSUME TextsTyped ==
  /\ Texts \subseteq [lex : Seq(Token), spaced : BOOLEAN]
  /\ Threshold \in Int
  /\ None \notin [lex : Seq(Token), spaced : BOOLEAN]

Is(field, kind, value) == Text(<<Ident(field), Op("=="), <<kind, value>>>>)
IsNot(field, kind, value) == Text(<<Ident(field), Op("!="), <<kind, value>>>>)
Approve == Text(<<Ident("amount"), Op("<="), <<"INT", Threshold>>>>)
Reject == Text(<<Ident("amount"), Op(">"), <<"INT", Threshold>>>>)

Matching == {"match", "match_3_way", "successful_match", "within_tolerance"}
NotMatching == {"no_match", "above_tolerance"}
Varying == {"variance", "variance_above_tolerance"}
Approving == {"approve", "approve_or_reject", "no_po_approve", "threshold_amount"}
Rejecting == {"reject", "no_po_reject"}
NoCondition == {"condition_true", "if_condition", "schedule_payment"}

(* _SYNONYM_MAP, by lower case. Two labels are written with an operator. *)
WordSynonyms ==
  [w \in Matching \cup NotMatching \cup Varying \cup Approving \cup Rejecting \cup NoCondition
        \cup {"has_po", "no_po", "duplicate_detected", "not_duplicate"} |->
     CASE w \in Matching -> Is("match_result", "STRING", "MATCH")
       [] w \in NotMatching -> Is("match_result", "STRING", "NO_MATCH")
       [] w \in Varying -> Is("match_result", "STRING", "VARIANCE")
       [] w = "has_po" -> Is("has_po", "BOOL", "true")
       [] w = "no_po" -> Is("has_po", "BOOL", "false")
       [] w \in Approving -> Approve
       [] w \in Rejecting -> Reject
       [] w = "duplicate_detected" -> Is("status", "STRING", "DUPLICATE")
       [] w = "not_duplicate" -> IsNot("status", "STRING", "DUPLICATE")
       [] OTHER -> None]

OperatorLabel(lex, op) ==
  /\ Len(lex) = 3 /\ lex[1][1] = "IDENT" /\ lex[2] = Op(op) /\ lex[3][1] = "IDENT"
  /\ LowerOf[lex[1][2]] = "amount" /\ LowerOf[lex[3][2]] = "thresh"

OperatorLabels(lex) == OperatorLabel(lex, "<=") \/ OperatorLabel(lex, ">")

IsSynonym(text) ==
  \/ /\ Len(text.lex) = 1 /\ text.lex[1][1] = "IDENT"
     /\ LowerOf[text.lex[1][2]] \in DOMAIN WordSynonyms
  \/ ~text.spaced /\ OperatorLabels(text.lex)

Synonym(text) ==
  IF Len(text.lex) = 1 THEN WordSynonyms[LowerOf[text.lex[1][2]]]
  ELSE IF OperatorLabel(text.lex, "<=") THEN Approve
  ELSE Reject

-----------------------------------------------------------------------------

StringFields == {"status", "match_result"}

(* Identifiers that Python's float() reads as a number. *)
FloatWords == {"nan", "inf", "infinity"}

Cased(field, w) == IF field \in StringFields THEN UpperOf[w] ELSE w

(* Bug the checks must notice: a quoted value loses its quotes. *)
Unquoted(field, rhs) ==
  IF Len(rhs) # 1 THEN rhs
  ELSE LET kind == rhs[1][1]  w == rhs[1][2]
       IN CASE kind = "BOOL" -> <<<<kind, LowerOf[w]>>>>
            [] kind = "STRING" -> <<Ident(Cased(field, w))>>
            [] kind = "IDENT" /\ LowerOf[w] \notin FloatWords -> <<<<"STRING", Cased(field, w)>>>>
            [] OTHER -> rhs

(* A right-hand side of more than one piece is left to the parser, which    *)
(* refuses it.                                                              *)
NormalizeRhs(field, rhs) ==
  IF Len(rhs) # 1 THEN rhs
  ELSE LET kind == rhs[1][1]  w == rhs[1][2]
       IN CASE kind = "BOOL" -> <<<<kind, LowerOf[w]>>>>
            [] kind = "STRING" -> <<<<"STRING", Cased(field, w)>>>>
            [] kind = "IDENT" /\ LowerOf[w] \notin FloatWords -> <<<<"STRING", Cased(field, w)>>>>
            [] OTHER -> rhs

(* _INLINE_SPLIT: identifier, operator, and something. *)
IsInline(lex) ==
  Len(lex) > 2 /\ lex[1][1] \in {"IDENT", "BOOL", "AND"} /\ lex[2][1] = "OP"

NormalizeSingle(text) ==
  IF IsSynonym(text) THEN Synonym(text)
  ELSE IF IsInline(text.lex)
  THEN Text(SubSeq(text.lex, 1, 2)
            \o NormalizeRhs(text.lex[1][2], SubSeq(text.lex, 3, Len(text.lex))))
  ELSE None

Tokenizes(lex) == \A i \in DOMAIN lex : lex[i][1] # "OTHER"

IsAnd(token) == token[1] = "AND"

Simple(lex) == \A i \in DOMAIN lex : ~IsAnd(lex[i])

(* _split_tokens_on_and: a segment is known by the place where it ends, an  *)
(* AND or the end of the text.                                              *)
Ends(lex) == {i \in DOMAIN lex : IsAnd(lex[i])} \cup {Len(lex) + 1}

Start(lex, e) ==
  CHOOSE i \in 1..e : /\ i # 1 => IsAnd(lex[i - 1])
                      /\ \A j \in i..(e - 1) : ~IsAnd(lex[j])

Segments(lex) == [e \in Ends(lex) |-> SubSeq(lex, Start(lex, e), e - 1)]

TokensToString(tokens) ==
  Text([i \in DOMAIN tokens |->
          IF tokens[i][1] = "BOOL" THEN <<"BOOL", LowerOf[tokens[i][2]]>> ELSE tokens[i]])

(* " AND ".join of those that end by n, in their order.                     *)
Joined(parts, n) ==
  LET lex[k \in 0..n] ==
        IF k = 0 THEN <<>>
        ELSE IF k \notin DOMAIN parts THEN lex[k - 1]
        ELSE IF lex[k - 1] = <<>> THEN parts[k].lex
        ELSE lex[k - 1] \o <<And>> \o parts[k].lex
  IN Text(lex[n])

Normalized(lex) ==
  [e \in Ends(lex) |-> NormalizeSingle(TokensToString(Segments(lex)[e]))]

(* Bug the checks must notice: a part that means nothing is left out. *)
NormalizeLeavingOut(text) ==
  LET parts == Normalized(text.lex)
      known == {e \in DOMAIN parts : parts[e] # None}
  IN IF ~Tokenizes(text.lex) \/ Simple(text.lex) THEN NormalizeSingle(text)
     ELSE IF known = {} THEN None
     ELSE Joined([e \in known |-> parts[e]], Len(text.lex) + 1)

(* A compound is normalized part by part, and fails if a part does. *)
NormalizeCondition(text) ==
  LET parts == Normalized(text.lex)
  IN IF ~Tokenizes(text.lex) \/ Simple(text.lex) THEN NormalizeSingle(text)
     ELSE IF \E e \in DOMAIN parts : parts[e] = None THEN None
     ELSE Joined(parts, Len(text.lex) + 1)

-----------------------------------------------------------------------------

Literal(token) ==
  CASE token[1] = "BOOL"   -> <<"bool", LowerOf[token[2]] = "true">>
    [] token[1] = "INT"    -> <<"int", token[2]>>
    [] token[1] = "FLOAT"  -> <<"float", token[2]>>
    [] token[1] = "STRING" -> <<"str", token[2]>>

IsComparison(tokens) ==
  /\ Len(tokens) = 3
  /\ tokens[1][1] = "IDENT" /\ tokens[2][1] = "OP"
  /\ tokens[3][1] \in {"BOOL", "INT", "FLOAT", "STRING"}

Parses(lex) ==
  Tokenizes(lex) /\ \A e \in Ends(lex) : IsComparison(Segments(lex)[e])

Comparison(tokens) ==
  [field |-> tokens[1][2], op |-> tokens[2][2], lit |-> Literal(tokens[3])]

ParseCondition(lex) == [e \in Ends(lex) |-> Comparison(Segments(lex)[e])]

(* Whether get_predicate has something to compile, and what. (It keeps its  *)
(* answers by text, of which they are a function.)                          *)
Compiles(text) ==
  NormalizeCondition(text) # None /\ Parses(NormalizeCondition(text).lex)

Predicate(text) == ParseCondition(NormalizeCondition(text).lex)

OrdinalOps == {">", ">=", "<", "<="}

IsString(v) == v[1] = "str"

(* Python orders strings among themselves, and numbers with booleans. *)
RaisesTypeError(v, op, lit) == op \in OrdinalOps /\ IsString(v) # IsString(lit)

Rank(v) ==
  CASE v[1] = "str"  -> CHOOSE i \in DOMAIN Alphabet : Alphabet[i] = v[2]
    [] v[1] = "bool" -> IF v[2] THEN 1 ELSE 0
    [] OTHER         -> v[2]

Equals(v, lit) == IsString(v) = IsString(lit) /\ Rank(v) = Rank(lit)

Holds(c, s) ==
  LET v == s[c.field]
  IN /\ c.field \in DOMAIN s /\ v # None
     /\ ~RaisesTypeError(v, c.op, c.lit)
     /\ CASE c.op = "==" -> Equals(v, c.lit)
          [] c.op = "!=" -> ~Equals(v, c.lit)
          [] c.op = ">"  -> Rank(v) > Rank(c.lit)
          [] c.op = ">=" -> Rank(v) >= Rank(c.lit)
          [] c.op = "<"  -> Rank(v) < Rank(c.lit)
          [] c.op = "<=" -> Rank(v) <= Rank(c.lit)

(* The states on which an edge with this condition is taken: none, if there *)
(* is no predicate.                                                         *)
Meaning(text) ==
  {s \in States : Compiles(text) /\ \A e \in DOMAIN Predicate(text) : Holds(Predicate(text)[e], s)}

-----------------------------------------------------------------------------

FieldTypes ==
  [has_po |-> {"bool"}, po_match |-> {"bool"}, match_3_way |-> {"bool"},
   amount |-> {"int", "float"}, status |-> {"str"}, match_result |-> {"str"},
   retry_count |-> {"int"}]

(* APState declares these fields with these types; a value may be missing.  *)
ASSUME StatesTyped ==
  \A s \in States : \A f \in DOMAIN s \cap DOMAIN FieldTypes :
    s[f] = None \/ s[f][1] \in FieldTypes[f]

(* Bug the checks must notice: the type is looked at for equality only. *)
WarningsOnEquality(predicate) ==
  {i \in DOMAIN predicate :
     LET c == predicate[i]
     IN /\ c.field \in DOMAIN FieldTypes
        /\ \/ c.op \notin OrdinalOps /\ c.lit[1] \notin FieldTypes[c.field]
           \/ c.field \in StringFields /\ c.op \in OrdinalOps}

(* validate_condition_types: the comparisons there is a warning about. *)
TypeWarnings(predicate) ==
  {i \in DOMAIN predicate :
     LET c == predicate[i]
     IN /\ c.field \in DOMAIN FieldTypes
        /\ \/ c.lit[1] \notin FieldTypes[c.field]
           \/ c.field \in StringFields /\ c.op \in OrdinalOps}

(* What normalization is recorded to have done to a single comparison. *)
ProvenanceOfSingle(text) ==
  CASE IsSynonym(text) -> "synonym"
    [] ~IsSynonym(text) /\ NormalizeSingle(text) = None -> "unparseable"
    [] ~IsSynonym(text) /\ NormalizeSingle(text) = text -> "identity"
    [] OTHER -> "inline_canonicalization"

Provenance(text) ==
  IF Tokenizes(text.lex) /\ ~Simple(text.lex) THEN "compound"
  ELSE ProvenanceOfSingle(text)

(* diagnose_condition *)
Diagnosis(text) ==
  [provenance |-> Provenance(text), parsed |-> Compiles(text),
   warnings |-> IF Compiles(text) THEN TypeWarnings(Predicate(text)) ELSE {}]

-----------------------------------------------------------------------------

VARIABLES
  mined,   \* the condition an edge was mined with
  cond     \* the condition it has now

Init == mined \in Texts /\ cond = mined

(* normalize_edge_conditions, on this edge; the pass may run again. *)
NormalizeEdgeCondition ==
  /\ NormalizeCondition(cond) # None
  /\ cond' = NormalizeCondition(cond)
  /\ UNCHANGED mined

Next == NormalizeEdgeCondition

Spec == Init /\ [][Next]_<<mined, cond>>

-----------------------------------------------------------------------------

(* The normalizer and the router, which normalizes what it is given once    *)
(* more, agree: however often the pass runs over an edge, it is taken on    *)
(* the states on which it would have been taken unnormalized; and what the  *)
(* pass has written, the diagnosis takes for canonical.                     *)
NormalizationKeepsMeaning ==
  /\ Meaning(cond) = Meaning(mined)
  /\ cond # mined => Diagnosis(cond).provenance \in {"identity", "compound"}

(* A compound is taken exactly when each part, written as a condition of    *)
(* its own, is; one part without meaning closes the edge. Except for a part *)
(* that is one of the two labels written with an operator: taken apart into *)
(* tokens it is no longer recognized.                                       *)
CompoundIsConjunction ==
  LET parts == Segments(cond.lex)
      Part(e) == [lex |-> parts[e], spaced |-> cond.spaced]
  IN Tokenizes(cond.lex) /\ (cond.spaced \/ \A e \in DOMAIN parts : ~OperatorLabels(parts[e]))
     => Meaning(cond) = {s \in States : \A e \in DOMAIN parts : s \in Meaning(Part(e))}

(* An edge that diagnose_condition has no warning about is not silently     *)
(* closed by a TypeError: on no state, over the fields the check knows.     *)
WarningFreeNeverRaises ==
  LET p == Predicate(cond)
  IN Diagnosis(cond).parsed /\ Diagnosis(cond).warnings = {} =>
       \A i \in DOMAIN p, s \in States :
         p[i].field \in DOMAIN FieldTypes /\ p[i].field \in DOMAIN s /\ s[p[i].field] # None
         => ~RaisesTypeError(s[p[i].field], p[i].op, p[i].lit)
=============================================================================
