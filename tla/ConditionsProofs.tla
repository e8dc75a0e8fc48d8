--------------------------- MODULE ConditionsProofs ---------------------------
(***************************************************************************)
(* The condition language, for every text: normalizing it, once or again,  *)
(* does not change the states an edge is taken on, a compound is the       *)
(* conjunction of its parts, and what the static type check is silent      *)
(* about does not raise.                                                   *)
(***************************************************************************)
EXTENDS Conditions, SequenceTheorems, WellFoundedInduction, TLAPS

-----------------------------------------------------------------------------
(* Numbers and recursion.                                                    *)

(* A set of numbers has a least one.                                        *)
LEMMA Least ==
  ASSUME NEW S, S \subseteq Nat, S # {}
  PROVE  \E x \in S : \A y \in S : x <= y
<1>1. \E x \in S : \A y \in S : ~(<<y, x>> \in OpToRel(<, Nat))
  BY NatLessThanWellFounded, WFMin
<1>2. PICK x \in S : \A y \in S : ~(<<y, x>> \in OpToRel(<, Nat))
  BY <1>1
<1>3. \A y \in S : ~(y < x)
  BY <1>2 DEF OpToRel
<1> QED
  BY <1>3

(* Induction up to n, on the set of numbers something is known of.          *)
LEMMA UpTo ==
  ASSUME NEW n \in Nat, NEW S, 0 \in S, \A k \in 1..n : k - 1 \in S => k \in S
  PROVE  0..n \subseteq S
<1>1. SUFFICES ASSUME (0..n) \ S # {} PROVE FALSE
  OBVIOUS
<1>2. PICK x \in (0..n) \ S : \A y \in (0..n) \ S : x <= y
  <2>1. (0..n) \ S \subseteq Nat
    OBVIOUS
  <2> QED
    BY <1>1, <2>1, Least
<1>3. x # 0 /\ x \in 1..n /\ x - 1 \in 0..n /\ ~(x <= x - 1)
  BY <1>2
<1>4. x - 1 \in S
  BY <1>2, <1>3
<1> QED
  BY <1>2, <1>3, <1>4

StepsOn(A, n) == [1..n -> [A -> A]]

HasRun(A, n, a, step) ==
  \E f \in [0..n -> A] : f[0] = a /\ \A k \in 1..n : f[k] = step[k][f[k - 1]]

(* A function on 0..n is given by its first value and its steps.            *)
LEMMA Recursion ==
  ASSUME NEW n \in Nat, NEW A, NEW a \in A, NEW step \in StepsOn(A, n)
  PROVE  HasRun(A, n, a, step)
<1> USE DEF StepsOn, HasRun
<1> DEFINE Fits(f, m) == f[0] = a /\ \A k \in 1..m : f[k] = step[k][f[k - 1]]
           S == {m \in 0..n : \E f \in [0..m -> A] : Fits(f, m)}
<1>1. 0 \in S
  <2>1. [i \in 0..0 |-> a] \in [0..0 -> A] /\ Fits([i \in 0..0 |-> a], 0)
    OBVIOUS
  <2>2. 0 \in 0..n
    OBVIOUS
  <2> HIDE DEF Fits
  <2> QED
    BY <2>1, <2>2
<1>2. ASSUME NEW k \in 1..n, k - 1 \in S PROVE k \in S
  <2>1. PICK f \in [0..(k - 1) -> A] : Fits(f, k - 1)
    BY <1>2
  <2> DEFINE g == [i \in 0..k |-> IF i = k THEN step[k][f[k - 1]] ELSE f[i]]
  <2>2. g \in [0..k -> A]
    <3>1. f[k - 1] \in A
      OBVIOUS
    <3> QED
      BY <3>1
  <2>3. ASSUME NEW j \in 1..k PROVE g[j] = step[j][g[j - 1]]
    <3>1. CASE j = k
      BY <3>1
    <3>2. CASE j # k
      <4>1. j \in 1..(k - 1) /\ j - 1 \in 0..k /\ j - 1 # k /\ j \in 0..k
        BY <3>2
      <4> QED
        BY <2>1, <3>2, <4>1
    <3> QED
      BY <3>1, <3>2
  <2>4. g[0] = a
    BY <2>1
  <2>5. k \in 0..n
    OBVIOUS
  <2> QED
    BY <2>2, <2>3, <2>4, <2>5
<1>3. n \in S
  <2> HIDE DEF S
  <2>1. 0..n \subseteq S
    BY <1>1, <1>2, UpTo
  <2> QED
    BY <2>1
<1> QED
  BY <1>3

-----------------------------------------------------------------------------
(* Segments.                                                                 *)

IsStart(lex, e, i) ==
  /\ i \in 1..e
  /\ i # 1 => IsAnd(lex[i - 1])
  /\ \A j \in i..(e - 1) : ~IsAnd(lex[j])

(* A segment starts at one place only.                                      *)
LEMMA OneStart ==
  ASSUME NEW lex, NEW e \in Nat \ {0}, NEW i, IsStart(lex, e, i)
  PROVE  Start(lex, e) = i
<1>1. ASSUME NEW j, IsStart(lex, e, j) PROVE j = i
  <2>1. ~(i < j)
    <3>1. i < j => j # 1 /\ j - 1 \in i..(e - 1)
      BY <1>1 DEF IsStart
    <3> QED
      BY <1>1, <3>1 DEF IsStart
  <2>2. ~(j < i)
    <3>1. j < i => i # 1 /\ i - 1 \in j..(e - 1)
      BY <1>1 DEF IsStart
    <3> QED
      BY <1>1, <3>1 DEF IsStart
  <2> QED
    BY <1>1, <2>1, <2>2 DEF IsStart
<1>2. Start(lex, e) = CHOOSE j \in 1..e : IsStart(lex, e, j)
  BY DEF Start, IsStart
<1>3. \E j \in 1..e : IsStart(lex, e, j)
  BY DEF IsStart
<1> HIDE DEF IsStart
<1> QED
  BY <1>1, <1>2, <1>3

LEMMA StartFound ==
  ASSUME NEW lex, NEW e \in Nat \ {0}
  PROVE  IsStart(lex, e, Start(lex, e))
<1> DEFINE S == {i \in 1..e : \A j \in i..(e - 1) : ~IsAnd(lex[j])}
<1>1. e \in S /\ S \subseteq Nat
  OBVIOUS
<1>2. PICK i \in S : \A j \in S : i <= j
  <2> HIDE DEF S
  <2> QED
    BY <1>1, Least
<1>3. IsStart(lex, e, i)
  <2>1. SUFFICES ASSUME i # 1, ~IsAnd(lex[i - 1]) PROVE FALSE
    BY DEF IsStart
  <2>2. i - 1 \in 1..e /\ ~(i <= i - 1)
    BY <2>1
  <2>3. ASSUME NEW j \in (i - 1)..(e - 1) PROVE ~IsAnd(lex[j])
    <3>1. j = i - 1 \/ j \in i..(e - 1)
      BY <2>2
    <3> QED
      BY <2>1, <3>1
  <2>4. i - 1 \in S
    BY <2>2, <2>3
  <2> QED
    BY <1>2, <2>2, <2>4
<1> QED
  BY <1>3, OneStart

(* Where segments may end.                                                  *)
LEMMA EndsOf ==
  ASSUME NEW lex \in Seq(Token)
  PROVE  /\ Len(lex) \in Nat /\ DOMAIN lex = 1..Len(lex)
         /\ Ends(lex) \subseteq 1..(Len(lex) + 1)
         /\ Len(lex) + 1 \in Ends(lex)
         /\ \A e \in 1..Len(lex) : e \in Ends(lex) <=> IsAnd(lex[e])
BY LenProperties DEF Ends

(* A segment is a piece of the text between two ANDs, without an AND.       *)
LEMMA SegmentOf ==
  ASSUME NEW lex \in Seq(Token), NEW e \in Ends(lex)
  PROVE  LET i == Start(lex, e)  s == Segments(lex)[e]
         IN /\ e \in 1..(Len(lex) + 1) /\ i \in 1..e
            /\ s = SubSeq(lex, i, e - 1)
            /\ s \in Seq(Token) /\ Len(s) = e - i
            /\ \A j \in 1..(e - i) : s[j] = lex[i + j - 1]
            /\ Simple(s)
<1> DEFINE i == Start(lex, e)  s == Segments(lex)[e]
<1>1. e \in 1..(Len(lex) + 1) /\ Len(lex) \in Nat
  BY EndsOf
<1>2. IsStart(lex, e, i)
  BY <1>1, StartFound
<1>3. i \in 1..e /\ \A j \in i..(e - 1) : ~IsAnd(lex[j])
  BY <1>2 DEF IsStart
<1>4. s = SubSeq(lex, i, e - 1)
  BY DEF Segments
<1> HIDE DEF i, s
<1>5. \A j \in i..(e - 1) : lex[j] \in Token
  BY <1>1, <1>3, ElementOfSeq
<1>6. s \in Seq(Token) /\ Len(s) = e - i /\ \A j \in 1..(e - i) : s[j] = lex[i + j - 1]
  BY <1>1, <1>3, <1>4, <1>5, SubSeqProperties
<1>7. Simple(s)
  <2>1. DOMAIN s = 1..(e - i)
    BY <1>6, LenProperties
  <2>2. ASSUME NEW j \in 1..(e - i) PROVE ~IsAnd(s[j])
    <3>1. i + j - 1 \in i..(e - 1)
      BY <1>1, <1>3
    <3> QED
      BY <1>3, <1>6, <3>1
  <2> QED
    BY <2>1, <2>2 DEF Simple
<1> QED
  BY <1>1, <1>3, <1>4, <1>6, <1>7 DEF i, s

(* A text without AND has one segment, itself.                              *)
LEMMA SegmentsOfSimple ==
  ASSUME NEW lex \in Seq(Token), Simple(lex)
  PROVE  Ends(lex) = {Len(lex) + 1} /\ Segments(lex)[Len(lex) + 1] = lex
<1>1. Ends(lex) = {Len(lex) + 1}
  BY EndsOf DEF Simple
<1>2. IsStart(lex, Len(lex) + 1, 1)
  BY EndsOf DEF IsStart, Simple
<1>3. Start(lex, Len(lex) + 1) = 1
  BY <1>2, EndsOf, OneStart
<1>4. Segments(lex)[Len(lex) + 1] = SubSeq(lex, 1, (Len(lex) + 1) - 1)
  BY <1>1, <1>3 DEF Segments
<1> QED
  BY <1>1, <1>4, EndsOf, SubSeqFull

(* One more part after an AND is one more segment.                          *)
LEMMA Appended ==
  ASSUME NEW lex \in Seq(Token), NEW p \in Seq(Token), Simple(p),
         NEW b, b = lex \o <<And>> \o p
  PROVE  /\ b \in Seq(Token) /\ Ends(b) = Ends(lex) \cup {Len(b) + 1}
         /\ \A e \in Ends(lex) : Segments(b)[e] = Segments(lex)[e]
         /\ Segments(b)[Len(b) + 1] = p
<1> DEFINE m == Len(lex)  n == Len(p)
<1>1. m \in Nat /\ n \in Nat /\ DOMAIN p = 1..n
  BY LenProperties
<1>2. And \in Token /\ <<And>> \in Seq(Token) /\ Len(<<And>>) = 1 /\ <<And>>[1] = And
  <2>1. And \in Token
    BY DEF Token
  <2> HIDE DEF And
  <2> QED
    BY <2>1
<1>3. lex \o <<And>> \in Seq(Token) /\ Len(lex \o <<And>>) = m + 1
  BY <1>2, ConcatProperties
<1>4. \A j \in 1..(m + 1) : (lex \o <<And>>)[j] = IF j <= m THEN lex[j] ELSE And
  <2>1. \A j \in 1..(m + 1) : (lex \o <<And>>)[j] = IF j <= m THEN lex[j] ELSE <<And>>[j - m]
    BY <1>2, ConcatProperties
  <2>2. \A j \in 1..(m + 1) : ~(j <= m) => j - m = 1
    BY <1>1
  <2> QED
    BY <1>2, <2>1, <2>2
<1>5. b \in Seq(Token) /\ Len(b) = m + 1 + n
  BY <1>3, ConcatProperties
<1>6. \A j \in 1..(m + 1 + n) :
        b[j] = IF j <= m + 1 THEN (lex \o <<And>>)[j] ELSE p[j - (m + 1)]
  BY <1>3, ConcatProperties
<1>7. /\ \A j \in 1..m : b[j] = lex[j]
      /\ b[m + 1] = And
      /\ \A j \in 1..n : b[m + 1 + j] = p[j]
  <2>1. \A j \in 1..m : b[j] = lex[j]
    BY <1>1, <1>4, <1>6
  <2>2. b[m + 1] = And
    BY <1>1, <1>4, <1>6
  <2>3. ASSUME NEW j \in 1..n PROVE b[m + 1 + j] = p[j]
    <3>1. m + 1 + j \in 1..(m + 1 + n) /\ ~(m + 1 + j <= m + 1) /\ (m + 1 + j) - (m + 1) = j
      BY <1>1
    <3> QED
      BY <1>6, <3>1
  <2> QED
    BY <2>1, <2>2, <2>3
<1>8. IsAnd(And) /\ \A j \in 1..n : ~IsAnd(p[j])
  BY <1>1 DEF IsAnd, And, Simple
<1>9. Ends(b) = Ends(lex) \cup {Len(b) + 1}
  <2>1. ASSUME NEW e \in 1..(m + 1 + n)
        PROVE  e \in Ends(b) <=> e \in Ends(lex)
    <3>1. e \in Ends(b) <=> IsAnd(b[e])
      BY <1>5, EndsOf
    <3>2. CASE e \in 1..m
      BY <3>1, <3>2, <1>7, EndsOf
    <3>3. CASE e = m + 1
      BY <3>1, <3>3, <1>7, <1>8, EndsOf
    <3>4. CASE e > m + 1
      <4>1. e - (m + 1) \in 1..n /\ m + 1 + (e - (m + 1)) = e
        BY <1>1, <3>4
      <4>2. ~IsAnd(b[e])
        BY <1>7, <1>8, <4>1
      <4>3. e \notin Ends(lex)
        BY <1>1, <3>4, EndsOf
      <4> QED
        BY <3>1, <4>2, <4>3
    <3> QED
      BY <1>1, <3>2, <3>3, <3>4
  <2>9. Ends(b) \subseteq 1..(Len(b) + 1) /\ Len(b) + 1 \in Ends(b)
    <3>1. b \in Seq(Token)
      BY <1>5
    <3> QED
      BY ONLY <3>1, EndsOf
  <2>3. Len(b) + 1 = m + 2 + n /\ Len(b) + 1 \in Ends(b)
    BY <1>1, <1>5, <2>9
  <2>2. Ends(b) \subseteq 1..(m + 2 + n) /\ Ends(lex) \subseteq 1..(m + 1)
    <3>1. Ends(lex) \subseteq 1..(m + 1)
      BY EndsOf
    <3> HIDE DEF m, n
    <3> QED
      BY <2>9, <2>3, <3>1
  <2> HIDE DEF m, n
  <2>4. ASSUME NEW e \in Ends(b) PROVE e \in Ends(lex) \/ e = Len(b) + 1
    BY <1>1, <2>1, <2>2, <2>3
  <2>5. ASSUME NEW e \in Ends(lex) PROVE e \in Ends(b)
    BY <1>1, <2>1, <2>2
  <2> QED
    BY <2>3, <2>4, <2>5
<1>10. ASSUME NEW e \in Ends(lex) PROVE Segments(b)[e] = Segments(lex)[e]
  <2> DEFINE i == Start(lex, e)
  <2>1. e \in 1..(m + 1) /\ e \in Ends(b)
    BY <1>9, EndsOf
  <2>2. IsStart(lex, e, i)
    BY <2>1, <1>1, StartFound
  <2>3. IsStart(b, e, i)
    BY <1>1, <1>7, <2>1, <2>2 DEF IsStart
  <2>4. Start(b, e) = i
    BY <2>1, <2>3, OneStart
  <2>5. i \in 1..e
    BY <2>2 DEF IsStart
  <2> HIDE DEF i
  <2>6. /\ Segments(b)[e] \in Seq(Token) /\ Len(Segments(b)[e]) = e - i
        /\ \A j \in 1..(e - i) : Segments(b)[e][j] = b[i + j - 1]
    BY <1>5, <2>1, <2>4, SegmentOf
  <2>7. /\ Segments(lex)[e] \in Seq(Token) /\ Len(Segments(lex)[e]) = e - i
        /\ \A j \in 1..(e - i) : Segments(lex)[e][j] = lex[i + j - 1]
    BY SegmentOf DEF i
  <2>8. \A j \in 1..(e - i) : Segments(b)[e][j] = Segments(lex)[e][j]
    <3>1. \A j \in 1..(e - i) : i + j - 1 \in 1..m
      BY <1>1, <2>1, <2>5
    <3> QED
      BY <1>7, <2>6, <2>7, <3>1
  <2> QED
    BY <2>6, <2>7, <2>8, SeqEqual
<1>11. Segments(b)[Len(b) + 1] = p
  <2> DEFINE e == Len(b) + 1
  <2>1. e = m + 2 + n /\ e \in Ends(b)
    BY <1>1, <1>5, <1>9
  <2> HIDE DEF e
  <2>2. IsStart(b, e, m + 2)
    <3>1. b[(m + 2) - 1] = And
      BY <1>1, <1>7
    <3>2. ASSUME NEW j \in (m + 2)..(e - 1) PROVE ~IsAnd(b[j])
      <4>1. j - (m + 1) \in 1..n /\ m + 1 + (j - (m + 1)) = j
        BY <1>1, <2>1
      <4> QED
        BY <1>7, <1>8, <4>1
    <3> QED
      BY <1>1, <1>8, <2>1, <3>1, <3>2 DEF IsStart
  <2>3. Start(b, e) = m + 2
    BY <1>1, <2>1, <2>2, OneStart
  <2>4. /\ Segments(b)[e] \in Seq(Token) /\ Len(Segments(b)[e]) = e - (m + 2)
        /\ \A j \in 1..(e - (m + 2)) : Segments(b)[e][j] = b[m + 2 + j - 1]
    <3>1. LET i == Start(b, e)
          IN /\ Segments(b)[e] \in Seq(Token) /\ Len(Segments(b)[e]) = e - i
             /\ \A j \in 1..(e - i) : Segments(b)[e][j] = b[i + j - 1]
      BY <1>5, <2>1, SegmentOf
    <3> HIDE DEF m
    <3> QED
      BY <2>3, <3>1
  <2>5. \A j \in 1..n : Segments(b)[e][j] = p[j]
    <3>1. e - (m + 2) = n /\ \A j \in 1..n : m + 2 + j - 1 = m + 1 + j
      BY <1>1, <2>1
    <3> QED
      BY <1>7, <2>4, <3>1
  <2>6. Len(Segments(b)[e]) = n
    BY <1>1, <2>1, <2>4
  <2> QED
    BY <2>4, <2>5, <2>6, SeqEqual DEF e
<1> QED
  BY <1>5, <1>9, <1>10, <1>11

-----------------------------------------------------------------------------
(* Joining parts.                                                            *)

Pieces(lex) == {Segments(lex)[e] : e \in Ends(lex)}

(* Parts of a compound, known by numbers up to n.                           *)
ArePartsUpTo(parts, n) ==
  /\ DOMAIN parts \subseteq 1..n
  /\ \A e \in DOMAIN parts :
       /\ parts[e].lex \in Seq(Token) /\ parts[e].lex # <<>>
       /\ Simple(parts[e].lex) /\ Tokenizes(parts[e].lex)

Extended(lex, parts, k) ==
  IF k \notin DOMAIN parts THEN lex
  ELSE IF lex = <<>> THEN parts[k].lex
  ELSE lex \o <<And>> \o parts[k].lex

(* What Joined computes is what its steps say.                              *)
LEMMA JoinedStepwise ==
  ASSUME NEW n \in Nat, NEW parts, ArePartsUpTo(parts, n)
  PROVE  \E f \in [0..n -> Seq(Token)] :
           /\ f[0] = <<>> /\ \A k \in 1..n : f[k] = Extended(f[k - 1], parts, k)
           /\ Joined(parts, n) = Text(f[n])
<1> DEFINE Unfolds(f) ==
             f = [k \in 0..n |->
                    IF k = 0 THEN <<>>
                    ELSE IF k \notin DOMAIN parts THEN f[k - 1]
                    ELSE IF f[k - 1] = <<>> THEN parts[k].lex
                    ELSE f[k - 1] \o <<And>> \o parts[k].lex]
           step == [k \in 1..n |-> [lex \in Seq(Token) |-> Extended(lex, parts, k)]]
<1>1. And \in Token /\ <<>> \in Seq(Token)
  <2>1. And \in Token
    BY DEF Token
  <2>2. <<>> \in Seq(Token)
    BY EmptySeq
  <2> QED
    BY <2>1, <2>2
<1>2. <<And>> \in Seq(Token)
  <2> HIDE DEF And
  <2> QED
    BY <1>1
<1>3. ASSUME NEW k \in 1..n, NEW lex \in Seq(Token)
      PROVE  Extended(lex, parts, k) \in Seq(Token)
  <2>1. CASE k \in DOMAIN parts
    <3>1. parts[k].lex \in Seq(Token)
      BY <2>1 DEF ArePartsUpTo
    <3>2. lex \o <<And>> \in Seq(Token)
      BY <1>2, ConcatProperties
    <3>3. lex \o <<And>> \o parts[k].lex \in Seq(Token)
      BY <3>1, <3>2, ConcatProperties
    <3> QED
      BY <3>1, <3>3 DEF Extended
  <2>2. CASE k \notin DOMAIN parts
    BY <2>2 DEF Extended
  <2> QED
    BY <2>1, <2>2
<1>4. step \in [1..n -> [Seq(Token) -> Seq(Token)]]
  BY <1>3
<1>5. PICK g \in [0..n -> Seq(Token)] : g[0] = <<>> /\ \A k \in 1..n : g[k] = step[k][g[k - 1]]
  <2>1. step \in StepsOn(Seq(Token), n)
    BY <1>4 DEF StepsOn
  <2> HIDE DEF step
  <2>2. HasRun(Seq(Token), n, <<>>, step)
    BY <1>1, <2>1, Recursion
  <2> QED
    BY <2>2 DEF HasRun
<1>6. ASSUME NEW k \in 1..n PROVE g[k] = Extended(g[k - 1], parts, k)
  <2>1. k - 1 \in 0..n
    OBVIOUS
  <2>2. g[k - 1] \in Seq(Token)
    BY <2>1
  <2> QED
    BY <1>5, <2>2
<1>7. Unfolds(g)
  <2>1. ASSUME NEW k \in 0..n
        PROVE  g[k] = IF k = 0 THEN <<>>
                      ELSE IF k \notin DOMAIN parts THEN g[k - 1]
                      ELSE IF g[k - 1] = <<>> THEN parts[k].lex
                      ELSE g[k - 1] \o <<And>> \o parts[k].lex
    <3>1. CASE k = 0
      BY <3>1, <1>5
    <3>2. CASE k # 0
      <4>1. k \in 1..n
        BY <3>2
      <4> QED
        BY <3>2, <4>1, <1>6 DEF Extended
    <3> QED
      BY <3>1, <3>2
  <2> QED
    BY <2>1
<1> DEFINE f == CHOOSE h : Unfolds(h)
<1>8. Unfolds(f)
  <2> HIDE DEF Unfolds
  <2> QED
    BY <1>7
<1>9. Joined(parts, n) = Text(f[n])
  BY DEF Joined
<1> HIDE DEF f
<1>10. f[0] = <<>>
  BY <1>8
<1>11. ASSUME NEW k \in 1..n PROVE f[k] = Extended(f[k - 1], parts, k)
  <2>1. k \in 0..n /\ k # 0
    OBVIOUS
  <2> QED
    BY <1>8, <2>1 DEF Extended
<1>12. f = g
  <2> DEFINE S == {k \in 0..n : f[k] = g[k]}
  <2>1. 0 \in S
    BY <1>5, <1>10
  <2>2. ASSUME NEW k \in 1..n, k - 1 \in S PROVE k \in S
    BY <2>2, <1>6, <1>11
  <2>3. 0..n \subseteq S
    <3> HIDE DEF S
    <3> QED
      BY <2>1, <2>2, UpTo
  <2>4. \A k \in 0..n : f[k] = g[k]
    BY <2>3
  <2>5. DOMAIN f = 0..n /\ f = [k \in DOMAIN f |-> f[k]]
    BY <1>8
  <2> QED
    BY <2>4, <2>5
<1> QED
  BY <1>9, <1>10, <1>11, <1>12

(* A first part is the whole text so far.                                   *)
LEMMA PiecesOfSimple ==
  ASSUME NEW lex \in Seq(Token), Simple(lex)
  PROVE  Pieces(lex) = {lex}
BY SegmentsOfSimple DEF Pieces

LEMMA PiecesOfAppended ==
  ASSUME NEW lex \in Seq(Token), NEW p \in Seq(Token), Simple(p)
  PROVE  LET b == lex \o <<And>> \o p
         IN /\ b \in Seq(Token) /\ b # <<>> /\ ~Simple(b)
            /\ Pieces(b) = Pieces(lex) \cup {p}
            /\ Tokenizes(lex) /\ Tokenizes(p) => Tokenizes(b)
<1> DEFINE b == lex \o <<And>> \o p
<1>1. /\ b \in Seq(Token) /\ Ends(b) = Ends(lex) \cup {Len(b) + 1}
      /\ \A e \in Ends(lex) : Segments(b)[e] = Segments(lex)[e]
      /\ Segments(b)[Len(b) + 1] = p
  BY Appended
<1>2. And \in Token
  BY DEF Token
<1>3. <<And>> \in Seq(Token) /\ Len(<<And>>) = 1 /\ <<And>>[1] = And
  <2> HIDE DEF And
  <2> QED
    BY <1>2
<1>4. /\ lex \o <<And>> \in Seq(Token) /\ Len(lex \o <<And>>) = Len(lex) + 1
      /\ \A j \in 1..(Len(lex) + 1) :
           (lex \o <<And>>)[j] = IF j <= Len(lex) THEN lex[j] ELSE <<And>>[j - Len(lex)]
  BY <1>3, ConcatProperties
<1>5. /\ Len(b) = Len(lex) + 1 + Len(p)
      /\ \A j \in 1..(Len(lex) + 1 + Len(p)) :
           b[j] = IF j <= Len(lex) + 1 THEN (lex \o <<And>>)[j] ELSE p[j - (Len(lex) + 1)]
  BY <1>4, ConcatProperties
<1> HIDE DEF b
<1>6. Len(lex) \in Nat /\ Len(p) \in Nat /\ DOMAIN b = 1..Len(b)
  BY <1>1, LenProperties
<1>7. Len(lex) + 1 \in 1..Len(b) /\ b # <<>>
  BY <1>5, <1>6
<1>8. ~Simple(b)
  <2>1. Len(lex) + 1 \in Ends(b)
    BY <1>1, EndsOf
  <2>2. IsAnd(b[Len(lex) + 1])
    BY <1>1, <1>7, <2>1, EndsOf
  <2> QED
    BY <1>6, <1>7, <2>2 DEF Simple
<1>9. Pieces(b) = Pieces(lex) \cup {p}
  BY <1>1 DEF Pieces
<1>10. ASSUME Tokenizes(lex), Tokenizes(p) PROVE Tokenizes(b)
  <2>1. ASSUME NEW j \in 1..Len(b) PROVE b[j][1] # "OTHER"
    <3>1. CASE j <= Len(lex)
      <4>1. b[j] = lex[j] /\ j \in DOMAIN lex
        BY <1>4, <1>5, <1>6, <3>1, LenProperties
      <4> QED
        BY <1>10, <4>1 DEF Tokenizes
    <3>2. CASE j = Len(lex) + 1
      <4>1. b[j] = And
        BY <1>3, <1>4, <1>5, <1>6, <3>2
      <4> QED
        BY <4>1 DEF And
    <3>3. CASE j > Len(lex) + 1
      <4>1. b[j] = p[j - (Len(lex) + 1)] /\ j - (Len(lex) + 1) \in DOMAIN p
        BY <1>5, <1>6, <3>3, LenProperties
      <4> QED
        BY <1>10, <4>1 DEF Tokenizes
    <3> QED
      BY <1>6, <3>1, <3>2, <3>3
  <2> QED
    BY <1>6, <2>1 DEF Tokenizes
<1> QED
  BY <1>1, <1>7, <1>8, <1>9, <1>10 DEF b

(* The joined text consists of the parts: its segments are theirs, all of   *)
(* them and no other.                                                       *)
LEMMA JoinedPieces ==
  ASSUME NEW n \in Nat, NEW parts, ArePartsUpTo(parts, n), DOMAIN parts # {}
  PROVE  LET lex == Joined(parts, n).lex
         IN /\ Joined(parts, n) = Text(lex) /\ lex \in Seq(Token)
            /\ Pieces(lex) = {parts[e].lex : e \in DOMAIN parts}
            /\ Tokenizes(lex)
            /\ \A i, j \in DOMAIN parts : i < j => ~Simple(lex)
<1>1. PICK f \in [0..n -> Seq(Token)] :
        /\ f[0] = <<>> /\ \A k \in 1..n : f[k] = Extended(f[k - 1], parts, k)
        /\ Joined(parts, n) = Text(f[n])
  BY JoinedStepwise
<1> DEFINE D(k) == {e \in DOMAIN parts : e <= k}
           Good(k) ==
             /\ Tokenizes(f[k])
             /\ D(k) = {} => f[k] = <<>>
             /\ D(k) # {} => /\ f[k] # <<>>
                             /\ Pieces(f[k]) = {parts[e].lex : e \in D(k)}
             /\ \A i, j \in D(k) : i < j => ~Simple(f[k])
           S == {k \in 0..n : Good(k)}
<1>2. DOMAIN parts \subseteq 1..n
  BY DEF ArePartsUpTo
<1>3. 0 \in S
  <2>1. D(0) = {}
    BY <1>2
  <2>2. Tokenizes(<<>>)
    BY DEF Tokenizes
  <2>3. 0 \in 0..n
    OBVIOUS
  <2> QED
    BY <1>1, <2>1, <2>2, <2>3
<1>4. ASSUME NEW k \in 1..n, k - 1 \in S PROVE k \in S
  <2>1. k - 1 \in 0..n /\ k \in 0..n /\ Good(k - 1)
    BY <1>4
  <2>2. f[k - 1] \in Seq(Token) /\ f[k] = Extended(f[k - 1], parts, k)
    BY <1>1, <2>1
  <2>3. D(k) = D(k - 1) \cup (DOMAIN parts \cap {k})
    BY <1>2
  <2>4. k \notin D(k - 1)
    OBVIOUS
  <2> HIDE DEF D
  <2>5. CASE k \notin DOMAIN parts
    <3>1. D(k) = D(k - 1) /\ f[k] = f[k - 1]
      BY <2>2, <2>3, <2>5 DEF Extended
    <3> QED
      BY <2>1, <3>1
  <2>6. CASE k \in DOMAIN parts /\ D(k - 1) = {}
    <3> DEFINE p == parts[k].lex
    <3>1. D(k) = {k} /\ f[k] = p
      BY <2>1, <2>2, <2>3, <2>6 DEF Extended
    <3>2. p \in Seq(Token) /\ p # <<>> /\ Simple(p) /\ Tokenizes(p)
      BY <2>6 DEF ArePartsUpTo
    <3>3. Pieces(p) = {p}
      BY <3>2, PiecesOfSimple
    <3>4. Pieces(f[k]) = {parts[e].lex : e \in D(k)}
      BY <3>1, <3>3
    <3>5. \A i, j \in D(k) : ~(i < j)
      BY <3>1
    <3> HIDE DEF p
    <3> QED
      BY <2>1, <3>1, <3>2, <3>4, <3>5
  <2>7. CASE k \in DOMAIN parts /\ D(k - 1) # {}
    <3> DEFINE p == parts[k].lex  a == f[k - 1]  b == a \o <<And>> \o p
    <3>1. D(k) = D(k - 1) \cup {k} /\ f[k] = b
      BY <2>1, <2>2, <2>3, <2>7 DEF Extended
    <3>2. p \in Seq(Token) /\ Simple(p) /\ Tokenizes(p)
      BY <2>7 DEF ArePartsUpTo
    <3>3. Tokenizes(a) /\ Pieces(a) = {parts[e].lex : e \in D(k - 1)}
      BY <2>1, <2>7
    <3>4. b # <<>> /\ ~Simple(b) /\ Pieces(b) = Pieces(a) \cup {p} /\ Tokenizes(b)
      BY <2>2, <3>2, <3>3, PiecesOfAppended
    <3> HIDE DEF b
    <3>5. Pieces(b) = {parts[e].lex : e \in D(k)}
      BY <3>1, <3>3, <3>4
    <3> QED
      BY <2>1, <3>1, <3>4, <3>5
  <2> QED
    BY <2>5, <2>6, <2>7
<1>5. Good(n)
  <2>1. 0..n \subseteq S
    <3> HIDE DEF S
    <3> QED
      BY <1>3, <1>4, UpTo
  <2>2. n \in 0..n
    OBVIOUS
  <2> QED
    BY <2>1, <2>2
<1>6. D(n) = DOMAIN parts
  <2>1. \A e \in DOMAIN parts : e <= n
    BY <1>2
  <2> QED
    BY <2>1
<1>7. Joined(parts, n).lex = f[n] /\ Joined(parts, n) = Text(f[n]) /\ f[n] \in Seq(Token)
  BY <1>1 DEF Text
<1> HIDE DEF D
<1> QED
  BY <1>5, <1>6, <1>7

-----------------------------------------------------------------------------
(* What normalizing a single comparison leaves.                              *)

LEMMA TokenForms ==
  ASSUME NEW t \in Token
  PROVE  /\ t = <<t[1], t[2]>>
         /\ t[1] \in {"IDENT", "BOOL", "STRING"} => t[2] \in Words
         /\ t[1] = "OP" => t[2] \in {"==", "!=", ">", ">=", "<", "<="}
         /\ IsAnd(t) => t = And
<1>1. CASE t \in {"IDENT", "BOOL", "STRING"} \X Words
  BY <1>1 DEF IsAnd
<1>2. CASE t \in {"INT", "FLOAT", "PYNUM"} \X Int
  BY <1>2 DEF IsAnd
<1>3. CASE t \in {Op(o) : o \in {"==", "!=", ">", ">=", "<", "<="}}
  BY <1>3 DEF IsAnd, Op
<1>4. CASE t = And
  BY <1>4 DEF And
<1>5. CASE t = <<"OTHER", "">>
  BY <1>5 DEF IsAnd
<1> QED
  BY <1>1, <1>2, <1>3, <1>4, <1>5 DEF Token

LEMMA CasedTwice ==
  ASSUME NEW field, NEW w \in Words
  PROVE  Cased(field, w) \in Words /\ Cased(field, Cased(field, w)) = Cased(field, w)
BY WordsHaveCases DEF Cased

(* The one piece a right-hand side may consist of, normalized.              *)
RhsToken(field, t) ==
  CASE t[1] = "BOOL" -> <<"BOOL", LowerOf[t[2]]>>
    [] t[1] = "STRING" -> <<"STRING", Cased(field, t[2])>>
    [] t[1] = "IDENT" /\ LowerOf[t[2]] \notin FloatWords -> <<"STRING", Cased(field, t[2])>>
    [] OTHER -> t

LEMMA RhsTokenTwice ==
  ASSUME NEW field, NEW t \in Token
  PROVE  LET u == RhsToken(field, t)
         IN /\ u \in Token /\ RhsToken(field, u) = u
            /\ IsAnd(u) <=> IsAnd(t)
            /\ u[1] = "OTHER" <=> t[1] = "OTHER"
            /\ u[1] = "BOOL" <=> t[1] = "BOOL"
            /\ u[1] = "BOOL" => u[2] = LowerOf[t[2]]
<1>1. CASE t[1] = "BOOL"
  <2>1. t[2] \in Words /\ LowerOf[t[2]] \in Words /\ LowerOf[LowerOf[t[2]]] = LowerOf[t[2]]
    BY <1>1, TokenForms, WordsHaveCases
  <2>2. RhsToken(field, t) = <<"BOOL", LowerOf[t[2]]>>
    BY <1>1 DEF RhsToken
  <2>3. RhsToken(field, <<"BOOL", LowerOf[t[2]]>>) = <<"BOOL", LowerOf[LowerOf[t[2]]]>>
    BY DEF RhsToken
  <2>4. <<"BOOL", LowerOf[t[2]]>> \in Token
    BY <2>1 DEF Token
  <2> QED
    BY <1>1, <2>1, <2>2, <2>3, <2>4 DEF IsAnd
<1>2. CASE t[1] = "STRING" \/ (t[1] = "IDENT" /\ LowerOf[t[2]] \notin FloatWords)
  <2> DEFINE w == Cased(field, t[2])
  <2>1. w \in Words /\ Cased(field, w) = w
    BY <1>2, TokenForms, CasedTwice
  <2>2. RhsToken(field, t) = <<"STRING", w>>
    BY <1>2 DEF RhsToken
  <2> HIDE DEF w
  <2>3. RhsToken(field, <<"STRING", w>>) = <<"STRING", Cased(field, w)>>
    BY DEF RhsToken
  <2>4. <<"STRING", w>> \in Token
    BY <2>1 DEF Token
  <2> QED
    BY <1>2, <2>1, <2>2, <2>3, <2>4 DEF IsAnd
<1>3. CASE /\ t[1] # "BOOL" /\ t[1] # "STRING"
           /\ ~(t[1] = "IDENT" /\ LowerOf[t[2]] \notin FloatWords)
  <2>1. RhsToken(field, t) = t
    BY <1>3 DEF RhsToken
  <2> QED
    BY <1>3, <2>1
<1> QED
  BY <1>1, <1>2, <1>3

(* An inline comparison, normalized: as it was, but for the right-hand side *)
(* if that is one piece.                                                    *)
Inlined(lex) == SubSeq(lex, 1, 2) \o NormalizeRhs(lex[1][2], SubSeq(lex, 3, Len(lex)))

LEMMA InlinedPieces ==
  ASSUME NEW lex \in Seq(Token), IsInline(lex)
  PROVE  /\ Inlined(lex) \in Seq(Token) /\ Len(Inlined(lex)) = Len(lex)
         /\ \A j \in 1..Len(lex) :
              Inlined(lex)[j] = IF j = 3 /\ Len(lex) = 3 THEN RhsToken(lex[1][2], lex[3])
                                ELSE lex[j]
<1> DEFINE m == Len(lex)  a == SubSeq(lex, 1, 2)  b == SubSeq(lex, 3, m)
           c == NormalizeRhs(lex[1][2], b)
<1>1. m \in Nat /\ m > 2 /\ \A j \in 1..m : lex[j] \in Token
  BY LenProperties, ElementOfSeq DEF IsInline
<1> HIDE DEF m
<1>2. a \in Seq(Token) /\ Len(a) = 2 /\ \A j \in 1..2 : a[j] = lex[j]
  <2>1. \A j \in 1..2 : lex[j] \in Token
    BY <1>1
  <2>2. /\ a \in Seq(Token) /\ Len(a) = 2 - 1 + 1
        /\ \A j \in 1..(2 - 1 + 1) : a[j] = lex[1 + j - 1]
    BY <2>1, SubSeqProperties
  <2> QED
    BY <2>2
<1>3. b \in Seq(Token) /\ Len(b) = m - 2 /\ \A j \in 1..(m - 2) : b[j] = lex[2 + j]
  <2>1. \A j \in 3..m : lex[j] \in Token
    BY <1>1
  <2>2. /\ b \in Seq(Token) /\ Len(b) = m - 3 + 1
        /\ \A j \in 1..(m - 3 + 1) : b[j] = lex[3 + j - 1]
    BY <1>1, <2>1, SubSeqProperties
  <2> QED
    BY <1>1, <2>2
<1> HIDE DEF a, b
<1>4. /\ c \in Seq(Token) /\ Len(c) = m - 2
      /\ \A j \in 1..(m - 2) : c[j] = IF m = 3 THEN RhsToken(lex[1][2], lex[3]) ELSE lex[2 + j]
  <2>1. CASE m = 3
    <3> DEFINE t == RhsToken(lex[1][2], lex[3])
    <3>1. Len(b) = 1 /\ b[1] = lex[3] /\ lex[3] \in Token
      BY <1>1, <1>3, <2>1
    <3> DEFINE x == lex[3]
    <3> HIDE DEF x
    <3>2. b = <<x>>
      <4>1. <<x>> \in Seq(Token) /\ Len(<<x>>) = 1 /\ <<x>>[1] = x
        BY <3>1 DEF x
      <4>2. ASSUME NEW i \in 1..Len(b) PROVE b[i] = <<x>>[i]
        <5>1. i = 1
          BY <3>1
        <5> QED
          BY <3>1, <4>1, <5>1 DEF x
      <4>3. Len(b) = Len(<<x>>)
        BY <3>1, <4>1
      <4> QED
        BY <1>3, <4>1, <4>2, <4>3, SeqEqual
    <3>3. c = <<t>>
      BY <3>1, <3>2 DEF NormalizeRhs, RhsToken, x
    <3>4. t \in Token
      BY <3>1, RhsTokenTwice
    <3> HIDE DEF t
    <3>5. c \in Seq(Token) /\ Len(c) = 1 /\ c[1] = t
      BY <3>3, <3>4
    <3> QED
      BY <2>1, <3>5 DEF t
  <2>2. CASE m # 3
    <3>1. Len(b) # 1 /\ c = b
      BY <1>1, <1>3, <2>2 DEF NormalizeRhs
    <3> QED
      BY <1>3, <2>2, <3>1
  <2> QED
    BY <2>1, <2>2
<1> HIDE DEF c
<1>5. /\ a \o c \in Seq(Token) /\ Len(a \o c) = m
      /\ \A j \in 1..m : (a \o c)[j] = IF j <= 2 THEN a[j] ELSE c[j - 2]
  <2>1. /\ a \o c \in Seq(Token) /\ Len(a \o c) = Len(a) + Len(c)
        /\ \A j \in 1..(Len(a) + Len(c)) : (a \o c)[j] = IF j <= Len(a) THEN a[j] ELSE c[j - Len(a)]
    BY <1>2, <1>4, ConcatProperties
  <2>2. Len(a) = 2 /\ Len(a) + Len(c) = m
    BY <1>1, <1>2, <1>4
  <2> QED
    BY <2>1, <2>2
<1>6. Inlined(lex) = a \o c
  BY DEF Inlined, a, c, b, m
<1>7. ASSUME NEW j \in 1..m
      PROVE  (a \o c)[j] = IF j = 3 /\ m = 3 THEN RhsToken(lex[1][2], lex[3]) ELSE lex[j]
  <2>1. CASE j <= 2
    BY <1>1, <1>2, <1>5, <2>1
  <2>2. CASE j > 2
    <3>1. j - 2 \in 1..(m - 2) /\ 2 + (j - 2) = j
      BY <1>1, <2>2
    <3> QED
      BY <1>1, <1>4, <1>5, <2>2, <3>1
  <2>3. j <= 2 \/ j > 2
    BY <1>1
  <2> QED
    BY <2>1, <2>2, <2>3
<1> QED
  BY <1>5, <1>6, <1>7 DEF m

(* A text the normalizer leaves as it is.                                   *)
CanonicalText(r) ==
  /\ r.lex \in Seq(Token) /\ r = Text(r.lex) /\ IsInline(r.lex)
  /\ Len(r.lex) = 3 => RhsToken(r.lex[1][2], r.lex[3]) = r.lex[3]

Lowered(lex) == \A j \in DOMAIN lex : lex[j][1] = "BOOL" => LowerOf[lex[j][2]] = lex[j][2]

LEMMA CanonicalIsFixed ==
  ASSUME NEW r, CanonicalText(r)
  PROVE  ~IsSynonym(r) /\ NormalizeSingle(r) = r /\ r # None
<1> DEFINE lex == r.lex
<1>1. lex \in Seq(Token) /\ r = Text(lex) /\ IsInline(lex)
  BY DEF CanonicalText
<1>2. r # None
  <2> HIDE DEF lex
  <2>1. r \in [lex : Seq(Token), spaced : BOOLEAN]
    BY <1>1 DEF Text
  <2> QED
    BY <2>1, TextsTyped
<1>3. ~IsSynonym(r)
  BY <1>1 DEF IsSynonym, IsInline, Text
<1>4. NormalizeSingle(r) = Text(Inlined(lex))
  BY <1>1, <1>3 DEF NormalizeSingle, Inlined
<1>5. /\ Inlined(lex) \in Seq(Token) /\ Len(Inlined(lex)) = Len(lex)
      /\ \A j \in 1..Len(lex) :
           Inlined(lex)[j] = IF j = 3 /\ Len(lex) = 3 THEN RhsToken(lex[1][2], lex[3])
                             ELSE lex[j]
  BY <1>1, InlinedPieces
<1>6. \A j \in 1..Len(lex) : Inlined(lex)[j] = lex[j]
  BY <1>5 DEF CanonicalText
<1>7. Inlined(lex) = lex
  BY <1>1, <1>5, <1>6, SeqEqual
<1> QED
  BY <1>1, <1>2, <1>3, <1>4, <1>7

LEMMA ThreePieces ==
  ASSUME NEW f \in Words, NEW o \in {"==", "!=", ">", ">=", "<", "<="}, NEW t \in Token,
         t[1] # "AND", t[1] # "OTHER", RhsToken(f, t) = t
  PROVE  LET r == Text(<<Ident(f), Op(o), t>>)
         IN CanonicalText(r) /\ Simple(r.lex) /\ Tokenizes(r.lex) /\ Lowered(r.lex)
<1> DEFINE a == Ident(f)  b == Op(o)  lex == <<a, b, t>>
<1>1. a \in Token /\ a[1] = "IDENT" /\ a[2] = f
  BY DEF Token, Ident
<1>2. b \in Token /\ b[1] = "OP"
  BY DEF Token, Op
<1>3. t[1] = "BOOL" => LowerOf[t[2]] = t[2]
  BY RhsTokenTwice
<1> HIDE DEF a, b
<1>4. lex \in Seq(Token) /\ Len(lex) = 3 /\ lex[1] = a /\ lex[2] = b /\ lex[3] = t
  BY <1>1, <1>2
<1>5. DOMAIN lex = 1..3
  BY <1>4, LenProperties
<1>6. Text(lex).lex = lex
  BY DEF Text
<1> HIDE DEF lex
<1>7. \A j \in DOMAIN lex : lex[j] \in {a, b, t}
  BY <1>4, <1>5
<1>8. CanonicalText(Text(lex))
  BY <1>1, <1>2, <1>4, <1>6 DEF CanonicalText, IsInline
<1>9. Simple(lex)
  BY <1>1, <1>2, <1>7 DEF Simple, IsAnd
<1>10. Tokenizes(lex)
  BY <1>1, <1>2, <1>7 DEF Tokenizes
<1>11. Lowered(lex)
  BY <1>1, <1>2, <1>3, <1>7 DEF Lowered
<1> QED
  BY <1>6, <1>8, <1>9, <1>10, <1>11 DEF lex, a, b

(* What a synonym stands for is canonical.                                  *)
LEMMA SynonymsAreCanonical ==
  ASSUME NEW text, IsSynonym(text), Synonym(text) # None
  PROVE  LET r == Synonym(text)
         IN CanonicalText(r) /\ Simple(r.lex) /\ Tokenizes(r.lex) /\ Lowered(r.lex)
<1> DEFINE Good(r) ==
             CanonicalText(r) /\ Simple(r.lex) /\ Tokenizes(r.lex) /\ Lowered(r.lex)
<1>1. ASSUME NEW f \in StringFields, NEW v \in {"MATCH", "NO_MATCH", "VARIANCE", "DUPLICATE"},
             NEW o \in {"==", "!="}
      PROVE  Good(Text(<<Ident(f), Op(o), <<"STRING", v>>>>))
  <2> DEFINE t == <<"STRING", v>>
  <2>1. f \in Words /\ v \in Words /\ UpperOf[v] = v
    BY WordsHaveCases DEF StringFields
  <2>2. t \in Token /\ t[1] = "STRING" /\ t[2] = v
    BY <2>1 DEF Token
  <2>3. RhsToken(f, t) = t
    BY <2>1 DEF RhsToken, Cased
  <2> HIDE DEF t
  <2>4. Good(Text(<<Ident(f), Op(o), t>>))
    BY <2>1, <2>2, <2>3, ThreePieces
  <2> QED
    BY <2>4 DEF t
<1>2. ASSUME NEW v \in {"true", "false"}
      PROVE  Good(Text(<<Ident("has_po"), Op("=="), <<"BOOL", v>>>>))
  <2> DEFINE t == <<"BOOL", v>>
  <2>1. "has_po" \in Words /\ v \in Words /\ LowerOf[v] = v
    BY WordsHaveCases
  <2>2. t \in Token /\ t[1] = "BOOL" /\ t[2] = v
    BY <2>1 DEF Token
  <2>3. RhsToken("has_po", t) = t
    BY <2>1 DEF RhsToken
  <2> HIDE DEF t
  <2>4. Good(Text(<<Ident("has_po"), Op("=="), t>>))
    BY <2>1, <2>2, <2>3, ThreePieces
  <2> QED
    BY <2>4 DEF t
<1>3. ASSUME NEW o \in {"<=", ">"}
      PROVE  Good(Text(<<Ident("amount"), Op(o), <<"INT", Threshold>>>>))
  <2> DEFINE t == <<"INT", Threshold>>
  <2>1. "amount" \in Words
    BY WordsHaveCases
  <2>2. t \in Token /\ t[1] = "INT"
    BY TextsTyped DEF Token
  <2>3. RhsToken("amount", t) = t
    BY DEF RhsToken
  <2> HIDE DEF t
  <2>4. Good(Text(<<Ident("amount"), Op(o), t>>))
    BY <2>1, <2>2, <2>3, ThreePieces
  <2> QED
    BY <2>4 DEF t
<1> DEFINE Known == {Is("match_result", "STRING", "MATCH"), Is("match_result", "STRING", "NO_MATCH"),
                     Is("match_result", "STRING", "VARIANCE"), Is("has_po", "BOOL", "true"),
                     Is("has_po", "BOOL", "false"), Approve, Reject,
                     Is("status", "STRING", "DUPLICATE"), IsNot("status", "STRING", "DUPLICATE")}
<1>4. Synonym(text) \in Known
  <2>1. CASE Len(text.lex) = 1
    <3> DEFINE w == LowerOf[text.lex[1][2]]
    <3>1. w \in DOMAIN WordSynonyms /\ Synonym(text) = WordSynonyms[w]
      BY <2>1 DEF IsSynonym, Synonym, OperatorLabels, OperatorLabel
    <3> HIDE DEF w
    <3>2. WordSynonyms[w] \in Known \cup {None}
      BY <3>1 DEF WordSynonyms
    <3> QED
      BY <3>1, <3>2
  <2>2. CASE Len(text.lex) # 1
    BY <2>2 DEF Synonym
  <2> QED
    BY <2>1, <2>2
<1> HIDE DEF Good
<1>5. \A r \in Known : Good(r)
  <2>1. "match_result" \in StringFields /\ "status" \in StringFields
    BY DEF StringFields
  <2> QED
    BY <1>1, <1>2, <1>3, <2>1 DEF Is, IsNot, Approve, Reject
<1> QED
  BY <1>4, <1>5 DEF Good

(* A single comparison, normalized, is canonical, if it means anything.     *)
LEMMA NormalizedSingle ==
  ASSUME NEW text, text.lex \in Seq(Token), NormalizeSingle(text) # None
  PROVE  LET r == NormalizeSingle(text)
         IN /\ CanonicalText(r)
            /\ Simple(text.lex) => Simple(r.lex)
            /\ Tokenizes(text.lex) => Tokenizes(r.lex)
            /\ ~Tokenizes(text.lex) => ~Tokenizes(r.lex) \/ Simple(r.lex)
            /\ Lowered(text.lex) => Lowered(r.lex)
<1> DEFINE r == NormalizeSingle(text)  lex == text.lex  in == Inlined(lex)
<1>1. CASE IsSynonym(text)
  <2>1. r = Synonym(text)
    BY <1>1 DEF NormalizeSingle
  <2> QED
    BY <1>1, <2>1, SynonymsAreCanonical
<1>2. CASE ~IsSynonym(text)
  <2>1. IsInline(lex) /\ r = Text(in)
    BY <1>2 DEF NormalizeSingle, Inlined
  <2>2. /\ in \in Seq(Token) /\ Len(in) = Len(lex)
        /\ \A j \in 1..Len(lex) :
             in[j] = IF j = 3 /\ Len(lex) = 3 THEN RhsToken(lex[1][2], lex[3]) ELSE lex[j]
    BY <2>1, InlinedPieces
  <2>3. DOMAIN in = 1..Len(lex) /\ DOMAIN lex = 1..Len(lex) /\ Len(lex) \in Nat /\ Len(lex) > 2
    BY <2>1, <2>2, LenProperties DEF IsInline
  <2> HIDE DEF in
  <2>4. r.lex = in /\ r = Text(r.lex)
    BY <2>1 DEF Text
  <2>5. \A j \in DOMAIN lex : lex[j] \in Token
    BY <2>3, ElementOfSeq
  <2>6. \A j \in DOMAIN lex :
          /\ IsAnd(in[j]) <=> IsAnd(lex[j])
          /\ in[j][1] = "OTHER" <=> lex[j][1] = "OTHER"
          /\ in[j][1] = "BOOL" <=> lex[j][1] = "BOOL"
          /\ in[j][1] = "BOOL" => in[j][2] = lex[j][2] \/ in[j][2] = LowerOf[lex[j][2]]
    <3>1. LET t == lex[3]  u == RhsToken(lex[1][2], t)
          IN /\ IsAnd(u) <=> IsAnd(t)
             /\ u[1] = "OTHER" <=> t[1] = "OTHER"
             /\ u[1] = "BOOL" <=> t[1] = "BOOL"
             /\ u[1] = "BOOL" => u[2] = LowerOf[t[2]]
      BY <2>3, <2>5, RhsTokenTwice
    <3> TAKE j \in DOMAIN lex
    <3>2. CASE j = 3 /\ Len(lex) = 3
      BY <2>2, <2>3, <3>1, <3>2
    <3>3. CASE ~(j = 3 /\ Len(lex) = 3)
      BY <2>2, <2>3, <3>3
    <3> QED
      BY <3>2, <3>3
  <2>7. CanonicalText(r)
    <3>1. IsInline(in)
      BY <2>1, <2>2, <2>3 DEF IsInline
    <3>2. ASSUME Len(in) = 3 PROVE RhsToken(in[1][2], in[3]) = in[3]
      <4>1. in[1] = lex[1] /\ in[3] = RhsToken(lex[1][2], lex[3])
        BY <2>2, <2>3, <3>2
      <4>2. lex[3] \in Token
        BY <2>3, <2>5
      <4> QED
        BY <4>1, <4>2, RhsTokenTwice
    <3> QED
      BY <2>2, <2>4, <3>1, <3>2 DEF CanonicalText
  <2>8. Simple(lex) => Simple(in)
    BY <2>3, <2>6 DEF Simple
  <2>9. Tokenizes(lex) <=> Tokenizes(in)
    BY <2>3, <2>6 DEF Tokenizes
  <2>10. Lowered(lex) => Lowered(in)
    BY <2>3, <2>6 DEF Lowered
  <2> QED
    BY <2>4, <2>7, <2>8, <2>9, <2>10
<1> QED
  BY <1>1, <1>2

(* Taken apart into tokens, a segment remains one; its truth values are     *)
(* written in lower case.                                                   *)
LEMMA FromTokens ==
  ASSUME NEW lex \in Seq(Token)
  PROVE  LET t == TokensToString(lex)
         IN /\ t.lex \in Seq(Token) /\ Len(t.lex) = Len(lex) /\ t.spaced = TRUE
            /\ \A j \in 1..Len(lex) :
                 t.lex[j] = IF lex[j][1] = "BOOL" THEN <<"BOOL", LowerOf[lex[j][2]]>> ELSE lex[j]
            /\ Simple(lex) <=> Simple(t.lex)
            /\ Tokenizes(lex) <=> Tokenizes(t.lex)
            /\ Lowered(t.lex)
            /\ Lowered(lex) => t = Text(lex)
<1> DEFINE t == TokensToString(lex)  n == Len(lex)
           new(j) == IF lex[j][1] = "BOOL" THEN <<"BOOL", LowerOf[lex[j][2]]>> ELSE lex[j]
<1>1. n \in Nat /\ DOMAIN lex = 1..n /\ \A j \in 1..n : lex[j] \in Token
  BY LenProperties, ElementOfSeq
<1>2. t.lex = [j \in 1..n |-> new(j)] /\ t.spaced = TRUE /\ t = Text(t.lex)
  BY <1>1 DEF TokensToString, Text
<1>3. ASSUME NEW j \in 1..n
      PROVE  /\ new(j) \in Token
             /\ IsAnd(new(j)) <=> IsAnd(lex[j])
             /\ new(j)[1] = lex[j][1]
             /\ new(j)[1] = "BOOL" => LowerOf[new(j)[2]] = new(j)[2]
             /\ lex[j][1] = "BOOL" /\ LowerOf[lex[j][2]] = lex[j][2] => new(j) = lex[j]
  <2>1. CASE lex[j][1] = "BOOL"
    <3> DEFINE w == lex[j][2]
    <3>1. w \in Words /\ LowerOf[w] \in Words /\ LowerOf[LowerOf[w]] = LowerOf[w]
      BY <1>1, <2>1, TokenForms, WordsHaveCases
    <3>2. new(j) = <<"BOOL", LowerOf[w]>> /\ lex[j] = <<"BOOL", w>>
      BY <1>1, <2>1, TokenForms
    <3>3. <<"BOOL", LowerOf[w]>> \in Token
      BY <3>1 DEF Token
    <3> QED
      BY <3>1, <3>2, <3>3 DEF IsAnd
  <2>2. CASE lex[j][1] # "BOOL"
    BY <1>1, <2>2
  <2> QED
    BY <2>1, <2>2
<1>4. t.lex \in [1..n -> Token] /\ DOMAIN t.lex = 1..n /\ \A j \in 1..n : t.lex[j] = new(j)
  BY <1>2, <1>3
<1>5. t.lex \in Seq(Token)
  BY <1>1, <1>4
<1> HIDE DEF t
<1>6. Len(t.lex) = n
  BY <1>1, <1>4, <1>5, LenProperties
<1>7. Simple(lex) <=> Simple(t.lex)
  BY <1>1, <1>3, <1>4 DEF Simple
<1>8. Tokenizes(lex) <=> Tokenizes(t.lex)
  BY <1>1, <1>3, <1>4 DEF Tokenizes
<1>9. Lowered(t.lex)
  BY <1>3, <1>4 DEF Lowered
<1>10. ASSUME Lowered(lex) PROVE t = Text(lex)
  <2>1. \A j \in 1..n : t.lex[j] = lex[j]
    BY <1>1, <1>3, <1>4, <1>10 DEF Lowered
  <2>2. t.lex = lex
    BY <1>5, <1>6, <2>1, SeqEqual
  <2> QED
    BY <1>2, <2>2
<1> QED
  BY <1>2, <1>4, <1>5, <1>6, <1>7, <1>8, <1>9, <1>10 DEF t

(* The segments of a text, if none is empty, joined are the text again.     *)
LEMMA Rejoined ==
  ASSUME NEW lex \in Seq(Token), Tokenizes(lex),
         \A e \in Ends(lex) : Segments(lex)[e] # <<>>,
         NEW parts, parts = [e \in Ends(lex) |-> Text(Segments(lex)[e])]
  PROVE  Joined(parts, Len(lex) + 1) = Text(lex)
<1> DEFINE n == Len(lex) + 1
<1>1. /\ Len(lex) \in Nat /\ n \in Nat /\ Ends(lex) \subseteq 1..n /\ n \in Ends(lex)
      /\ \A e \in 1..Len(lex) : e \in Ends(lex) <=> IsAnd(lex[e])
  BY EndsOf
<1>2. DOMAIN parts = Ends(lex) /\ \A e \in Ends(lex) : parts[e].lex = Segments(lex)[e]
  BY DEF Text
<1>3. ArePartsUpTo(parts, n)
  <2>1. ASSUME NEW e \in Ends(lex) PROVE Tokenizes(Segments(lex)[e])
    <3> DEFINE s == Segments(lex)[e]  i == Start(lex, e)
    <3>1. /\ e \in 1..n /\ i \in 1..e /\ s \in Seq(Token) /\ Len(s) = e - i
          /\ \A j \in 1..(e - i) : s[j] = lex[i + j - 1]
      BY SegmentOf
    <3> HIDE DEF s, i
    <3>2. DOMAIN s = 1..(e - i)
      BY <3>1, LenProperties
    <3>3. \A j \in 1..(e - i) : i + j - 1 \in DOMAIN lex
      BY <1>1, <3>1, LenProperties
    <3> QED
      BY <3>1, <3>2, <3>3 DEF Tokenizes, s
  <2>2. \A e \in Ends(lex) : Segments(lex)[e] \in Seq(Token) /\ Simple(Segments(lex)[e])
    BY SegmentOf
  <2> HIDE DEF n
  <2> QED
    BY <1>1, <1>2, <2>1, <2>2 DEF ArePartsUpTo
<1>4. PICK f \in [0..n -> Seq(Token)] :
        /\ f[0] = <<>> /\ \A k \in 1..n : f[k] = Extended(f[k - 1], parts, k)
        /\ Joined(parts, n) = Text(f[n])
  <2> HIDE DEF n
  <2> QED
    BY <1>1, <1>3, JoinedStepwise
<1> DEFINE Latest(e, k) == e \in Ends(lex) /\ e <= k /\ \A d \in Ends(lex) : d <= k => d <= e
           Good(k) == /\ \A e \in Ends(lex) : Latest(e, k) => f[k] = SubSeq(lex, 1, e - 1)
                      /\ (\A d \in Ends(lex) : d > k) => f[k] = <<>>
           S == {k \in 0..n : Good(k)}
<1> HIDE DEF n
<1>5. 0 \in S
  BY <1>1, <1>4
<1>6. ASSUME NEW k \in 1..n, k - 1 \in S PROVE k \in S
  <2>1. k \in 0..n /\ k - 1 \in 0..n /\ Good(k - 1) /\ f[k] = Extended(f[k - 1], parts, k)
    BY <1>4, <1>6
  <2>2. CASE k \notin Ends(lex)
    <3>1. f[k] = f[k - 1]
      BY <1>2, <2>1, <2>2 DEF Extended
    <3>2. \A d \in Ends(lex) : (d <= k <=> d <= k - 1) /\ (d > k <=> d > k - 1)
      BY <1>1, <2>2
    <3> QED
      BY <2>1, <3>1, <3>2
  <2>3. CASE k \in Ends(lex)
    <3> DEFINE i == Start(lex, k)  s == Segments(lex)[k]
    <3>1. i \in 1..k /\ s = SubSeq(lex, i, k - 1) /\ s \in Seq(Token) /\ Len(s) = k - i
      BY <2>3, SegmentOf
    <3>2. IsStart(lex, k, i)
      BY StartFound
    <3>3. parts[k].lex = s
      BY <1>2, <2>3
    <3>4. \A d \in Ends(lex) : ~(d \in i..(k - 1))
      <4>1. \A d \in i..(k - 1) : d \in 1..Len(lex) /\ ~IsAnd(lex[d])
        BY <1>1, <3>1, <3>2 DEF IsStart, n
      <4> QED
        BY <1>1, <4>1
    <3> HIDE DEF i, s
    <3>5. CASE i = 1
      <4>1. \A d \in Ends(lex) : d > k - 1
        BY <1>1, <3>4, <3>5
      <4>2. f[k] = s
        BY <1>2, <2>1, <2>3, <3>3, <4>1 DEF Extended
      <4>3. \A e \in Ends(lex) : Latest(e, k) => e = k
        BY <1>1, <2>3
      <4>4. f[k] = SubSeq(lex, 1, k - 1)
        BY <3>1, <3>5, <4>2
      <4>5. ~(k > k)
        BY <1>1
      <4> QED
        BY <2>1, <2>3, <4>3, <4>4, <4>5
    <3>6. CASE i # 1
      <4> DEFINE d == i - 1  a == SubSeq(lex, 1, d - 1)
      <4>1. d \in 1..(k - 1) /\ d \in 1..Len(lex) /\ i = d + 1
        BY <1>1, <3>1, <3>6 DEF n
      <4> HIDE DEF d
      <4>2. IsAnd(lex[d]) /\ d \in Ends(lex)
        BY <1>1, <3>1, <3>2, <3>6, <4>1 DEF IsStart, d
      <4>3. Latest(d, k - 1)
        BY <1>1, <3>4, <4>1, <4>2
      <4>4. f[k - 1] = a
        BY <2>1, <4>2, <4>3
      <4>5. a \in Seq(Token) /\ Len(a) = d - 1 /\ \A j \in 1..(d - 1) : a[j] = lex[j]
        <5>1. \A j \in 1..(d - 1) : lex[j] \in Token
          BY <4>1, ElementOfSeq
        <5>2. /\ a \in Seq(Token) /\ Len(a) = IF 1 <= d - 1 THEN d - 1 - 1 + 1 ELSE 0
              /\ \A j \in 1..(d - 1 - 1 + 1) : a[j] = lex[1 + j - 1]
          BY <4>1, <5>1, SubSeqProperties
        <5> QED
          BY <4>1, <5>2
      <4>6. a # <<>>
        <5>1. /\ Start(lex, d) \in 1..d /\ Segments(lex)[d] \in Seq(Token)
              /\ Len(Segments(lex)[d]) = d - Start(lex, d)
          BY <4>2, SegmentOf
        <5>2. Len(Segments(lex)[d]) # 0
          BY <4>2, <5>1, EmptySeq
        <5> QED
          BY <4>1, <4>5, <5>1, <5>2
      <4>7. f[k] = a \o <<And>> \o s
        BY <1>2, <2>1, <2>3, <3>3, <4>4, <4>6 DEF Extended
      <4>8. a \o <<And>> = SubSeq(lex, 1, d)
        <5>1. lex[d] = And /\ And \in Token
          BY <4>1, <4>2, ElementOfSeq, TokenForms
        <5>2. SubSeq(lex, 1, d) = SubSeq(lex, 1, d - 1) \o <<lex[d]>>
          <6>1. 1 \in 1..Len(lex) /\ d \in 1..Len(lex)
            BY <1>1, <4>1
          <6> QED
            BY <6>1, SubSeqRecursiveSecond
        <5> QED
          BY <5>1, <5>2
      <4>9. SubSeq(lex, 1, d) \o SubSeq(lex, d + 1, k - 1) = SubSeq(lex, 1, k - 1)
        <5>1. /\ 1 \in 1..(Len(lex) + 1) /\ d \in (1 - 1)..Len(lex) /\ k - 1 \in d..Len(lex)
          BY <1>1, <4>1 DEF n
        <5> QED
          BY <5>1, ConcatAdjacentSubSeq
      <4>10. f[k] = SubSeq(lex, 1, k - 1)
        BY <3>1, <4>1, <4>7, <4>8, <4>9
      <4>11. \A e \in Ends(lex) : Latest(e, k) => e = k
        BY <1>1, <2>3
      <4> QED
        BY <2>1, <2>3, <4>10, <4>11
    <3> QED
      BY <3>5, <3>6
  <2> QED
    BY <2>2, <2>3
<1>7. Good(n)
  <2>1. 0..n \subseteq S
    <3> HIDE DEF S
    <3> QED
      BY <1>1, <1>5, <1>6, UpTo
  <2>2. n \in 0..n
    BY <1>1
  <2> QED
    BY <2>1, <2>2
<1>8. f[n] = SubSeq(lex, 1, n - 1)
  BY <1>1, <1>7
<1>9. f[n] = lex
  BY <1>1, <1>8, SubSeqFull DEF n
<1> QED
  BY <1>4, <1>9 DEF n

(* The parts of a compound that means something.                            *)
LEMMA PartsOfCompound ==
  ASSUME NEW lex \in Seq(Token), Tokenizes(lex), ~Simple(lex),
         \A e \in Ends(lex) : Normalized(lex)[e] # None
  PROVE  LET parts == Normalized(lex)
         IN /\ DOMAIN parts = Ends(lex) /\ ArePartsUpTo(parts, Len(lex) + 1)
            /\ \E i, j \in DOMAIN parts : i < j
            /\ \A e \in DOMAIN parts : CanonicalText(parts[e]) /\ Lowered(parts[e].lex)
<1> DEFINE parts == Normalized(lex)  n == Len(lex) + 1
<1>1. DOMAIN parts = Ends(lex)
  BY DEF Normalized
<1>2. /\ Len(lex) \in Nat /\ DOMAIN lex = 1..Len(lex) /\ Ends(lex) \subseteq 1..n /\ n \in Ends(lex)
      /\ \A e \in 1..Len(lex) : e \in Ends(lex) <=> IsAnd(lex[e])
  BY EndsOf
<1>3. \E i, j \in Ends(lex) : i < j
  <2>1. PICK i \in 1..Len(lex) : IsAnd(lex[i])
    BY <1>2 DEF Simple
  <2> QED
    BY <1>2, <2>1
<1>4. ASSUME NEW e \in Ends(lex)
      PROVE  /\ CanonicalText(parts[e]) /\ Lowered(parts[e].lex)
             /\ Simple(parts[e].lex) /\ Tokenizes(parts[e].lex)
             /\ parts[e].lex \in Seq(Token) /\ parts[e].lex # <<>>
  <2> DEFINE s == Segments(lex)[e]  t == TokensToString(s)  i == Start(lex, e)
  <2>1. /\ e \in 1..n /\ i \in 1..e /\ s \in Seq(Token) /\ Len(s) = e - i
        /\ \A j \in 1..(e - i) : s[j] = lex[i + j - 1]
        /\ Simple(s)
    BY SegmentOf
  <2> HIDE DEF s, i
  <2>2. Tokenizes(s)
    <3>1. DOMAIN s = 1..(e - i)
      BY <2>1, LenProperties
    <3>2. \A j \in 1..(e - i) : i + j - 1 \in DOMAIN lex
      BY <1>2, <2>1
    <3> QED
      BY <2>1, <3>1, <3>2 DEF Tokenizes
  <2>3. t.lex \in Seq(Token) /\ Simple(t.lex) /\ Tokenizes(t.lex) /\ Lowered(t.lex)
    BY <2>1, <2>2, FromTokens
  <2>4. parts[e] = NormalizeSingle(t)
    BY DEF Normalized, s
  <2>5. parts[e] # None
    OBVIOUS
  <2> HIDE DEF t, parts
  <2>6. /\ CanonicalText(parts[e]) /\ Lowered(parts[e].lex)
        /\ Simple(parts[e].lex) /\ Tokenizes(parts[e].lex)
    BY <2>3, <2>4, <2>5, NormalizedSingle
  <2>7. parts[e].lex \in Seq(Token) /\ parts[e].lex # <<>>
    BY <2>6 DEF CanonicalText, IsInline
  <2> QED
    BY <2>6, <2>7
<1> HIDE DEF parts
<1>5. ArePartsUpTo(parts, n)
  BY <1>1, <1>2, <1>4 DEF ArePartsUpTo
<1> QED
  BY <1>1, <1>3, <1>4, <1>5 DEF parts

(* What is written is a text, that the normalizer leaves as it is.          *)
LEMMA NormalizedOnce ==
  ASSUME NEW text, text.lex \in Seq(Token), NormalizeCondition(text) # None
  PROVE  LET r == NormalizeCondition(text)
         IN /\ r.lex \in Seq(Token) /\ r = Text(r.lex)
            /\ NormalizeCondition(r) = r
            /\ Provenance(r) \in {"identity", "compound"}
<1> DEFINE lex == text.lex  r == NormalizeCondition(text)
<1>1. CASE ~Tokenizes(lex) \/ Simple(lex)
  <2>1. r = NormalizeSingle(text)
    BY <1>1 DEF NormalizeCondition
  <2>2. CanonicalText(r) /\ (~Tokenizes(r.lex) \/ Simple(r.lex))
    BY <1>1, <2>1, NormalizedSingle
  <2> HIDE DEF r
  <2>3. ~IsSynonym(r) /\ NormalizeSingle(r) = r /\ r # None
    BY <2>2, CanonicalIsFixed
  <2>4. NormalizeCondition(r) = r
    BY <2>2, <2>3 DEF NormalizeCondition
  <2>5. ProvenanceOfSingle(r) = "identity"
    BY <2>3 DEF ProvenanceOfSingle
  <2>6. Provenance(r) = "identity"
    BY <2>2, <2>5 DEF Provenance
  <2>7. r.lex \in Seq(Token) /\ r = Text(r.lex)
    BY <2>2 DEF CanonicalText
  <2> QED
    BY <2>4, <2>6, <2>7 DEF r
<1>2. CASE Tokenizes(lex) /\ ~Simple(lex)
  <2> DEFINE parts == Normalized(lex)  n == Len(lex) + 1  joined == r.lex
  <2>1. DOMAIN parts = Ends(lex)
    BY DEF Normalized
  <2>2. \A e \in Ends(lex) : parts[e] # None
    BY <1>2, <2>1 DEF NormalizeCondition
  <2>3. r = Joined(parts, n)
    BY <1>2, <2>1, <2>2 DEF NormalizeCondition
  <2>4. n \in Nat
    BY EndsOf
  <2>5. /\ ArePartsUpTo(parts, n) /\ \E i, j \in DOMAIN parts : i < j
        /\ \A e \in DOMAIN parts : CanonicalText(parts[e]) /\ Lowered(parts[e].lex)
    BY <1>2, <2>2, PartsOfCompound
  <2> HIDE DEF parts, n, r
  <2>6. /\ r = Text(joined) /\ joined \in Seq(Token)
        /\ Pieces(joined) = {parts[e].lex : e \in DOMAIN parts}
        /\ Tokenizes(joined) /\ ~Simple(joined)
    BY <2>3, <2>4, <2>5, JoinedPieces
  <2> HIDE DEF joined
  <2>7. ASSUME NEW e \in Ends(joined)
        PROVE  LET s == Segments(joined)[e]
               IN /\ s # <<>> /\ TokensToString(s) = Text(s) /\ NormalizeSingle(Text(s)) = Text(s)
                  /\ Text(s) # None
    <3> DEFINE s == Segments(joined)[e]
    <3>1. PICK d \in DOMAIN parts : s = parts[d].lex
      BY <2>6 DEF Pieces
    <3>2. /\ CanonicalText(parts[d]) /\ Lowered(s) /\ s \in Seq(Token) /\ s # <<>>
      BY <2>5, <3>1 DEF ArePartsUpTo
    <3>3. parts[d] = Text(s)
      BY <3>1, <3>2 DEF CanonicalText
    <3> HIDE DEF s
    <3>4. NormalizeSingle(Text(s)) = Text(s) /\ Text(s) # None
      BY <3>2, <3>3, CanonicalIsFixed
    <3>5. TokensToString(s) = Text(s)
      BY <3>2, FromTokens
    <3> QED
      BY <3>2, <3>4, <3>5 DEF s
  <2> DEFINE again == [e \in Ends(joined) |-> Text(Segments(joined)[e])]
  <2>8. Normalized(joined) = again
    BY <2>7 DEF Normalized
  <2>9. Joined(again, Len(joined) + 1) = Text(joined)
    BY <2>6, <2>7, Rejoined
  <2>10. \A e \in DOMAIN again : again[e] # None
    BY <2>7
  <2> HIDE DEF again
  <2>11. r.lex = joined
    BY DEF joined
  <2>12. NormalizeCondition(r) = r
    BY <2>6, <2>8, <2>9, <2>10, <2>11 DEF NormalizeCondition
  <2>13. Provenance(r) = "compound"
    BY <2>6, <2>11 DEF Provenance
  <2> QED
    BY <2>6, <2>11, <2>12, <2>13 DEF r
<1> QED
  BY <1>1, <1>2

(* The edge has the condition it was mined with, or what that is normalized *)
(* to, once: a condition that is normalized stays as it is.                 *)
Settled == cond = mined \/ (cond = NormalizeCondition(mined) /\ cond # None)

THEOREM ConditionsSettle == Spec => [](mined \in Texts /\ Settled)
<1>1. Init => mined \in Texts /\ Settled
  BY DEF Init, Settled
<1>2. ASSUME mined \in Texts, Settled, [Next]_<<mined, cond>>
      PROVE  (mined \in Texts)' /\ Settled'
  <2>1. CASE UNCHANGED <<mined, cond>>
    BY <1>2, <2>1 DEF Settled
  <2>2. CASE Next
    <3>1. mined' = mined /\ cond' = NormalizeCondition(cond) /\ NormalizeCondition(cond) # None
      BY <2>2 DEF Next, NormalizeEdgeCondition
    <3>2. CASE cond = mined
      BY <1>2, <3>1, <3>2 DEF Settled
    <3>3. CASE cond = NormalizeCondition(mined) /\ cond # None
      <4>1. mined.lex \in Seq(Token)
        BY <1>2, TextsTyped
      <4>2. NormalizeCondition(cond) = cond
        BY <3>3, <4>1, NormalizedOnce
      <4> QED
        BY <1>2, <3>1, <3>3, <4>2 DEF Settled
    <3> QED
      BY <1>2, <3>2, <3>3 DEF Settled
  <2> QED
    BY <1>2, <2>1, <2>2
<1> QED
  BY <1>1, <1>2, PTL DEF Spec

(* However often the pass runs over an edge, the edge is taken on the       *)
(* states it would have been taken on unnormalized, and what the pass has   *)
(* written is canonical to the diagnosis: for every text with tokens of the *)
(* tokenizer, whatever their number.                                        *)
THEOREM NormalizationIsStable == Spec => []NormalizationKeepsMeaning
<1>1. ASSUME mined \in Texts, Settled PROVE NormalizationKeepsMeaning
  <2>1. CASE cond = mined
    BY <2>1 DEF NormalizationKeepsMeaning
  <2>2. CASE cond = NormalizeCondition(mined) /\ cond # None
    <3>1. mined.lex \in Seq(Token)
      BY <1>1, TextsTyped
    <3>2. NormalizeCondition(cond) = cond /\ Provenance(cond) \in {"identity", "compound"}
      BY <2>2, <3>1, NormalizedOnce
    <3>3. NormalizeCondition(cond) = NormalizeCondition(mined)
      BY <2>2, <3>2
    <3>4. Compiles(cond) <=> Compiles(mined)
      BY <3>3 DEF Compiles
    <3>5. Predicate(cond) = Predicate(mined)
      BY <3>3 DEF Predicate
    <3>6. Meaning(cond) = Meaning(mined)
      BY <3>4, <3>5 DEF Meaning
    <3> QED
      BY <3>2, <3>6 DEF NormalizationKeepsMeaning, Diagnosis
  <2> QED
    BY <1>1, <2>1, <2>2 DEF Settled
<1> QED
  BY <1>1, ConditionsSettle, PTL

-----------------------------------------------------------------------------
(* A compound and its parts.                                                 *)

Passes(lex, x) == IsComparison(lex) /\ Holds(Comparison(lex), x)

LEMMA MeaningByPieces ==
  ASSUME NEW text, NormalizeCondition(text) # None,
         Tokenizes(NormalizeCondition(text).lex)
  PROVE  Meaning(text) =
           {x \in States : \A p \in Pieces(NormalizeCondition(text).lex) : Passes(p, x)}
<1> DEFINE lex == NormalizeCondition(text).lex
<1>1. Compiles(text) <=> \A e \in Ends(lex) : IsComparison(Segments(lex)[e])
  BY DEF Compiles, Parses
<1>2. /\ DOMAIN Predicate(text) = Ends(lex)
      /\ \A e \in Ends(lex) : Predicate(text)[e] = Comparison(Segments(lex)[e])
  BY DEF Predicate, ParseCondition
<1> HIDE DEF lex
<1>3. ASSUME NEW x \in States
      PROVE  x \in Meaning(text) <=> \A p \in Pieces(lex) : Passes(p, x)
  BY <1>1, <1>2 DEF Meaning, Pieces, Passes
<1>4. Meaning(text) \subseteq States
  BY DEF Meaning
<1> QED
  BY <1>3, <1>4 DEF lex

(* A segment taken apart into tokens and the same segment as a text of its  *)
(* own normalize to the same comparison, if to one at all.                  *)
LEMMA TokensOrText ==
  ASSUME NEW s \in Seq(Token), NEW spaced, spaced \/ ~OperatorLabels(s)
  PROVE  LET u == NormalizeSingle([lex |-> s, spaced |-> spaced])
             q == NormalizeSingle(TokensToString(s))
         IN /\ u = None <=> q = None
            /\ u # None => (IsComparison(u.lex) <=> IsComparison(q.lex))
            /\ u # None /\ IsComparison(u.lex) => u = q
<1> DEFINE text == [lex |-> s, spaced |-> spaced]  t == TokensToString(s)
           u == NormalizeSingle(text)  q == NormalizeSingle(t)
<1>1. /\ t.lex \in Seq(Token) /\ Len(t.lex) = Len(s) /\ t.spaced = TRUE
      /\ \A j \in 1..Len(s) :
           t.lex[j] = IF s[j][1] = "BOOL" THEN <<"BOOL", LowerOf[s[j][2]]>> ELSE s[j]
  BY FromTokens
<1>2. Len(s) \in Nat /\ \A j \in 1..Len(s) : s[j] \in Token
  BY LenProperties, ElementOfSeq
<1>3. text.lex = s /\ text.spaced = spaced
  OBVIOUS
<1> HIDE DEF t, text
<1>4. \A j \in 1..Len(s) : t.lex[j][1] = s[j][1] /\ (s[j][1] # "BOOL" => t.lex[j] = s[j])
  <2> TAKE j \in 1..Len(s)
  <2>1. CASE s[j][1] = "BOOL"
    <3>1. t.lex[j] = <<"BOOL", LowerOf[s[j][2]]>>
      BY <1>1, <2>1
    <3> QED
      BY <2>1, <3>1
  <2>2. CASE s[j][1] # "BOOL"
    BY <1>1, <2>2
  <2> QED
    BY <2>1, <2>2
<1>5. IsSynonym(text) <=> Len(s) = 1 /\ s[1][1] = "IDENT" /\ LowerOf[s[1][2]] \in DOMAIN WordSynonyms
  BY <1>3 DEF IsSynonym
<1>6. IsSynonym(t) <=> Len(s) = 1 /\ s[1][1] = "IDENT" /\ LowerOf[s[1][2]] \in DOMAIN WordSynonyms
  <2>1. Len(s) = 1 => 1 \in 1..Len(s)
    BY <1>2
  <2>2. Len(s) = 1 => t.lex[1][1] = s[1][1] /\ (s[1][1] = "IDENT" => t.lex[1] = s[1])
    BY <1>4, <2>1
  <2> QED
    BY <1>1, <2>2 DEF IsSynonym
<1>7. CASE IsSynonym(text)
  <2>1. Len(s) = 1 /\ s[1][1] = "IDENT" /\ 1 \in 1..Len(s)
    <3>1. Len(s) = 1 /\ s[1][1] = "IDENT"
      BY <1>5, <1>7
    <3> QED
      BY <3>1
  <2>2. t.lex[1] = s[1]
    BY <1>4, <2>1
  <2>3. Synonym(t) = Synonym(text)
    BY <1>1, <1>3, <2>1, <2>2 DEF Synonym
  <2>4. u = Synonym(text) /\ q = Synonym(t)
    BY <1>5, <1>6, <1>7 DEF NormalizeSingle
  <2> QED
    BY <2>3, <2>4 DEF text, t
<1>8. CASE ~IsSynonym(text)
  <2>1. IsInline(s) <=> IsInline(t.lex)
    <3>1. Len(s) > 2 => 1 \in 1..Len(s) /\ 2 \in 1..Len(s)
      BY <1>2
    <3> QED
      BY <1>1, <1>4, <3>1 DEF IsInline
  <2>2. u = IF IsInline(s) THEN Text(Inlined(s)) ELSE None
    BY <1>3, <1>8 DEF NormalizeSingle, Inlined
  <2>3. q = IF IsInline(s) THEN Text(Inlined(t.lex)) ELSE None
    BY <1>5, <1>6, <1>8, <2>1 DEF NormalizeSingle, Inlined
  <2>4. CASE ~IsInline(s)
    BY <2>2, <2>3, <2>4 DEF text, t
  <2>5. CASE IsInline(s)
    <3> DEFINE a == Inlined(s)  b == Inlined(t.lex)
    <3>1. /\ a \in Seq(Token) /\ Len(a) = Len(s)
          /\ \A j \in 1..Len(s) :
               a[j] = IF j = 3 /\ Len(s) = 3 THEN RhsToken(s[1][2], s[3]) ELSE s[j]
      BY <2>5, InlinedPieces
    <3>2. /\ b \in Seq(Token) /\ Len(b) = Len(s)
          /\ \A j \in 1..Len(s) :
               b[j] = IF j = 3 /\ Len(s) = 3 THEN RhsToken(t.lex[1][2], t.lex[3]) ELSE t.lex[j]
      BY <1>1, <2>1, <2>5, InlinedPieces
    <3>3. u = Text(a) /\ q = Text(b)
      BY <2>2, <2>3, <2>5
    <3> HIDE DEF a, b
    <3>4. Text(a) # None /\ Text(b) # None
      <4>1. Text(a) \in [lex : Seq(Token), spaced : BOOLEAN]
        BY <3>1 DEF Text
      <4>2. Text(b) \in [lex : Seq(Token), spaced : BOOLEAN]
        BY <3>2 DEF Text
      <4> QED
        BY <4>1, <4>2, TextsTyped
    <3>5. IsComparison(a) => Len(s) = 3 /\ s[1][1] = "IDENT" /\ s[2][1] = "OP"
      BY <3>1 DEF IsComparison
    <3>6. IsComparison(b) => Len(s) = 3 /\ s[1][1] = "IDENT" /\ s[2][1] = "OP"
      <4>1. Len(s) = 3 => b[1][1] = s[1][1] /\ b[2][1] = s[2][1]
        BY <1>4, <3>2
      <4> QED
        BY <3>2, <4>1 DEF IsComparison
    <3>7. ASSUME Len(s) = 3, s[1][1] = "IDENT", s[2][1] = "OP" PROVE a = b
      <4>1. t.lex[1] = s[1] /\ t.lex[2] = s[2]
        BY <1>4, <3>7
      <4>2. s[3] \in Token
        BY <1>2, <3>7
      <4>3. t.lex[3] = IF s[3][1] = "BOOL" THEN <<"BOOL", LowerOf[s[3][2]]>> ELSE s[3]
        BY <1>1, <3>7
      <4>4. RhsToken(s[1][2], t.lex[3]) = RhsToken(s[1][2], s[3])
        <5>1. CASE s[3][1] = "BOOL"
          <6>1. LowerOf[LowerOf[s[3][2]]] = LowerOf[s[3][2]]
            BY <4>2, <5>1, TokenForms, WordsHaveCases
          <6>2. RhsToken(s[1][2], s[3]) = <<"BOOL", LowerOf[s[3][2]]>>
            BY <5>1 DEF RhsToken
          <6>3. RhsToken(s[1][2], <<"BOOL", LowerOf[s[3][2]]>>)
                  = <<"BOOL", LowerOf[LowerOf[s[3][2]]]>>
            BY DEF RhsToken
          <6> QED
            BY <4>3, <5>1, <6>1, <6>2, <6>3
        <5>2. CASE s[3][1] # "BOOL"
          BY <4>3, <5>2
        <5> QED
          BY <5>1, <5>2
      <4>5. \A j \in 1..3 : a[j] = b[j]
        BY <3>1, <3>2, <3>7, <4>1, <4>4
      <4> QED
        BY <3>1, <3>2, <3>7, <4>5, SeqEqual
    <3>8. Text(a).lex = a /\ Text(b).lex = b
      BY DEF Text
    <3>9. IsComparison(a) <=> IsComparison(b)
      BY <3>5, <3>6, <3>7
    <3> HIDE DEF u, q
    <3>10. /\ u = None <=> q = None
           /\ u # None => (IsComparison(u.lex) <=> IsComparison(q.lex))
           /\ u # None /\ IsComparison(u.lex) => u = q
      BY <3>3, <3>4, <3>5, <3>7, <3>8, <3>9
    <3> QED
      BY <3>10 DEF u, q, text, t
  <2> QED
    BY <2>4, <2>5
<1> QED
  BY <1>7, <1>8

(* A part, as a condition of its own, is taken on the states that pass what *)
(* it normalizes to within the compound.                                    *)
LEMMA MeaningOfPart ==
  ASSUME NEW s \in Seq(Token), Simple(s), Tokenizes(s),
         NEW spaced, spaced \/ ~OperatorLabels(s)
  PROVE  LET q == NormalizeSingle(TokensToString(s))
         IN Meaning([lex |-> s, spaced |-> spaced])
              = {x \in States : q # None /\ Passes(q.lex, x)}
<1> DEFINE text == [lex |-> s, spaced |-> spaced]  q == NormalizeSingle(TokensToString(s))
           u == NormalizeSingle(text)
<1>1. /\ u = None <=> q = None
      /\ u # None => (IsComparison(u.lex) <=> IsComparison(q.lex))
      /\ u # None /\ IsComparison(u.lex) => u = q
  BY TokensOrText
<1>2. text.lex = s
  OBVIOUS
<1> HIDE DEF text
<1>3. NormalizeCondition(text) = u
  BY <1>2 DEF NormalizeCondition
<1>4. CASE u = None
  <2>1. Meaning(text) = {}
    BY <1>3, <1>4 DEF Meaning, Compiles
  <2> QED
    BY <1>1, <1>4, <2>1 DEF text
<1>5. CASE u # None
  <2>1. CanonicalText(u) /\ Simple(u.lex) /\ Tokenizes(u.lex)
    BY <1>2, <1>5, NormalizedSingle
  <2>2. u.lex \in Seq(Token)
    BY <2>1 DEF CanonicalText
  <2> HIDE DEF u, q
  <2>3. Pieces(u.lex) = {u.lex}
    BY <2>1, <2>2, PiecesOfSimple
  <2>4. Meaning(text) = {x \in States : Passes(u.lex, x)}
    BY <1>3, <1>5, <2>1, <2>3, MeaningByPieces
  <2>5. \A x : Passes(u.lex, x) <=> Passes(q.lex, x)
    BY <1>1, <1>5 DEF Passes
  <2> QED
    BY <1>1, <1>5, <2>4, <2>5 DEF text, q
<1> QED
  BY <1>4, <1>5

LEMMA MeaningOfCompound ==
  ASSUME NEW text \in [lex : Seq(Token), spaced : BOOLEAN], Tokenizes(text.lex),
         text.spaced \/ \A e \in Ends(text.lex) : ~OperatorLabels(Segments(text.lex)[e])
  PROVE  Meaning(text) =
           {x \in States : \A e \in Ends(text.lex) :
              x \in Meaning([lex |-> Segments(text.lex)[e], spaced |-> text.spaced])}
<1> DEFINE lex == text.lex  parts == Normalized(lex)
           Part(e) == [lex |-> Segments(lex)[e], spaced |-> text.spaced]
<1>1. lex \in Seq(Token) /\ Meaning(text) \subseteq States
  BY DEF Meaning
<1>2. CASE Simple(lex)
  <2>1. Ends(lex) = {Len(lex) + 1} /\ Segments(lex)[Len(lex) + 1] = lex
    BY <1>1, <1>2, SegmentsOfSimple
  <2>2. [lex |-> lex, spaced |-> text.spaced] = text
    OBVIOUS
  <2>3. Part(Len(lex) + 1) = text
    BY <2>1, <2>2
  <2> HIDE DEF Part, lex
  <2>4. Meaning(text) = {x \in States : \A e \in Ends(lex) : x \in Meaning(Part(e))}
    BY <1>1, <2>1, <2>3
  <2> QED
    BY <2>4 DEF Part, lex
<1>3. CASE ~Simple(lex)
  <2>1. DOMAIN parts = Ends(lex)
        /\ \A e \in Ends(lex) : parts[e] = NormalizeSingle(TokensToString(Segments(lex)[e]))
    BY DEF Normalized
  <2>2. ASSUME NEW e \in Ends(lex)
        PROVE  Meaning(Part(e)) = {x \in States : parts[e] # None /\ Passes(parts[e].lex, x)}
    <3> DEFINE s == Segments(lex)[e]  i == Start(lex, e)
    <3>1. /\ e \in 1..(Len(lex) + 1) /\ i \in 1..e /\ s \in Seq(Token) /\ Len(s) = e - i
          /\ \A j \in 1..(e - i) : s[j] = lex[i + j - 1]
          /\ Simple(s)
      BY <1>1, SegmentOf
    <3> HIDE DEF s, i
    <3>2. Tokenizes(s)
      <4>1. DOMAIN s = 1..(e - i)
        BY <3>1, LenProperties
      <4>2. \A j \in 1..(e - i) : i + j - 1 \in DOMAIN lex
        BY <1>1, <3>1, LenProperties
      <4> QED
        BY <3>1, <4>1, <4>2 DEF Tokenizes
    <3>3. text.spaced \/ ~OperatorLabels(s)
      BY DEF s
    <3> DEFINE q == NormalizeSingle(TokensToString(s))
    <3>4. Meaning([lex |-> s, spaced |-> text.spaced])
            = {x \in States : q # None /\ Passes(q.lex, x)}
      BY <3>1, <3>2, <3>3, MeaningOfPart
    <3>5. parts[e] = q
      BY <2>1 DEF s
    <3> HIDE DEF q
    <3> QED
      BY <3>4, <3>5 DEF s
  <2>3. CASE \E e \in Ends(lex) : parts[e] = None
    <3>1. NormalizeCondition(text) = None
      BY <1>3, <2>1, <2>3 DEF NormalizeCondition
    <3>2. Meaning(text) = {}
      BY <3>1 DEF Meaning, Compiles
    <3> HIDE DEF Part, parts
    <3>3. {x \in States : \A e \in Ends(lex) : x \in Meaning(Part(e))} = {}
      BY <2>2, <2>3
    <3> QED
      BY <3>2, <3>3 DEF Part
  <2>4. CASE \A e \in Ends(lex) : parts[e] # None
    <3> DEFINE n == Len(lex) + 1  r == NormalizeCondition(text)
    <3>1. r = Joined(parts, n)
      BY <1>3, <2>1, <2>4 DEF NormalizeCondition
    <3>2. ArePartsUpTo(parts, n) /\ DOMAIN parts # {}
      <4>1. ArePartsUpTo(parts, n)
        BY <1>1, <1>3, <2>4, PartsOfCompound
      <4>2. n \in Ends(lex)
        BY <1>1, EndsOf
      <4> QED
        BY <2>1, <4>1, <4>2
    <3>3. n \in Nat
      BY <1>1, EndsOf
    <3> HIDE DEF n, parts, r
    <3>4. /\ r = Text(r.lex) /\ r.lex \in Seq(Token) /\ Tokenizes(r.lex)
          /\ Pieces(r.lex) = {parts[e].lex : e \in DOMAIN parts}
      BY <3>1, <3>2, <3>3, JoinedPieces
    <3>5. r # None
      <4> DEFINE l == r.lex
      <4> HIDE DEF l
      <4>1. Text(l) \in [lex : Seq(Token), spaced : BOOLEAN]
        BY <3>4 DEF Text, l
      <4> QED
        BY <3>4, <4>1, TextsTyped DEF l
    <3>6. Meaning(text) = {x \in States : \A p \in Pieces(r.lex) : Passes(p, x)}
      BY <3>4, <3>5, MeaningByPieces DEF r
    <3> HIDE DEF Part
    <3>7. Meaning(text) = {x \in States : \A e \in Ends(lex) : x \in Meaning(Part(e))}
      BY <2>1, <2>2, <2>4, <3>4, <3>6
    <3> QED
      BY <3>7 DEF Part
  <2> QED
    BY <2>3, <2>4
<1> QED
  BY <1>2, <1>3

(* A compound is taken exactly where all of its parts, as conditions of     *)
(* their own, are taken: for every text an edge may be mined with and what  *)
(* the pass makes of it.                                                    *)
THEOREM CompoundsAreConjunctions == Spec => []CompoundIsConjunction
<1>1. ASSUME mined \in Texts, Settled PROVE CompoundIsConjunction
  <2>1. cond \in [lex : Seq(Token), spaced : BOOLEAN]
    <3>1. CASE cond = mined
      BY <1>1, <3>1, TextsTyped
    <3>2. CASE cond = NormalizeCondition(mined) /\ cond # None
      <4>1. mined.lex \in Seq(Token)
        BY <1>1, TextsTyped
      <4>2. cond.lex \in Seq(Token) /\ cond = Text(cond.lex)
        BY <3>2, <4>1, NormalizedOnce
      <4> DEFINE l == cond.lex
      <4> HIDE DEF l
      <4>3. Text(l) \in [lex : Seq(Token), spaced : BOOLEAN]
        BY <4>2 DEF Text, l
      <4> QED
        BY <4>2, <4>3 DEF l
    <3> QED
      BY <1>1, <3>1, <3>2 DEF Settled
  <2>2. DOMAIN Segments(cond.lex) = Ends(cond.lex)
    BY DEF Segments
  <2> QED
    BY <2>1, <2>2, MeaningOfCompound DEF CompoundIsConjunction
<1> QED
  BY <1>1, ConditionsSettle, PTL

-----------------------------------------------------------------------------
(* The type check.                                                           *)

(* Only the two string fields may hold a string. *)
LEMMA OnlyStringFieldsHoldStrings ==
  \A f \in DOMAIN FieldTypes : "str" \in FieldTypes[f] => f \in StringFields
BY DEF FieldTypes, StringFields

(* A comparison raises if an ordinal operator meets a string and something  *)
(* else. Without a warning the field is not a string field and the literal, *)
(* like the value, is of one of the field's types, so neither is a string.  *)
LEMMA QuietComparisonsCompare ==
  ASSUME NEW p, TypeWarnings(p) = {}, NEW i \in DOMAIN p, NEW s \in States,
         p[i].field \in DOMAIN FieldTypes, p[i].field \in DOMAIN s, s[p[i].field] # None
  PROVE  ~RaisesTypeError(s[p[i].field], p[i].op, p[i].lit)
<1> DEFINE f == p[i].field
<1>1. p[i].lit[1] \in FieldTypes[f] /\ ~(f \in StringFields /\ p[i].op \in OrdinalOps)
  BY DEF TypeWarnings
<1>2. s[f][1] \in FieldTypes[f]
  BY StatesTyped
<1>3. SUFFICES ASSUME p[i].op \in OrdinalOps
               PROVE  IsString(s[f]) = IsString(p[i].lit)
  BY DEF RaisesTypeError
<1>4. f \notin StringFields
  BY <1>1, <1>3
<1>5. "str" \notin FieldTypes[f]
  BY <1>4, OnlyStringFieldsHoldStrings
<1> QED
  BY <1>1, <1>2, <1>5 DEF IsString

(* An edge the diagnosis is silent about is not closed by a TypeError, for  *)
(* every text an edge may be mined with and however often it is normalized. *)
THEOREM QuietEdgesCompare == Spec => []WarningFreeNeverRaises
<1>1. WarningFreeNeverRaises
  <2> DEFINE p == Predicate(cond)
  <2>1. SUFFICES ASSUME Diagnosis(cond).parsed, Diagnosis(cond).warnings = {}
                 PROVE  \A i \in DOMAIN p, s \in States :
                          p[i].field \in DOMAIN FieldTypes /\ p[i].field \in DOMAIN s
                          /\ s[p[i].field] # None
                          => ~RaisesTypeError(s[p[i].field], p[i].op, p[i].lit)
    BY DEF WarningFreeNeverRaises
  <2>2. TypeWarnings(p) = {}
    BY <2>1 DEF Diagnosis
  <2> QED
    BY <2>2, QuietComparisonsCompare
<1> QED
  BY <1>1, PTL
=============================================================================
