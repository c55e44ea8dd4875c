--------------------------- MODULE JsonTextProofs ---------------------------
(***************************************************************************)
(* The text layer of src/json_io.c, proved for every text and every string *)
(* of any length: reading stays within the text, a string ends where the   *)
(* count of backslashes says it does, what is written is read back, and    *)
(* what is passed over closes what it opens.                               *)
(*                                                                         *)
(* The loops of the code are recursive functions over the positions of a   *)
(* text.  A function that does what the loop does is shown to exist, and   *)
(* the loop's to be no other: there is no first position at which the two  *)
(* differ (LeastNat stands for induction).                                 *)
(***************************************************************************)
EXTENDS JsonText, WellFoundedInduction, SequenceTheorems, FiniteSetTheorems, TLAPS

\* A set of naturals with an element has a least one: the place where a scan
\* stops is well defined.
LEMMA LeastNat ==
    ASSUME NEW S, S \subseteq Nat, S # {}
    PROVE  \E x \in S : \A y \in S : x <= y
<1>1. \E x \in S : \A y \in S : ~(<<y, x>> \in OpToRel(<, Nat))
  BY NatLessThanWellFounded, WFMin
<1>2. PICK x \in S : \A y \in S : ~(<<y, x>> \in OpToRel(<, Nat))
  BY <1>1
<1>3. ASSUME NEW y \in S PROVE x <= y
  <2>1. ~(<<y, x>> \in {ss \in Nat \X Nat : ss[1] < ss[2]})
    BY <1>2 DEF OpToRel
  <2> QED BY <2>1
<1> QED BY <1>3

\* Min of a set of positions.
LEMMA MinIs ==
    ASSUME NEW S, S \subseteq Nat, S # {}
    PROVE  Min(S) \in S /\ \A y \in S : Min(S) <= y
<1>1. \E x \in S : \A y \in S : x <= y
  BY LeastNat
<1> QED BY <1>1 DEF Min

-----------------------------------------------------------------------------
(***************************************************************************)
(* Scans                                                                   *)
(***************************************************************************)

\* A scan over a class of symbols ends at the first one that is not in it, or
\* behind the text.
LEMMA PastIs ==
    ASSUME NEW t \in Seq(Alphabet), NEW p \in 1 .. Len(t) + 1, NEW class
    PROVE  /\ Past(t, p, class) \in p .. Len(t) + 1
           /\ Past(t, p, class) <= Len(t) => t[Past(t, p, class)] \notin class
           /\ \A r \in p .. Past(t, p, class) - 1 : t[r] \in class
<1> DEFINE ends == {q \in p .. Len(t) : t[q] \notin class}
           s == Past(t, p, class)
<1>0. Len(t) \in Nat /\ ends \subseteq Nat
  OBVIOUS
<1>1. CASE ends = {}
  <2>1. s = Len(t) + 1
    BY <1>1 DEF Past
  <2>2. \A r \in p .. s - 1 : t[r] \in class
    BY <1>0, <1>1, <2>1
  <2> QED BY <1>0, <2>1, <2>2
<1>2. CASE ends # {}
  <2>1. s = Min(ends)
    BY <1>2 DEF Past
  <2>2. s \in ends /\ \A y \in ends : s <= y
    BY <1>0, <1>2, <2>1, MinIs
  <2> HIDE DEF s
  <2>3. s \in p .. Len(t) /\ t[s] \notin class
    BY <2>2
  <2>4. ASSUME NEW r \in p .. s - 1 PROVE t[r] \in class
    BY <1>0, <2>2, <2>3
  <2> QED BY <1>0, <2>3, <2>4 DEF s
<1> QED BY <1>1, <1>2

\* One optional symbol.
LEMMA OptionalIs ==
    ASSUME NEW t \in Seq(Alphabet), NEW p \in 1 .. Len(t) + 1, NEW class
    PROVE  Optional(t, p, class) \in p .. Len(t) + 1
BY DEF Optional

\* The number at p ends behind it, and behind its first symbol if that is a
\* digit or a sign: json_parse_token gets on.
LEMMA NumberEndIs ==
    ASSUME NEW t \in Seq(Alphabet), NEW p \in 1 .. Len(t)
    PROVE  /\ NumberEnd(t, p) \in p .. Len(t) + 1
           /\ t[p] \in Digits \cup {"-"} => NumberEnd(t, p) > p
<1> DEFINE sign == Optional(t, p, {"-"})
           int == Past(t, sign, Digits)
           dec == IF Optional(t, int, {"."}) = int THEN int ELSE Past(t, int + 1, Digits)
           end == IF Optional(t, dec, {"e"}) = dec THEN dec
                  ELSE Past(t, Optional(t, dec + 1, {"+", "-"}), Digits)
<1>0. Len(t) \in Nat /\ p \in 1 .. Len(t) + 1
  OBVIOUS
<1>1. sign \in p .. Len(t) + 1
  BY <1>0, OptionalIs
<1>2. int \in sign .. Len(t) + 1 /\ \A r \in sign .. int - 1 : t[r] \in Digits
  <2> HIDE DEF sign
  <2>1. sign \in 1 .. Len(t) + 1
    BY <1>0, <1>1
  <2> QED BY <2>1, PastIs
<1>3. t[p] \in Digits \cup {"-"} => int > p
  <2>1. CASE t[p] = "-"
    <3>1. sign = p + 1
      BY <2>1 DEF Optional
    <3> HIDE DEF int, sign
    <3> QED BY <1>0, <1>2, <3>1
  <2>2. CASE t[p] \in Digits
    <3>1. sign = p
      BY <2>2 DEF Optional, Digits
    <3>2. int <= Len(t) => t[int] \notin Digits
      BY <1>0, <3>1, PastIs
    <3> HIDE DEF int, sign
    <3> QED BY <1>0, <1>2, <2>2, <3>1, <3>2
  <2> QED BY <2>1, <2>2
<1> HIDE DEF int
<1>4. int \in 1 .. Len(t) + 1 /\ int >= p
  BY <1>0, <1>1, <1>2
<1>5. dec \in int .. Len(t) + 1
  <2>1. CASE Optional(t, int, {"."}) = int
    BY <1>4, <2>1
  <2>2. CASE Optional(t, int, {"."}) # int
    <3>1. int <= Len(t) /\ int + 1 \in 1 .. Len(t) + 1
      BY <1>4, <2>2 DEF Optional
    <3>2. Past(t, int + 1, Digits) \in int + 1 .. Len(t) + 1
      BY <3>1, PastIs
    <3> QED BY <1>4, <2>2, <3>1, <3>2
  <2> QED BY <2>1, <2>2
<1> HIDE DEF dec
<1>6. dec \in 1 .. Len(t) + 1 /\ dec >= int
  BY <1>4, <1>5
<1>7. end \in dec .. Len(t) + 1
  <2>1. CASE Optional(t, dec, {"e"}) = dec
    BY <1>6, <2>1
  <2>2. CASE Optional(t, dec, {"e"}) # dec
    <3> DEFINE exp == Optional(t, dec + 1, {"+", "-"})
    <3>1. dec <= Len(t) /\ dec + 1 \in 1 .. Len(t) + 1
      BY <1>6, <2>2 DEF Optional
    <3>2. exp \in dec + 1 .. Len(t) + 1
      BY <3>1, OptionalIs
    <3> HIDE DEF exp
    <3>3. exp \in 1 .. Len(t) + 1
      BY <3>1, <3>2
    <3>4. Past(t, exp, Digits) \in exp .. Len(t) + 1
      BY <3>3, PastIs
    <3>5. end = Past(t, exp, Digits)
      BY <2>2 DEF exp
    <3> HIDE DEF end
    <3> QED BY <1>6, <3>1, <3>2, <3>3, <3>4, <3>5
  <2> QED BY <2>1, <2>2
<1>8. NumberEnd(t, p) = end
  BY DEF NumberEnd, end, dec, int, sign
<1> HIDE DEF end
<1> QED BY <1>0, <1>3, <1>4, <1>6, <1>7, <1>8

-----------------------------------------------------------------------------
(***************************************************************************)
(* Backslashes                                                             *)
(***************************************************************************)

\* Whether an odd number of backslashes comes right before position q
Odd(t, p, q) == Before(t, p, q) % 2 = 1

\* The greatest of a set of positions.
LEMMA MaxIs ==
    ASSUME NEW S, S \subseteq Nat, S # {}, NEW bound \in Nat, \A x \in S : x <= bound
    PROVE  Max(S) \in S /\ Max(S) \in Nat /\ \A x \in S : x <= Max(S)
<1> DEFINE D == {bound - x : x \in S}
<1>1. D \subseteq Nat /\ D # {}
  <2>1. ASSUME NEW d \in D PROVE d \in Nat
    <3>1. PICK x \in S : d = bound - x
      BY <2>1
    <3> QED BY <3>1
  <2>2. PICK x : x \in S
    OBVIOUS
  <2>3. bound - x \in D
    BY <2>2
  <2> QED BY <2>1, <2>3
<1>2. PICK d \in D : \A e \in D : d <= e
  BY <1>1, LeastNat
<1>3. PICK m \in S : d = bound - m
  BY <1>2
<1>4. ASSUME NEW x \in S PROVE m >= x
  <2>1. bound - x \in D /\ x \in Nat /\ m \in Nat
    BY <1>3
  <2> HIDE DEF D
  <2>2. d <= bound - x
    BY <1>2, <2>1
  <2> QED BY <1>3, <2>1, <2>2
<1>5. Max(S) \in S /\ \A y \in S : Max(S) >= y
  BY <1>3, <1>4 DEF Max
<1>6. Max(S) \in Nat
  BY <1>5
<1>7. ASSUME NEW x \in S PROVE x <= Max(S)
  <2>1. x \in Nat /\ Max(S) >= x
    BY <1>5
  <2> QED BY <1>6, <2>1
<1> QED BY <1>5, <1>6, <1>7

\* How the number of backslashes changes from one position to the next.
LEMMA BeforeIs ==
    ASSUME NEW t, NEW p \in Nat, NEW q \in Nat, q >= p
    PROVE  /\ Before(t, p, q) \in Nat
           /\ q = p => Before(t, p, q) = 0
           /\ q > p /\ t[q - 1] # Backslash => Before(t, p, q) = 0
           /\ q > p /\ t[q - 1] = Backslash => Before(t, p, q) = Before(t, p, q - 1) + 1
<1> DEFINE Others(n) == {r \in p .. n - 1 : t[r] # Backslash}
           m == Max(Others(q))
<1>1. /\ Others(q) = {} => Before(t, p, q) = q - p
      /\ Others(q) # {} => Before(t, p, q) = q - 1 - m
      /\ Others(q - 1) = {} => Before(t, p, q - 1) = q - 1 - p
      /\ Others(q - 1) # {} => Before(t, p, q - 1) = q - 1 - 1 - Max(Others(q - 1))
  BY DEF Before
<1>2. Others(q) \subseteq Nat /\ (\A x \in Others(q) : x <= q - 1 /\ x <= q)
  OBVIOUS
<1>3. Others(q) # {} => m \in Others(q) /\ m \in Nat /\ \A x \in Others(q) : x <= m
  <2> HIDE DEF Others
  <2> QED BY <1>2, MaxIs
<1>4. q > p /\ t[q - 1] # Backslash => q - 1 \in Others(q)
  OBVIOUS
<1>5. q > p /\ t[q - 1] = Backslash => Others(q) = Others(q - 1)
  OBVIOUS
<1>6. q = p => Others(q) = {}
  OBVIOUS
<1> HIDE DEF Others
<1>7. Others(q) # {} => m <= q - 1
  BY <1>2, <1>3
<1>8. q > p /\ t[q - 1] = Backslash => Max(Others(q - 1)) = m
  BY <1>5
<1>9. q > p /\ t[q - 1] # Backslash => q - 1 <= m
  BY <1>3, <1>4
<1> HIDE DEF m
<1>10. Before(t, p, q) \in Nat
  BY <1>1, <1>3, <1>7
<1>11. q = p => Before(t, p, q) = 0
  BY <1>1, <1>6
<1>12. q > p /\ t[q - 1] # Backslash => Before(t, p, q) = 0
  BY <1>1, <1>3, <1>4, <1>7, <1>9
<1>13. q > p /\ t[q - 1] = Backslash => Before(t, p, q) = Before(t, p, q - 1) + 1
  BY <1>1, <1>3, <1>5, <1>8
<1> QED BY <1>10, <1>11, <1>12, <1>13

\* The number of backslashes is odd exactly when the flag of json_parse_token
\* says so: the symbol before is a backslash that is not itself escaped.
LEMMA OddIs ==
    ASSUME NEW t, NEW p \in Nat, NEW q \in Nat, q >= p
    PROVE  Odd(t, p, q) <=> (q > p /\ t[q - 1] = Backslash /\ ~Odd(t, p, q - 1))
<1> DEFINE b == Before(t, p, q)
           c == Before(t, p, q - 1)
<1>1. b \in Nat /\ (q = p => b = 0) /\ (q > p /\ t[q - 1] # Backslash => b = 0)
      /\ (q > p /\ t[q - 1] = Backslash => b = c + 1)
  BY BeforeIs
<1>2. q > p => c \in Nat
  <2>1. CASE q > p
    <3>1. q - 1 \in Nat /\ q - 1 >= p
      BY <2>1
    <3> QED BY <3>1, BeforeIs
  <2> QED BY <2>1
<1>3. Odd(t, p, q) <=> b % 2 = 1
  BY DEF Odd
<1>4. Odd(t, p, q - 1) <=> c % 2 = 1
  BY DEF Odd
<1> HIDE DEF b, c
<1> QED BY <1>1, <1>2, <1>3, <1>4

\* The closing quotes of json_parse_token's scan are those with an even number
\* of backslashes before them.
LEMMA StringEndIs ==
    ASSUME NEW t \in Seq(Alphabet), NEW p \in Nat
    PROVE  LET quotes == {q \in p .. Len(t) : t[q] = Quote /\ ~Odd(t, p, q)}
           IN  StringEnd(t, p) = IF quotes = {} THEN Len(t) + 1 ELSE Min(quotes)
<1> DEFINE D == p .. Len(t)
           F(f) == [q \in D |-> q > p /\ t[q - 1] = Backslash /\ ~f[q - 1]]
           escaped == CHOOSE f : f = F(f)
           closed == [q \in D |-> Odd(t, p, q)]
<1>0. Len(t) \in Nat /\ D \subseteq Nat
  OBVIOUS
<1>1. closed = F(closed)
  <2>1. ASSUME NEW q \in D PROVE closed[q] = (q > p /\ t[q - 1] = Backslash /\ ~closed[q - 1])
    <3>1. Odd(t, p, q) <=> (q > p /\ t[q - 1] = Backslash /\ ~Odd(t, p, q - 1))
      BY <1>0, OddIs
    <3>2. q > p => q - 1 \in D
      BY <1>0
    <3>3. closed[q] = Odd(t, p, q) /\ (q > p => closed[q - 1] = Odd(t, p, q - 1))
      BY <3>2
    <3> HIDE DEF closed, D
    <3> QED BY <3>1, <3>3 DEF Odd
  <2>2. closed = [q \in D |-> closed[q]]
    OBVIOUS
  <2> HIDE DEF closed, D
  <2> QED BY <2>1, <2>2
<1>2. escaped = F(escaped)
  <2> HIDE DEF closed, F
  <2> QED BY <1>1
<1> HIDE DEF escaped
<1>3. \A q \in D : escaped[q] = (q > p /\ t[q - 1] = Backslash /\ ~escaped[q - 1])
  BY <1>2
<1>4. \A q \in D : escaped[q] <=> Odd(t, p, q)
  <2> DEFINE wrong == {q \in D : ~(escaped[q] <=> Odd(t, p, q))}
  <2>1. SUFFICES ASSUME wrong # {} PROVE FALSE
    OBVIOUS
  <2>2. wrong \subseteq Nat
    BY <1>0
  <2>3. PICK q \in wrong : \A r \in wrong : q <= r
    BY <2>1, <2>2, LeastNat
  <2>4. q \in D /\ q \in Nat /\ q >= p
    BY <1>0
  <2>5. q > p => (escaped[q - 1] <=> Odd(t, p, q - 1))
    BY <1>0, <2>3, <2>4
  <2>6. escaped[q] <=> (q > p /\ t[q - 1] = Backslash /\ ~escaped[q - 1])
    BY <1>3, <2>4
  <2>7. Odd(t, p, q) <=> (q > p /\ t[q - 1] = Backslash /\ ~Odd(t, p, q - 1))
    BY <2>4, OddIs
  <2> QED BY <2>3, <2>5, <2>6, <2>7
<1> DEFINE closing == {q \in D : t[q] = Quote /\ ~escaped[q]}
           quotes == {q \in D : t[q] = Quote /\ ~Odd(t, p, q)}
<1>5. StringEnd(t, p) = IF closing = {} THEN Len(t) + 1 ELSE Min(closing)
  BY DEF StringEnd, escaped
<1>6. closing = quotes
  BY <1>4
<1> QED BY <1>5, <1>6

-----------------------------------------------------------------------------
(***************************************************************************)
(* Tokens                                                                  *)
(***************************************************************************)

\* A string ends within the text, or it does not end.
LEMMA StringEndBounds ==
    ASSUME NEW t \in Seq(Alphabet), NEW p \in 1 .. Len(t) + 1
    PROVE  StringEnd(t, p) \in p .. Len(t) + 1
<1> DEFINE quotes == {q \in p .. Len(t) : t[q] = Quote /\ ~Odd(t, p, q)}
<1>0. Len(t) \in Nat /\ p \in Nat /\ quotes \subseteq Nat
  OBVIOUS
<1>1. StringEnd(t, p) = IF quotes = {} THEN Len(t) + 1 ELSE Min(quotes)
  BY <1>0, StringEndIs
<1>2. quotes # {} => Min(quotes) \in quotes
  <2> HIDE DEF quotes
  <2> QED BY <1>0, MinIs
<1> QED BY <1>0, <1>1, <1>2

\* Reading a token never goes back and never leaves the text, whatever the
\* text, and only a character that starts no token, or the end, is not passed.
LEMMA TokenAtIs ==
    ASSUME NEW t \in Seq(Alphabet), NEW p \in 1 .. Len(t) + 1
    PROVE  /\ TokenAt(t, p).next \in p .. Len(t) + 1
           /\ TokenAt(t, p).type \notin {"EOF", "NONE"} => TokenAt(t, p).next > p
<1> DEFINE s == Past(t, p, Spaces)
           c == t[s]
           close == StringEnd(t, s + 1)
           end == NumberEnd(t, s)
<1>0. Len(t) \in Nat /\ p \in Nat
  OBVIOUS
<1>1. s \in p .. Len(t) + 1
  BY PastIs
<1> HIDE DEF s
<1>2. s \in Nat /\ p <= s /\ s <= Len(t) + 1
  BY <1>0, <1>1
<1>3. s <= Len(t) => close \in s + 1 .. Len(t) + 1
  BY <1>0, <1>2, StringEndBounds
<1>4. s <= Len(t) => end \in s .. Len(t) + 1 /\ (c \in Digits \cup {"-"} => end > s)
  BY <1>0, <1>2, NumberEndIs
<1> HIDE DEF close, end
<1>5. TokenAt(t, p) =
        IF s > Len(t) THEN Token("EOF", <<>>, s)
        ELSE IF c \in DOMAIN Punctuation THEN Token(Punctuation[c], <<>>, s + 1)
        ELSE IF c = Quote THEN
            IF close > Len(t) THEN Token("NONE", <<>>, close)
            ELSE Token("STRING", SubSeq(t, s + 1, close - 1), close + 1)
        ELSE IF c \in Words THEN
            Token(IF c = "null" THEN "NULL" ELSE "BOOLEAN", <<c>>, s + 1)
        ELSE IF c \in Digits \cup {"-"} THEN Token("NUMBER", SubSeq(t, s, end - 1), end)
        ELSE Token("NONE", <<>>, s)
  BY DEF TokenAt, s, close, end
<1> HIDE DEF c
<1>6. CASE s > Len(t)
  <2>1. TokenAt(t, p) = Token("EOF", <<>>, s)
    BY <1>5, <1>6
  <2> QED BY <1>2, <2>1, <1>0 DEF Token
<1>7. CASE s <= Len(t)
  <2>0. ~(s > Len(t))
    BY <1>0, <1>2, <1>7
  <2>1. CASE c \in DOMAIN Punctuation
    <3>1. TokenAt(t, p) = Token(Punctuation[c], <<>>, s + 1)
      BY <1>5, <2>0, <2>1
    <3> QED BY <1>0, <1>2, <1>7, <3>1 DEF Token
  <2>2. CASE c \notin DOMAIN Punctuation /\ c = Quote
    <3>1. TokenAt(t, p) = IF close > Len(t) THEN Token("NONE", <<>>, close)
                          ELSE Token("STRING", SubSeq(t, s + 1, close - 1), close + 1)
      BY <1>5, <2>0, <2>2
    <3>2. CASE close > Len(t)
      <4>1. TokenAt(t, p) = Token("NONE", <<>>, close)
        BY <3>1, <3>2
      <4> QED BY <1>0, <1>2, <1>3, <1>7, <4>1 DEF Token
    <3>3. CASE ~(close > Len(t))
      <4>1. TokenAt(t, p) = Token("STRING", SubSeq(t, s + 1, close - 1), close + 1)
        BY <3>1, <3>3
      <4>2. TokenAt(t, p).next = close + 1
        BY <4>1 DEF Token
      <4> QED BY <1>0, <1>2, <1>3, <1>7, <3>3, <4>2
    <3> QED BY <3>2, <3>3
  <2>3. CASE c \notin DOMAIN Punctuation /\ c # Quote /\ c \in Words
    <3>1. TokenAt(t, p) = Token(IF c = "null" THEN "NULL" ELSE "BOOLEAN", <<c>>, s + 1)
      BY <1>5, <2>0, <2>3
    <3>2. TokenAt(t, p).next = s + 1
      BY <3>1 DEF Token
    <3> QED BY <1>0, <1>2, <1>7, <3>2
  <2>4. CASE c \notin DOMAIN Punctuation /\ c # Quote /\ c \notin Words /\ c \in Digits \cup {"-"}
    <3>1. TokenAt(t, p) = Token("NUMBER", SubSeq(t, s, end - 1), end)
      BY <1>5, <2>0, <2>4
    <3>2. TokenAt(t, p).next = end
      BY <3>1 DEF Token
    <3> QED BY <1>0, <1>2, <1>4, <1>7, <2>4, <3>2
  <2>5. CASE c \notin DOMAIN Punctuation /\ c # Quote /\ c \notin Words /\ c \notin Digits \cup {"-"}
    <3>1. TokenAt(t, p) = Token("NONE", <<>>, s)
      BY <1>5, <2>0, <2>5
    <3> QED BY <1>0, <1>2, <3>1 DEF Token
  <2> QED BY <2>1, <2>2, <2>3, <2>4, <2>5
<1> QED BY <1>0, <1>2, <1>6, <1>7

-----------------------------------------------------------------------------
(***************************************************************************)
(* The two loops                                                           *)
(***************************************************************************)
Kinds == {"object", "array"}

\* What is printed and what is read are texts.
JInv ==
    /\ text \in Seq(Alphabet)
    /\ JTypeOK
    /\ pc \in {"value", "item", "key", "colon", "separator", "count", "SUCCESS", "ERROR_INVALID_INPUT"}

\* Two texts, one behind the other.
LEMMA JoinIs ==
    ASSUME NEW a \in Seq(Alphabet), NEW b \in Seq(Alphabet)
    PROVE  /\ a \o b \in Seq(Alphabet)
           /\ Len(a \o b) = Len(a) + Len(b)
           /\ \A i \in 1 .. Len(a) : (a \o b)[i] = a[i]
           /\ \A i \in 1 .. Len(b) : (a \o b)[Len(a) + i] = b[i]
OBVIOUS

\* A text of one symbol ...
LEMMA OneIs ==
    ASSUME NEW c \in Alphabet
    PROVE  <<c>> \in Seq(Alphabet)
OBVIOUS

\* ... and of two.
LEMMA TwoIs ==
    ASSUME NEW c \in Alphabet, NEW d \in Alphabet
    PROVE  <<c, d>> \in Seq(Alphabet)
OBVIOUS

\* What may follow a value is a text.
LEMMA RestIs == \A rest \in {<<>>, <<",">>, <<"}", "x">>} : rest \in Seq(Alphabet)
<1>0. "," \in Alphabet /\ "}" \in Alphabet /\ "x" \in Alphabet
  BY DEF Alphabet
<1>1. <<>> \in Seq(Alphabet)
  OBVIOUS
<1>2. <<",">> \in Seq(Alphabet)
  BY <1>0, OneIs
<1>3. <<"}", "x">> \in Seq(Alphabet)
  BY <1>0, TwoIs
<1> QED BY Zenon, <1>1, <1>2, <1>3

\* A text is read from its beginning.
LEMMA JInitInv == JInit => JInv
<1> SUFFICES ASSUME JInit PROVE JInv
  OBVIOUS
<1>0. /\ position = 1
      /\ stack = <<>>
      /\ pc = IF mode = "skip" THEN "value" ELSE "count"
  BY Zenon DEF JInit
<1>1. text \in Seq(Alphabet)
  <2>1. CASE value = NoValue /\ text \in Noise
    BY <2>1, TextConstants
  <2>2. CASE \E v \in Values, rest \in {<<>>, <<",">>, <<"}", "x">>} : value = v /\ text = v.text \o rest
    <3>1. PICK v \in Values, rest \in {<<>>, <<",">>, <<"}", "x">>} : text = v.text \o rest
      BY Zenon, <2>2
    <3>2. rest \in Seq(Alphabet)
      BY Zenon, RestIs
    <3>3. v.text \in Seq(Alphabet)
      BY Zenon, TextConstants DEF Values
    <3> QED BY Zenon, <3>1, <3>2, <3>3, JoinIs
  <2> QED BY Zenon, <2>1, <2>2 DEF JInit
<1>2. position \in 1 .. Len(text) + 1
  BY <1>0, <1>1
<1>3. stack \in Seq({"object", "array"}) /\ pc \in {"value", "count"}
  BY <1>0
<1> QED BY <1>0, <1>1, <1>2, <1>3 DEF JInv, JTypeOK

\* A call that ends leaves its caller's loop, if there is one, to go on.
LEMMA ReturnInv ==
    ASSUME NEW calls \in Seq(Kinds), Return(calls)
    PROVE  /\ stack' \in Seq(Kinds)
           /\ pc' \in {"separator", "SUCCESS"}
           /\ pc' = "separator" => stack' # <<>>
BY DEF Return

\* A value starts the loop of the container it opens.
LEMMA SkipValueInv ==
    ASSUME stack \in Seq(Kinds), NEW type, SkipValue(type)
    PROVE  /\ stack' \in Seq(Kinds)
           /\ pc' \in {"separator", "SUCCESS", "key", "item"}
           /\ pc' = "separator" => stack' # <<>>
           /\ pc' = "key" => stack' # <<>> /\ Last(stack') = "object"
           /\ pc' = "item" => stack' # <<>> /\ Last(stack') = "array"
<1>1. CASE type \in {"OBJECT_START", "ARRAY_START"}
  <2> DEFINE k == IF type = "OBJECT_START" THEN "object" ELSE "array"
  <2>1. k \in Kinds /\ stack' = Append(stack, k)
    BY <1>1 DEF SkipValue, Kinds
  <2>2. pc' = IF type = "OBJECT_START" THEN "key" ELSE "item"
    BY <1>1 DEF SkipValue
  <2> HIDE DEF k
  <2>3. stack' \in Seq(Kinds) /\ stack' # <<>> /\ Last(stack') = k
    BY <2>1 DEF Last
  <2> QED BY <2>2, <2>3 DEF k
<1>2. CASE type \notin {"OBJECT_START", "ARRAY_START"}
  <2>1. Return(stack)
    BY <1>2 DEF SkipValue
  <2>2. stack' \in Seq(Kinds) /\ pc' \in {"separator", "SUCCESS"} /\ (pc' = "separator" => stack' # <<>>)
    BY <2>1, ReturnInv
  <2> QED BY <2>2
<1> QED BY <1>1, <1>2

\* One token of json_skip_token_value.
LEMMA SkipInv ==
    ASSUME JInv, json_skip_token_value
    PROVE  JInv'
<1> DEFINE type == json_parse_token.type
<1>0. stack \in Seq(Kinds) /\ text \in Seq(Alphabet) /\ position \in 1 .. Len(text) + 1
  BY DEF JInv, JTypeOK, Kinds
<1>1. text' = text /\ position' \in 1 .. Len(text) + 1
  <2>1. TokenAt(text, position).next \in position .. Len(text) + 1
    BY <1>0, TokenAtIs
  <2>2. position' = TokenAt(text, position).next /\ text' = text
    BY DEF json_skip_token_value, Advance, json_parse_token
  <2>3. Len(text) \in Nat
    BY <1>0
  <2> QED BY <1>0, <2>1, <2>2, <2>3
<1>2. /\ stack' \in Seq(Kinds)
      /\ pc' \in {"separator", "SUCCESS", "ERROR_INVALID_INPUT", "key", "item", "colon", "value"}
      /\ pc' = "separator" => stack' # <<>>
      /\ pc' \in {"key", "colon"} => stack' # <<>> /\ Last(stack') = "object"
      /\ pc' = "item" => stack' # <<>> /\ Last(stack') = "array"
  <2> HIDE DEF type
  <2>0. /\ pc \in {"key", "colon"} => stack # <<>> /\ Last(stack) = "object"
        /\ pc = "item" => stack # <<>> /\ Last(stack) = "array"
        /\ pc = "separator" => stack # <<>>
    BY DEF JInv, JTypeOK
  <2>1. stack # <<>> => Front(stack) \in Seq(Kinds) /\ Last(stack) \in Kinds
    BY <1>0 DEF Front, Last
  <2>2. ASSUME Fail PROVE stack' = stack /\ pc' = "ERROR_INVALID_INPUT"
    BY <2>2 DEF Fail
  <2>3. ASSUME Return(Front(stack)), stack # <<>>
        PROVE  stack' \in Seq(Kinds) /\ pc' \in {"separator", "SUCCESS"} /\ (pc' = "separator" => stack' # <<>>)
    BY <2>1, <2>3, ReturnInv
  <2>4. CASE pc = "value" /\ SkipValue(type)
    BY <1>0, <2>4, SkipValueInv
  <2>5. CASE pc = "item" /\ SkipItem(type)
    <3>1. CASE type = "ARRAY_END"
      BY <2>0, <2>3, <2>5, <3>1 DEF SkipItem
    <3>2. CASE type \in {"EOF", "NONE"}
      BY <1>0, <2>2, <2>5, <3>2 DEF SkipItem
    <3>3. CASE type \notin {"ARRAY_END", "EOF", "NONE"}
      <4>1. SkipValue(type)
        BY <2>5, <3>3 DEF SkipItem
      <4> QED BY <1>0, <4>1, SkipValueInv
    <3> QED BY <3>1, <3>2, <3>3
  <2>6. CASE pc = "key" /\ SkipKey(type)
    <3>1. CASE type = "OBJECT_END"
      BY <2>0, <2>3, <2>6, <3>1 DEF SkipKey
    <3>2. CASE type \notin {"OBJECT_END", "STRING"}
      BY <1>0, <2>2, <2>6, <3>2 DEF SkipKey
    <3>3. CASE type = "STRING"
      BY <1>0, <2>0, <2>6, <3>3 DEF SkipKey
    <3> QED BY <3>1, <3>2, <3>3
  <2>7. CASE pc = "colon" /\ SkipColon(type)
    <3>1. CASE type # "COLON"
      BY <1>0, <2>2, <2>7, <3>1 DEF SkipColon
    <3>2. CASE type = "COLON"
      BY <1>0, <2>7, <3>2 DEF SkipColon
    <3> QED BY <3>1, <3>2
  <2>8. CASE pc = "separator" /\ SkipSeparator(type)
    <3>1. CASE type = "COMMA"
      <4>1. stack' = stack /\ pc' = IF Last(stack) = "object" THEN "key" ELSE "item"
        BY <2>8, <3>1 DEF SkipSeparator
      <4> QED BY <1>0, <2>0, <2>1, <2>8, <4>1 DEF Kinds
    <3>2. CASE type # "COMMA" /\ Closes(type)
      BY <2>0, <2>3, <2>8, <3>2 DEF SkipSeparator
    <3>3. CASE type # "COMMA" /\ ~Closes(type)
      BY <1>0, <2>2, <2>8, <3>3 DEF SkipSeparator
    <3> QED BY <3>1, <3>2, <3>3
  <2> QED BY <2>4, <2>5, <2>6, <2>7, <2>8 DEF json_skip_token_value, type
<1> QED BY <1>0, <1>1, <1>2 DEF JInv, JTypeOK, Kinds

\* One token of json_get_stats_string, which keeps to the text too.
LEMMA StatsInv ==
    ASSUME JInv, json_get_stats_string
    PROVE  JInv'
<1>0. text \in Seq(Alphabet) /\ position \in 1 .. Len(text) + 1
  BY DEF JInv, JTypeOK
<1>1. TokenAt(text, position).next \in position .. Len(text) + 1 /\ Len(text) \in Nat
  BY <1>0, TokenAtIs
<1>2. position' \in 1 .. Len(text) + 1
  BY <1>0, <1>1 DEF json_get_stats_string, Advance, json_parse_token
<1>3. text' = text /\ stack' = stack /\ pc' \in {"count", "SUCCESS"}
  BY DEF json_get_stats_string
<1> QED BY <1>0, <1>2, <1>3 DEF JInv, JTypeOK

\* Both loops stay within the text, whatever is in it, and
\* json_skip_token_value waits only for what belongs to the container it is in.
THEOREM JsonReading == JSpec => []JInv
<1>1. ASSUME JInv, [JNext]_jvars PROVE JInv'
  <2>1. CASE json_skip_token_value
    BY <1>1, <2>1, SkipInv
  <2>2. CASE json_get_stats_string
    BY <1>1, <2>2, StatsInv
  <2>3. CASE UNCHANGED jvars
    BY <1>1, <2>3 DEF JInv, JTypeOK, jvars
  <2> QED BY <1>1, <2>1, <2>2, <2>3 DEF JNext, Finished
<1> QED BY JInitInv, <1>1, PTL DEF JSpec

\* The type invariant that TLC checks.
THEOREM JsonTypes == JSpec => []JTypeOK
<1>1. JInv => JTypeOK
  BY DEF JInv
<1> QED BY JsonReading, <1>1, PTL

\* Whatever the text, each string in it ends at the first quote with an even
\* number of backslashes before it.
THEOREM StringsEndRight == JSpec => []StringEndsRight
<1>1. ASSUME JInv PROVE StringEndsRight
  <2> SUFFICES ASSUME NEW p \in DOMAIN text
               PROVE  LET quotes == {q \in p .. Len(text) : text[q] = Quote /\ Before(text, p, q) % 2 = 0}
                      IN  StringEnd(text, p) = IF quotes = {} THEN Len(text) + 1 ELSE Min(quotes)
    BY DEF StringEndsRight
  <2>0. text \in Seq(Alphabet) /\ p \in Nat /\ Len(text) \in Nat
    BY <1>1 DEF JInv
  <2> DEFINE even == {q \in p .. Len(text) : text[q] = Quote /\ Before(text, p, q) % 2 = 0}
             quotes == {q \in p .. Len(text) : text[q] = Quote /\ ~Odd(text, p, q)}
  <2>1. StringEnd(text, p) = IF quotes = {} THEN Len(text) + 1 ELSE Min(quotes)
    BY <2>0, StringEndIs
  <2>2. ASSUME NEW q \in p .. Len(text) PROVE Before(text, p, q) % 2 = 0 <=> ~Odd(text, p, q)
    <3>1. Before(text, p, q) \in Nat
      BY <2>0, BeforeIs
    <3> QED BY <3>1 DEF Odd
  <2>3. even = quotes
    BY <2>2
  <2> QED BY <2>1, <2>3
<1> QED BY JsonReading, <1>1, PTL

-----------------------------------------------------------------------------
(***************************************************************************)
(* Strings are read back as they were written                              *)
(***************************************************************************)

\* What the writer makes of one character
Spelling(e) ==
    \/ Len(e) = 1 /\ e[1] \notin {Quote, Backslash}
    \/ Len(e) = 2 /\ e[1] = Backslash
    \/ /\ Len(e) = 6
       /\ e[1] = Backslash
       /\ \A i \in 2 .. 6 : e[i] \notin {Quote, Backslash}

\* It is six symbols at most.
LEMMA SpellingLength ==
    ASSUME NEW e \in Seq(Alphabet), Spelling(e)
    PROVE  Len(e) \in Nat /\ Len(e) <= 6
<1> DEFINE l == Len(e)
<1>1. l = 1 \/ l = 2 \/ l = 6
  BY Zenon DEF Spelling
<1> HIDE DEF l
<1>2. l \in Nat /\ l <= 6
  BY <1>1
<1> QED BY Zenon, <1>2 DEF l

\* A character is written as itself, or behind a backslash; what needs a
\* backslash never stands alone.
LEMMA EncodingIs ==
    ASSUME NEW c \in Alphabet
    PROVE  /\ Encoding(c) \in Seq(Alphabet)
           /\ Spelling(Encoding(c))
<1>1. CASE c \in Escapes
  <2> DEFINE d == IF c = "tab" THEN "x" ELSE c
  <2>1. Encoding(c) = <<Backslash, d>>
    BY <1>1 DEF Encoding
  <2>2. d \in Alphabet /\ Backslash \in Alphabet
    BY DEF Alphabet, Escapes
  <2> HIDE DEF d
  <2> QED BY <2>1, <2>2 DEF Spelling
<1>2. CASE c \notin Escapes /\ c = "bell"
  <2>1. Encoding(c) = <<Backslash, "x", "7", "7", "7", "7">>
    BY <1>2 DEF Encoding
  <2>2. Backslash \in Alphabet /\ "x" \in Alphabet /\ "7" \in Alphabet
    BY DEF Alphabet, Escapes, Digits
  <2>3. "x" \notin {Quote, Backslash} /\ "7" \notin {Quote, Backslash}
    BY DEF Quote, Backslash
  <2> QED BY <2>1, <2>2, <2>3 DEF Spelling
<1>3. CASE c \notin Escapes /\ c # "bell"
  <2>1. Encoding(c) = <<c>>
    BY <1>3 DEF Encoding
  <2>2. c \notin {Quote, Backslash}
    BY <1>3 DEF Escapes
  <2> QED BY <2>1, <2>2 DEF Spelling
<1> QED BY <1>1, <1>2, <1>3

\* The texts written for the first 0, 1, ... m characters of src
WrittenTo(src, m, f) ==
    /\ f \in [0 .. m -> Seq(Alphabet)]
    /\ f[0] = <<>>
    /\ \A k \in 1 .. m : f[k] = f[k - 1] \o Encoding(src[k])

Written(src, f) == WrittenTo(src, Len(src), f)

\* One more character can be written behind any text.
LEMMA WriteMore ==
    ASSUME NEW src \in Seq(Alphabet), NEW m \in 1 .. Len(src), NEW f, WrittenTo(src, m - 1, f)
    PROVE  \E g : WrittenTo(src, m, g)
<1> DEFINE e == Encoding(src[m])
           g == [k \in 0 .. m |-> IF k = m THEN f[m - 1] \o e ELSE f[k]]
<1>0. m \in Nat /\ m - 1 \in Nat /\ m >= 1
  OBVIOUS
<1>1. e \in Seq(Alphabet)
  <2>1. src[m] \in Alphabet
    OBVIOUS
  <2> QED BY <2>1, EncodingIs
<1> HIDE DEF e
<1>2. f \in [0 .. m - 1 -> Seq(Alphabet)]
  BY DEF WrittenTo
<1>3. f[m - 1] \in Seq(Alphabet)
  BY <1>0, <1>2
<1>4. f[m - 1] \o e \in Seq(Alphabet)
  BY <1>1, <1>3, JoinIs
<1>5. \A k \in 0 .. m - 1 : g[k] = f[k]
  BY <1>0
<1>6. g[m] = f[m - 1] \o e
  BY <1>0
<1>7. g \in [0 .. m -> Seq(Alphabet)]
  <2>1. ASSUME NEW k \in 0 .. m PROVE (IF k = m THEN f[m - 1] \o e ELSE f[k]) \in Seq(Alphabet)
    <3>1. k # m => k \in 0 .. m - 1
      BY <1>0
    <3>2. k # m => f[k] \in Seq(Alphabet)
      BY <1>2, <3>1
    <3> QED BY <1>4, <3>2
  <2> QED BY <2>1
<1> HIDE DEF g
<1>8. g[0] = <<>>
  <2>1. f[0] = <<>>
    BY DEF WrittenTo
  <2> QED BY <1>0, <1>5, <2>1
<1>9. ASSUME NEW k \in 1 .. m PROVE g[k] = g[k - 1] \o Encoding(src[k])
  <2>1. k - 1 \in 0 .. m - 1 /\ g[k - 1] = f[k - 1]
    BY <1>0, <1>5
  <2>2. CASE k = m
    BY <1>6, <2>1, <2>2 DEF e
  <2>3. CASE k # m
    <3>1. k \in 1 .. m - 1 /\ k \in 0 .. m - 1
      BY <1>0, <2>3
    <3>2. f[k] = f[k - 1] \o Encoding(src[k])
      BY Zenon, <3>1 DEF WrittenTo
    <3>3. g[k] = f[k]
      BY <1>5, <3>1
    <3> QED BY Zenon, <2>1, <3>2, <3>3
  <2> QED BY <2>2, <2>3
<1>10. WrittenTo(src, m, g)
  BY Zenon, <1>7, <1>8, <1>9 DEF WrittenTo
<1> QED BY <1>10

\* The texts exist, however long src is.
LEMMA WrittenExists ==
    ASSUME NEW src \in Seq(Alphabet)
    PROVE  \E f : Written(src, f)
<1> DEFINE n == Len(src)
           missing == {m \in 0 .. n : ~(\E f : WrittenTo(src, m, f))}
<1>0. n \in Nat
  OBVIOUS
<1>1. ASSUME missing # {} PROVE FALSE
  <2>1. \A m \in missing : m \in 0 .. n /\ ~(\E f : WrittenTo(src, m, f))
    BY Zenon
  <2>2. \A m \in 0 .. n : m \notin missing => \E f : WrittenTo(src, m, f)
    BY Zenon
  <2> HIDE DEF missing
  <2>3. missing \subseteq Nat
    BY <1>0, <2>1
  <2>4. PICK m \in missing : \A x \in missing : m <= x
    BY <1>1, <2>3, LeastNat
  <2>5. m \in 0 .. n /\ m \in Nat /\ m <= n
    BY <1>0, <2>1
  <2>6. CASE m = 0
    <3> DEFINE z == [k \in 0 .. 0 |-> <<>>]
    <3>1. z[0] = <<>> /\ z \in [0 .. 0 -> Seq(Alphabet)]
      OBVIOUS
    <3>2. \A k \in 1 .. 0 : FALSE
      OBVIOUS
    <3> HIDE DEF z
    <3>3. WrittenTo(src, 0, z)
      BY Zenon, <3>1, <3>2 DEF WrittenTo
    <3> QED BY Zenon, <2>1, <2>6, <3>3
  <2>7. CASE m # 0
    <3>1. m - 1 \in 0 .. n /\ m \in 1 .. n /\ ~(m <= m - 1)
      BY <1>0, <2>5, <2>7
    <3>2. m - 1 \notin missing
      BY <2>4, <3>1
    <3>3. PICK f : WrittenTo(src, m - 1, f)
      BY Zenon, <2>2, <3>1, <3>2
    <3>4. \E g : WrittenTo(src, m, g)
      BY Zenon, <3>1, <3>3, WriteMore
    <3> QED BY Zenon, <2>1, <3>4
  <2> QED BY <2>6, <2>7
<1>2. n \in 0 .. n
  BY <1>0
<1> QED BY Zenon, <1>1, <1>2 DEF Written

\* What is written for a character ...
LEMMA SpelledAt ==
    ASSUME NEW src \in Seq(Alphabet), NEW k \in 1 .. Len(src)
    PROVE  Encoding(src[k]) \in Seq(Alphabet) /\ Spelling(Encoding(src[k]))
<1>1. src[k] \in Alphabet
  OBVIOUS
<1> QED BY Zenon, <1>1, EncodingIs

\* ... goes behind what was written before it.
LEMMA WrittenStep ==
    ASSUME NEW src \in Seq(Alphabet), NEW f, Written(src, f), NEW k \in 1 .. Len(src)
    PROVE  /\ k - 1 \in 0 .. Len(src)
           /\ f[k - 1] \in Seq(Alphabet)
           /\ f[k] \in Seq(Alphabet)
           /\ f[k] = f[k - 1] \o Encoding(src[k])
<1>1. k - 1 \in 0 .. Len(src) /\ k \in 0 .. Len(src)
  OBVIOUS
<1>2. f \in [0 .. Len(src) -> Seq(Alphabet)]
  BY Zenon DEF Written, WrittenTo
<1>3. f[k - 1] \in Seq(Alphabet) /\ f[k] \in Seq(Alphabet)
  BY <1>1, <1>2
<1>4. f[k] = f[k - 1] \o Encoding(src[k])
  BY Zenon DEF Written, WrittenTo
<1> QED BY Zenon, <1>1, <1>3, <1>4

\* The lengths add up.
LEMMA WrittenJoin ==
    ASSUME NEW src \in Seq(Alphabet), NEW f, Written(src, f), NEW k \in 1 .. Len(src)
    PROVE  Len(f[k]) = Len(f[k - 1]) + Len(Encoding(src[k]))
<1> DEFINE e == Encoding(src[k])
<1>1. e \in Seq(Alphabet)
  BY Zenon, SpelledAt
<1>2. f[k - 1] \in Seq(Alphabet) /\ f[k] = f[k - 1] \o e
  BY Zenon, WrittenStep
<1> HIDE DEF e
<1>3. Len(f[k]) = Len(f[k - 1]) + Len(e)
  BY <1>1, <1>2, JoinIs
<1> QED BY Zenon, <1>3 DEF e

\* A character takes at most six: \uXXXX.
LEMMA WrittenLength ==
    ASSUME NEW src \in Seq(Alphabet), NEW f, Written(src, f)
    PROVE  \A k \in 0 .. Len(src) : Len(f[k]) \in Nat /\ Len(f[k]) <= 6 * k
<1> DEFINE n == Len(src)
           long == {k \in 0 .. n : ~(Len(f[k]) \in Nat /\ Len(f[k]) <= 6 * k)}
<1>0. n \in Nat /\ long \subseteq Nat
  OBVIOUS
<1>1. SUFFICES ASSUME long # {} PROVE FALSE
  OBVIOUS
<1>2. PICK k \in long : \A x \in long : k <= x
  BY <1>0, <1>1, LeastNat
<1>3. k # 0
  <2>1. f[0] = <<>>
    BY Zenon DEF Written, WrittenTo
  <2> QED BY <1>2, <2>1
<1>4. k - 1 \in 0 .. n /\ Len(f[k - 1]) <= 6 * (k - 1) /\ k \in 1 .. n /\ k \in Nat
  BY <1>0, <1>2, <1>3
<1>5. k \in 1 .. Len(src)
  BY <1>4
<1> DEFINE e == Encoding(src[k])
<1>6. e \in Seq(Alphabet) /\ Spelling(e) /\ Len(f[k]) = Len(f[k - 1]) + Len(e)
  <2>1. e \in Seq(Alphabet) /\ Spelling(e)
    BY Zenon, <1>5, SpelledAt
  <2>2. Len(f[k]) = Len(f[k - 1]) + Len(e)
    BY Zenon, <1>5, WrittenJoin
  <2> QED BY Zenon, <2>1, <2>2
<1> HIDE DEF e
<1>7. f[k - 1] \in Seq(Alphabet)
  BY Zenon, <1>5, WrittenStep
<1>8. Len(f[k - 1]) \in Nat /\ Len(e) \in Nat /\ Len(e) <= 6
  BY <1>6, <1>7, SpellingLength
<1> QED BY <1>2, <1>4, <1>6, <1>8

\* What was written for a part of src is not changed any more.
LEMMA WrittenPrefix ==
    ASSUME NEW src \in Seq(Alphabet), NEW f, Written(src, f), NEW k \in 0 .. Len(src)
    PROVE  /\ Len(f[k]) <= Len(f[Len(src)])
           /\ \A j \in 1 .. Len(f[k]) : f[Len(src)][j] = f[k][j]
<1> DEFINE n == Len(src)
           Kept(m) == Len(f[k]) <= Len(f[m]) /\ \A j \in 1 .. Len(f[k]) : f[m][j] = f[k][j]
           lost == {m \in k .. n : ~Kept(m)}
<1>0. n \in Nat /\ k \in Nat /\ k <= n /\ lost \subseteq Nat
  OBVIOUS
<1>1. ASSUME lost # {} PROVE FALSE
  <2>1. PICK m \in lost : \A x \in lost : m <= x
    BY <1>0, <1>1, LeastNat
  <2>2. m \in k .. n /\ ~Kept(m)
    BY <2>1
  <2>3. Len(f[k]) \in Nat
    BY WrittenLength
  <2>4. m # k
    BY <2>2, <2>3
  <2>5. m - 1 \in k .. n /\ m \in 1 .. n /\ m - 1 \notin lost
    BY <1>0, <2>1, <2>2, <2>4
  <2>6. Kept(m - 1)
    BY <2>5
  <2> DEFINE e == Encoding(src[m])
  <2>7. e \in Seq(Alphabet) /\ f[m] = f[m - 1] \o e /\ f[m - 1] \in Seq(Alphabet)
    <3>1. m \in 1 .. Len(src)
      BY <2>5
    <3>2. e \in Seq(Alphabet)
      BY Zenon, <3>1, SpelledAt
    <3>3. f[m] = f[m - 1] \o e /\ f[m - 1] \in Seq(Alphabet)
      BY Zenon, <3>1, WrittenStep
    <3> QED BY Zenon, <3>2, <3>3
  <2> HIDE DEF e
  <2>8. /\ Len(f[m]) = Len(f[m - 1]) + Len(e)
        /\ \A i \in 1 .. Len(f[m - 1]) : f[m][i] = f[m - 1][i]
    BY <2>7, JoinIs
  <2>9. Len(f[m - 1]) \in Nat /\ Len(e) \in Nat
    BY <2>7
  <2>10. Len(f[k]) <= Len(f[m])
    BY <2>3, <2>6, <2>8, <2>9
  <2>11. ASSUME NEW j \in 1 .. Len(f[k]) PROVE f[m][j] = f[k][j]
    <3>1. j \in 1 .. Len(f[m - 1])
      BY <2>3, <2>6, <2>9
    <3> QED BY <2>6, <2>8, <3>1
  <2> QED BY <2>2, <2>10, <2>11
<1>2. n \in k .. n
  BY <1>0
<1> QED BY <1>1, <1>2

\* The buffer of json_escape_string_alloc, six times the string and one more,
\* has room for all of it: json_escape_string leaves no character out.
LEMMA EscapeIs ==
    ASSUME NEW src \in Seq(Alphabet), NEW f, Written(src, f)
    PROVE  json_escape_string_alloc(src) = f[Len(src)]
<1> DEFINE n == Len(src)
           size == 6 * Len(src) + 1
           Next(k, dst) == IF k = 0 THEN <<>>
                           ELSE IF \/ Len(dst) >= size - 1
                                   \/ Len(Encoding(src[k])) > 1 /\ Len(dst) + Len(Encoding(src[k])) >= size
                           THEN dst ELSE dst \o Encoding(src[k])
           F(g) == [k \in 0 .. n |-> Next(k, g[k - 1])]
           Dst == CHOOSE g : g = F(g)
<1>0. n \in Nat /\ n = Len(src)
  OBVIOUS
<1>1. json_escape_string_alloc(src) = Dst[Len(src)]
  BY Zenon DEF json_escape_string_alloc, json_escape_string
<1>2. ASSUME NEW k \in 0 .. n PROVE Next(k, f[k - 1]) = f[k]
  <2>1. CASE k = 0
    <3>1. f[0] = <<>>
      BY Zenon DEF Written, WrittenTo
    <3> QED BY Zenon, <2>1, <3>1
  <2>2. CASE k # 0
    <3> DEFINE e == Encoding(src[k])
               long == Len(f[k - 1])
    <3>1. k \in 1 .. Len(src) /\ k \in Nat /\ k - 1 \in 0 .. Len(src) /\ k <= n
      BY <1>0, <2>2
    <3>2. e \in Seq(Alphabet) /\ Spelling(e) /\ f[k] = f[k - 1] \o e
      <4>1. e \in Seq(Alphabet) /\ Spelling(e)
        BY Zenon, <3>1, SpelledAt
      <4>2. f[k] = f[k - 1] \o e
        BY Zenon, <3>1, WrittenStep
      <4> QED BY Zenon, <4>1, <4>2
    <3>3. long \in Nat /\ long <= 6 * (k - 1)
      BY <3>1, WrittenLength
    <3>4. Len(e) \in Nat /\ Len(e) <= 6
      <4> HIDE DEF e
      <4> QED BY <3>2, SpellingLength
    <3>5. ~(long >= size - 1) /\ ~(long + Len(e) >= size)
      <4> DEFINE l == Len(e)
      <4>1. l \in Nat /\ l <= 6
        BY Zenon, <3>4
      <4>2. size \in Nat /\ size = 6 * n + 1
        BY <1>0
      <4> HIDE DEF l, long, e, n, size
      <4>3. ~(long >= size - 1) /\ ~(long + l >= size)
        BY <1>0, <3>1, <3>3, <4>1, <4>2
      <4> QED BY Zenon, <4>3 DEF l
    <3> QED BY Zenon, <2>2, <3>2, <3>5
  <2> QED BY Zenon, <2>1, <2>2
<1> HIDE DEF Next
<1>3. f = F(f)
  <2>1. f = [k \in 0 .. n |-> f[k]]
    BY Zenon DEF Written, WrittenTo
  <2> QED BY <1>2, <2>1
<1>4. Dst = F(Dst)
  <2> HIDE DEF F
  <2> QED BY Zenon, <1>3
<1> HIDE DEF Dst
<1>5. \A k \in 0 .. n : Dst[k] = Next(k, Dst[k - 1])
  BY <1>4
<1>6. \A k \in 0 .. n : Dst[k] = f[k]
  <2> DEFINE wrong == {k \in 0 .. n : Dst[k] # f[k]}
  <2>1. SUFFICES ASSUME wrong # {} PROVE FALSE
    OBVIOUS
  <2>2. wrong \subseteq Nat
    BY <1>0
  <2>3. PICK k \in wrong : \A x \in wrong : k <= x
    BY <2>1, <2>2, LeastNat
  <2>4. k \in 0 .. n /\ k \in Nat
    BY <1>0
  <2>5. CASE k = 0
    <3>1. Next(0, Dst[k - 1]) = <<>> /\ Next(0, f[k - 1]) = <<>>
      BY Zenon DEF Next
    <3> QED BY Zenon, <1>2, <1>5, <2>3, <2>4, <2>5, <3>1
  <2>6. CASE k # 0
    <3>1. k - 1 \in 0 .. n /\ ~(k <= k - 1)
      BY <1>0, <2>4, <2>6
    <3>2. Dst[k - 1] = f[k - 1]
      BY Zenon, <2>3, <3>1
    <3> QED BY Zenon, <1>2, <1>5, <2>3, <2>4, <3>2
  <2> QED BY <2>5, <2>6
<1>7. n \in 0 .. n
  BY <1>0
<1> QED BY Zenon, <1>0, <1>1, <1>6, <1>7

\* The spellings of the characters, one behind the other.
LEMMA FlattenIs ==
    ASSUME NEW src \in Seq(Alphabet), NEW f, Written(src, f)
    PROVE  FlattenSeq([i \in DOMAIN src |-> Encoding(src[i])]) = f[Len(src)]
<1> DEFINE n == Len(src)
           seqs == [i \in DOMAIN src |-> Encoding(src[i])]
           Next(k, g) == IF k = 1 THEN seqs[k] ELSE g[k - 1] \o seqs[k]
           F(g) == [k \in 1 .. n |-> Next(k, g)]
           flatten == CHOOSE g : g = F(g)
           h == [k \in 1 .. n |-> f[k]]
<1>0. n \in Nat /\ n = Len(src) /\ DOMAIN src = 1 .. n
  OBVIOUS
<1>1. \A k \in 1 .. n : seqs[k] = Encoding(src[k])
  BY Zenon, <1>0
<1>2. seqs \in Seq(Seq(Alphabet)) /\ Len(seqs) = n
  <2>1. \A k \in 1 .. n : Encoding(src[k]) \in Seq(Alphabet)
    BY Zenon, SpelledAt
  <2>2. seqs \in [1 .. n -> Seq(Alphabet)]
    BY Zenon, <1>0, <2>1
  <2>3. DOMAIN seqs = 1 .. n
    BY Zenon, <1>0
  <2> HIDE DEF seqs, n
  <2> QED BY <1>0, <2>2, <2>3
<1>3. CASE n = 0
  <2>1. FlattenSeq(seqs) = seqs
    BY Zenon, <1>2, <1>3 DEF FlattenSeq
  <2>2. seqs = <<>>
    <3> HIDE DEF seqs
    <3> QED BY <1>2, <1>3
  <2>3. f[0] = <<>>
    BY Zenon DEF Written, WrittenTo
  <2> QED BY Zenon, <1>3, <2>1, <2>2, <2>3
<1>4. CASE n # 0
  <2>1. FlattenSeq(seqs) = flatten[n]
    BY Zenon, <1>2, <1>4 DEF FlattenSeq
  <2>2. ASSUME NEW k \in 1 .. n, NEW g, k # 1 => g[k - 1] = f[k - 1] PROVE Next(k, g) = f[k]
    <3>1. seqs[k] = Encoding(src[k]) /\ seqs[k] \in Seq(Alphabet)
      BY Zenon, <1>1, SpelledAt
    <3>2. f[k] = f[k - 1] \o seqs[k]
      <4>1. f[k] = f[k - 1] \o Encoding(src[k])
        BY Zenon, WrittenStep
      <4> HIDE DEF seqs
      <4> QED BY Zenon, <3>1, <4>1
    <3>3. CASE k = 1
      <4> DEFINE e == seqs[k]
      <4>1. f[0] = <<>>
        BY Zenon DEF Written, WrittenTo
      <4>2. k - 1 = 0
        BY <3>3
      <4>3. f[k] = <<>> \o e /\ e \in Seq(Alphabet)
        BY Zenon, <3>1, <3>2, <4>1, <4>2
      <4> HIDE DEF e
      <4>4. <<>> \o e = e
        BY <4>3
      <4> QED BY Zenon, <3>3, <4>3, <4>4 DEF e
    <3>4. CASE k # 1
      BY Zenon, <2>2, <3>2, <3>4
    <3> QED BY Zenon, <3>3, <3>4
  <2> HIDE DEF Next, seqs
  <2>3. h = F(h)
    <3>1. ASSUME NEW k \in 1 .. n PROVE Next(k, h) = f[k]
      <4>1. k # 1 => k - 1 \in 1 .. n
        BY <1>0
      <4>2. k # 1 => h[k - 1] = f[k - 1]
        BY Zenon, <4>1
      <4> QED BY Zenon, <2>2, <4>2
    <3> HIDE DEF n
    <3> QED BY <3>1
  <2>4. flatten = F(flatten)
    <3> HIDE DEF F, h
    <3> QED BY Zenon, <2>3
  <2> HIDE DEF flatten
  <2>5. \A k \in 1 .. n : flatten[k] = Next(k, flatten)
    BY Zenon, <2>4
  <2>6. \A k \in 1 .. n : flatten[k] = f[k]
    <3> DEFINE wrong == {k \in 1 .. n : flatten[k] # f[k]}
    <3>1. SUFFICES ASSUME wrong # {} PROVE FALSE
      OBVIOUS
    <3>2. wrong \subseteq Nat
      BY <1>0
    <3>3. PICK k \in wrong : \A x \in wrong : k <= x
      BY <3>1, <3>2, LeastNat
    <3>4. k \in 1 .. n /\ k \in Nat
      BY <1>0
    <3>5. k # 1 => k - 1 \in 1 .. n /\ ~(k <= k - 1)
      BY <1>0, <3>4
    <3>6. k # 1 => flatten[k - 1] = f[k - 1]
      BY Zenon, <3>3, <3>5
    <3> QED BY Zenon, <2>2, <2>5, <3>3, <3>4, <3>6
  <2>7. n \in 1 .. n
    BY <1>0, <1>4
  <2> QED BY Zenon, <1>0, <2>1, <2>6, <2>7 DEF seqs
<1> QED BY <1>3, <1>4

\* The text has w behind its first symbol.
Quotes(t, w) == \A j \in 1 .. Len(w) : t[j + 1] = w[j]

\* Reading w, the escaped flag is clear at its end and set at each quote in it.
Flagged(t, w) ==
    /\ ~Odd(t, 2, Len(w) + 2)
    /\ \A q \in 2 .. Len(w) + 1 : t[q] = Quote => Odd(t, 2, q)

\* This is so for what is written, and for each part of it.
LEMMA FlagsRight ==
    ASSUME NEW src \in Seq(Alphabet), NEW f, Written(src, f),
           NEW t \in Seq(Alphabet), Quotes(t, f[Len(src)])
    PROVE  \A k \in 0 .. Len(src) : Flagged(t, f[k])
<1> DEFINE n == Len(src)
           Clear(k) == ~Odd(t, 2, Len(f[k]) + 2)
           Set(k) == \A q \in 2 .. Len(f[k]) + 1 : t[q] = Quote => Odd(t, 2, q)
           wrong == {k \in 0 .. n : ~(Clear(k) /\ Set(k))}
<1>0. n \in Nat /\ wrong \subseteq Nat
  OBVIOUS
<1>1. SUFFICES ASSUME wrong # {} PROVE FALSE
  BY DEF Flagged
<1>2. PICK k \in wrong : \A x \in wrong : k <= x
  BY <1>0, <1>1, LeastNat
<1>3. k \in 0 .. n /\ k \in Nat /\ ~(Clear(k) /\ Set(k))
  BY <1>0, <1>2
<1>4. CASE k = 0
  <2>1. f[0] = <<>>
    BY Zenon DEF Written, WrittenTo
  <2>2. Len(f[k]) = 0
    BY <1>4, <2>1
  <2>3. ~Odd(t, 2, 2)
    BY OddIs
  <2>4. Clear(k)
    BY <2>2, <2>3
  <2>5. Set(k)
    BY <2>2
  <2> QED BY <1>3, <2>4, <2>5
<1>5. CASE k # 0
  <2>1. k \in 1 .. Len(src) /\ k - 1 \in 0 .. n /\ ~(k <= k - 1)
    BY <1>0, <1>3, <1>5
  <2>2. Clear(k - 1) /\ Set(k - 1)
    BY Zenon, <1>2, <2>1
  <2> DEFINE e == Encoding(src[k])
             l == Len(f[k - 1])
             w == Len(e)
  <2> HIDE DEF Clear, Set, wrong
  <2>3. e \in Seq(Alphabet) /\ Spelling(e) /\ f[k] = f[k - 1] \o e /\ f[k - 1] \in Seq(Alphabet)
    <3>1. k \in 1 .. Len(src)
      BY <2>1
    <3>2. Encoding(src[k]) \in Seq(Alphabet) /\ Spelling(Encoding(src[k]))
      BY Zenon, <3>1, SpelledAt
    <3>3. f[k - 1] \in Seq(Alphabet)
      BY Zenon, <3>1, WrittenStep
    <3>4. f[k] = f[k - 1] \o Encoding(src[k])
      BY Zenon, <3>1 DEF Written, WrittenTo
    <3> QED BY Zenon, <3>2, <3>3, <3>4
  <2>4. l \in Nat /\ w \in Nat /\ Len(f[k]) = l + w /\ \A i \in 1 .. w : f[k][l + i] = e[i]
    <3> HIDE DEF e
    <3> QED BY <2>3, JoinIs
  <2>5. l \in Nat /\ w \in Nat /\ Len(f[k]) = l + w
    BY Zenon, <2>4
  <2>6. ASSUME NEW i \in 1 .. w PROVE t[l + i + 1] = e[i]
    <3>1. l + i \in 1 .. Len(f[k])
      <4> HIDE DEF l, w, e
      <4> QED BY <2>5
    <3>2. k \in 0 .. Len(src)
      BY <1>3
    <3>3. Len(f[k]) <= Len(f[Len(src)]) /\ f[Len(src)][l + i] = f[k][l + i]
      <4>1. \A j \in 1 .. Len(f[k]) : f[Len(src)][j] = f[k][j]
        BY <3>2, WrittenPrefix
      <4>2. Len(f[k]) <= Len(f[Len(src)])
        BY <3>2, WrittenPrefix
      <4> HIDE DEF l
      <4> QED BY Zenon, <3>1, <4>1, <4>2
    <3>4. Len(f[k]) \in Nat /\ Len(f[Len(src)]) \in Nat
      BY <1>0, <3>2, WrittenLength
    <3>5. l + i \in 1 .. Len(f[Len(src)])
      <4> HIDE DEF l
      <4> QED BY <3>1, <3>3, <3>4
    <3>6. t[l + i + 1] = f[Len(src)][l + i]
      BY Zenon, <3>5 DEF Quotes
    <3> QED BY Zenon, <2>4, <3>3, <3>6
  <2>7. ~Odd(t, 2, l + 2)
    BY Zenon, <2>2 DEF Clear
  <2>8. \A q \in 2 .. l + 1 : t[q] = Quote => Odd(t, 2, q)
    BY Zenon, <2>2 DEF Set
  <2>9. ~Odd(t, 2, l + w + 2) /\ \A q \in 2 .. l + w + 1 : t[q] = Quote => Odd(t, 2, q)
    <3> HIDE DEF l, w, e
    <3>0. ASSUME NEW i \in Nat PROVE Odd(t, 2, l + i + 3) <=> t[l + i + 2] = Backslash /\ ~Odd(t, 2, l + i + 2)
      <4> DEFINE q == l + i + 3
      <4>1. q \in Nat /\ q >= 2 /\ q > 2 /\ q - 1 = l + i + 2 /\ 2 \in Nat
        BY <2>5
      <4> HIDE DEF q
      <4>2. Odd(t, 2, q) <=> (q > 2 /\ t[q - 1] = Backslash /\ ~Odd(t, 2, q - 1))
        BY Zenon, <4>1, OddIs
      <4> QED BY Zenon, <4>1, <4>2 DEF q
    <3>1. CASE w = 1 /\ e[1] \notin {Quote, Backslash}
      <4>1. t[l + 2] \notin {Quote, Backslash}
        <5>1. 1 \in 1 .. w /\ l + 1 + 1 = l + 2
          BY <2>5, <3>1
        <5> QED BY <2>6, <3>1, <5>1
      <4>2. ~Odd(t, 2, l + 3)
        <5>1. l + 0 + 3 = l + 3 /\ l + 0 + 2 = l + 2
          BY <2>5
        <5> QED BY <3>0, <4>1, <5>1
      <4>3. l + w + 2 = l + 3 /\ \A q \in 2 .. l + w + 1 : q \in 2 .. l + 1 \/ q = l + 2
        BY <2>5, <3>1
      <4> QED BY <2>8, <4>1, <4>2, <4>3
    <3>2. CASE w = 2 /\ e[1] = Backslash
      <4>1. t[l + 2] = Backslash
        <5>1. 1 \in 1 .. w /\ l + 1 + 1 = l + 2
          BY <2>5, <3>2
        <5> QED BY <2>6, <3>2, <5>1
      <4>2. Odd(t, 2, l + 3)
        <5>1. l + 0 + 3 = l + 3 /\ l + 0 + 2 = l + 2
          BY <2>5
        <5> QED BY <2>7, <3>0, <4>1, <5>1
      <4>3. ~Odd(t, 2, l + 4)
        <5>1. l + 1 + 3 = l + 4 /\ l + 1 + 2 = l + 3
          BY <2>5
        <5> QED BY <3>0, <4>2, <5>1
      <4>4. l + w + 2 = l + 4 /\ \A q \in 2 .. l + w + 1 : q \in 2 .. l + 1 \/ q = l + 2 \/ q = l + 3
        BY <2>5, <3>2
      <4>5. Backslash # Quote
        BY DEF Backslash, Quote
      <4> QED BY <2>8, <4>1, <4>2, <4>3, <4>4, <4>5
    <3>3. CASE w = 6 /\ e[1] = Backslash /\ \A i \in 2 .. 6 : e[i] \notin {Quote, Backslash}
      <4>1. t[l + 2] = Backslash
        <5>1. 1 \in 1 .. w /\ l + 1 + 1 = l + 2
          BY <2>5, <3>3
        <5> QED BY <2>6, <3>3, <5>1
      <4>2. ASSUME NEW q \in l + 3 .. l + 7 PROVE t[q] \notin {Quote, Backslash}
        <5>1. q - l - 1 \in 2 .. 6 /\ q - l - 1 \in 1 .. w /\ l + (q - l - 1) + 1 = q
          BY <2>5, <3>3
        <5> QED BY <2>6, <3>3, <5>1
      <4>3. ~Odd(t, 2, l + 8)
        <5>1. l + 5 + 3 = l + 8 /\ l + 5 + 2 = l + 7 /\ l + 7 \in l + 3 .. l + 7
          BY <2>5
        <5> QED BY <3>0, <4>2, <5>1
      <4>4. l + w + 2 = l + 8 /\ \A q \in 2 .. l + w + 1 : q \in 2 .. l + 1 \/ q = l + 2 \/ q \in l + 3 .. l + 7
        BY <2>5, <3>3
      <4>5. Backslash # Quote
        BY DEF Backslash, Quote
      <4> QED BY <2>8, <4>1, <4>2, <4>3, <4>4, <4>5
    <3> QED BY Zenon, <2>3, <3>1, <3>2, <3>3 DEF Spelling, w
  <2>10. Clear(k) /\ Set(k)
    <3> HIDE DEF l, w, e
    <3> QED BY Zenon, <2>5, <2>9 DEF Clear, Set
  <2> QED BY <1>3, <2>10
<1> QED BY <1>4, <1>5

\* What is between the first symbol of a text and the one behind b.
LEMMA InsideIs ==
    ASSUME NEW t \in Seq(Alphabet), NEW b \in 1 .. Len(t)
    PROVE  /\ SubSeq(t, 2, b) \in Seq(Alphabet)
           /\ Len(SubSeq(t, 2, b)) = b - 1
           /\ \A i \in 1 .. b - 1 : SubSeq(t, 2, b)[i] = t[i + 1]
<1>1. SubSeq(t, 2, b) \in Seq(Alphabet)
  OBVIOUS
<1>2. Len(SubSeq(t, 2, b)) = b - 1
  OBVIOUS
<1>3. \A i \in 1 .. b - 1 : SubSeq(t, 2, b)[i] = t[i + 1]
  OBVIOUS
<1> QED BY Zenon, <1>1, <1>2, <1>3

\* A written string is read back as one token, whatever follows it.
LEMMA ReadBack ==
    ASSUME NEW src \in Seq(Alphabet), NEW f, Written(src, f), NEW rest \in Seq(Alphabet), NEW t,
           t = <<Quote>> \o f[Len(src)] \o <<Quote>> \o rest
    PROVE  TokenAt(t, 1) = Token("STRING", f[Len(src)], Len(f[Len(src)]) + 3)
<1> DEFINE w == f[Len(src)]
           end == Len(w) + 2
<1>1. w \in Seq(Alphabet) /\ Len(w) \in Nat
  <2>1. f \in [0 .. Len(src) -> Seq(Alphabet)]
    BY Zenon DEF Written, WrittenTo
  <2>2. Len(src) \in 0 .. Len(src)
    OBVIOUS
  <2>3. w \in Seq(Alphabet)
    BY Zenon, <2>1, <2>2
  <2> HIDE DEF w
  <2> QED BY <2>3
<1>2. t = <<Quote>> \o w \o <<Quote>> \o rest /\ Quote \in Alphabet
  BY DEF Alphabet, Escapes
<1>3. /\ t \in Seq(Alphabet)
      /\ Len(t) = Len(w) + 2 + Len(rest)
      /\ t[1] = Quote
      /\ t[end] = Quote
      /\ \A j \in 1 .. Len(w) : t[j + 1] = w[j]
  <2> HIDE DEF w
  <2> DEFINE q == Quote
  <2>0. q \in Alphabet
    BY <1>2
  <2> HIDE DEF q
  <2>1. ASSUME NEW u, u = <<q>> \o w \o <<q>> \o rest
        PROVE  /\ u \in Seq(Alphabet)
               /\ Len(u) = Len(w) + 2 + Len(rest)
               /\ u[1] = q
               /\ u[end] = q
               /\ \A j \in 1 .. Len(w) : u[j + 1] = w[j]
    BY <1>1, <2>0, <2>1
  <2> QED BY Zenon, <1>2, <2>1 DEF q
<1>4. \A k \in 0 .. Len(src) : Flagged(t, f[k])
  <2>1. Quotes(t, f[Len(src)])
    BY Zenon, <1>3 DEF Quotes
  <2>2. t \in Seq(Alphabet)
    BY Zenon, <1>3
  <2> HIDE DEF w, end
  <2> QED BY Zenon, <2>1, <2>2, FlagsRight
<1>5. ~Odd(t, 2, end) /\ \A q \in 2 .. Len(w) + 1 : t[q] = Quote => Odd(t, 2, q)
  <2>1. Len(src) \in 0 .. Len(src)
    OBVIOUS
  <2> QED BY Zenon, <1>4, <2>1 DEF Flagged
<1> HIDE DEF w
<1>6. StringEnd(t, 2) = end
  <2> DEFINE quotes == {q \in 2 .. Len(t) : t[q] = Quote /\ ~Odd(t, 2, q)}
  <2>0. Len(rest) \in Nat /\ 2 \in Nat
    OBVIOUS
  <2>1. StringEnd(t, 2) = IF quotes = {} THEN Len(t) + 1 ELSE Min(quotes)
    BY <1>3, <2>0, StringEndIs
  <2>2. end \in quotes
    <3>1. end \in 2 .. Len(t)
      BY <1>1, <1>3, <2>0
    <3> HIDE DEF end
    <3> QED BY Zenon, <1>3, <1>5, <3>1
  <2>3. ASSUME NEW q \in quotes PROVE q \in Nat /\ end <= q
    <3>1. q \in 2 .. Len(t) /\ t[q] = Quote /\ ~Odd(t, 2, q)
      OBVIOUS
    <3>2. q \notin 2 .. Len(w) + 1
      BY <1>5, <3>1
    <3> QED BY <1>1, <1>3, <2>0, <3>1, <3>2
  <2>4. Min(quotes) \in quotes /\ \A y \in quotes : Min(quotes) <= y
    <3> HIDE DEF quotes
    <3>1. quotes \subseteq Nat /\ quotes # {}
      BY <2>2, <2>3
    <3> QED BY <3>1, MinIs
  <2> DEFINE m == Min(quotes)
  <2> HIDE DEF quotes
  <2>5. m \in Nat /\ end <= m /\ m <= end
    BY <2>2, <2>3, <2>4
  <2>6. StringEnd(t, 2) = m
    BY <2>1, <2>2
  <2> HIDE DEF m
  <2> QED BY <1>1, <2>5, <2>6
<1>7. Past(t, 1, Spaces) = 1
  <2> DEFINE s == Past(t, 1, Spaces)
  <2>1. 1 \in 1 .. Len(t) + 1 /\ Len(rest) \in Nat
    BY <1>1, <1>3
  <2>2. s \in 1 .. Len(t) + 1 /\ \A r \in 1 .. s - 1 : t[r] \in Spaces
    BY <1>3, <2>1, PastIs
  <2>3. t[1] \notin Spaces
    BY <1>3 DEF Spaces, Quote
  <2> HIDE DEF s
  <2>4. s = 1
    BY <1>1, <1>3, <2>1, <2>2, <2>3
  <2> QED BY <2>4 DEF s
<1>8. SubSeq(t, 2, end - 1) = w
  <2> DEFINE u == SubSeq(t, 2, end - 1)
  <2>0. Len(rest) \in Nat
    OBVIOUS
  <2>1. u \in Seq(Alphabet) /\ Len(u) = Len(w) /\ \A i \in 1 .. Len(w) : u[i] = w[i]
    <3> DEFINE last == end - 1
    <3>1. last \in 1 .. Len(t) /\ last - 1 = Len(w)
      BY <1>1, <1>3, <2>0
    <3> HIDE DEF last
    <3>2. /\ SubSeq(t, 2, last) \in Seq(Alphabet)
          /\ Len(SubSeq(t, 2, last)) = last - 1
          /\ \A i \in 1 .. last - 1 : SubSeq(t, 2, last)[i] = t[i + 1]
      BY <1>3, <3>1, InsideIs
    <3> QED BY Zenon, <1>3, <3>1, <3>2 DEF last
  <2> HIDE DEF u
  <2>2. u = w
    BY <1>1, <2>1, SeqEqual
  <2> QED BY <2>2 DEF u
<1>9. TokenAt(t, 1) = Token("STRING", SubSeq(t, 2, end - 1), end + 1)
  <2>1. ~(1 > Len(t)) /\ 1 + 1 = 2 /\ ~(end > Len(t)) /\ Len(rest) \in Nat
    BY <1>1, <1>3
  <2>2. Quote \notin DOMAIN Punctuation
    BY DEF Punctuation, Quote
  <2> HIDE DEF end
  <2> QED BY Zenon, <1>3, <1>6, <1>7, <2>1, <2>2 DEF TokenAt
<1>10. end + 1 = Len(w) + 3
  BY <1>1
<1> QED BY Zenon, <1>8, <1>9, <1>10 DEF w

\* A string and the text it is printed at the beginning of
StringInv ==
    value.kind = "string" =>
        /\ value.source \in Seq(Alphabet)
        /\ value.text = json_serialize_append_string(value.source)
        /\ \E rest \in Seq(Alphabet) : text = value.text \o rest

\* What is left of an object or array is of another kind than its values.
LEMMA RestKinds == \A kind \in {"object", "array"} : Rest[kind] \notin ValueKinds \cup {"pair"}
BY DEF Rest, ValueKinds

\* Only json_serialize_append_string prints strings.
LEMMA PrintedString ==
    ASSUME NEW v \in Printed, v.kind = "string"
    PROVE  v.source \in Seq(Alphabet) /\ v.text = json_serialize_append_string(v.source)
<1>1. ~KeyAndValue(v)
  BY DEF KeyAndValue
<1>2. ASSUME NEW kind \in {"object", "array"} PROVE ~Container(v, kind) /\ ~Remainder(v, kind)
  <2>1. v.kind # kind
    OBVIOUS
  <2>2. v.kind # Rest[kind]
    BY RestKinds DEF ValueKinds
  <2> QED BY Zenon, <2>1, <2>2 DEF Container, Remainder
<1>3. json_serialize_field_value(v)
  BY Zenon, <1>1, <1>2, TextConstants
<1>4. ~(v.kind = "number") /\ ~(v.kind = "word")
  OBVIOUS
<1> QED BY Zenon, <1>3, <1>4 DEF json_serialize_field_value

\* The string is printed by json_serialize_append_string and then stays.
LEMMA JInitString == JInit => StringInv
<1> SUFFICES ASSUME JInit, value.kind = "string"
             PROVE  /\ value.source \in Seq(Alphabet)
                    /\ value.text = json_serialize_append_string(value.source)
                    /\ \E rest \in Seq(Alphabet) : text = value.text \o rest
  BY Zenon DEF StringInv
<1>1. value # NoValue
  BY DEF NoValue
<1>2. PICK v \in Values, rest \in {<<>>, <<",">>, <<"}", "x">>} : value = v /\ text = v.text \o rest
  BY Zenon, <1>1 DEF JInit
<1>3. rest \in Seq(Alphabet)
  BY Zenon, RestIs
<1>4. v \in Printed /\ v.kind = "string"
  BY Zenon, <1>2 DEF Values
<1> QED BY Zenon, <1>2, <1>3, <1>4, PrintedString

\* The text of a string, put together.
LEMMA StringTextIs ==
    ASSUME NEW src \in Seq(Alphabet), NEW f, Written(src, f), NEW rest \in Seq(Alphabet), NEW t,
           t = json_serialize_append_string(src) \o rest
    PROVE  /\ t = <<Quote>> \o f[Len(src)] \o <<Quote>> \o rest
           /\ Len(json_serialize_append_string(src)) = Len(f[Len(src)]) + 2
<1> DEFINE w == f[Len(src)]
<1>1. json_serialize_append_string(src) = <<Quote>> \o w \o <<Quote>>
  BY Zenon, EscapeIs DEF json_serialize_append_string
<1>2. w \in Seq(Alphabet)
  <2>1. f \in [0 .. Len(src) -> Seq(Alphabet)]
    BY Zenon DEF Written, WrittenTo
  <2>2. Len(src) \in 0 .. Len(src)
    OBVIOUS
  <2> QED BY Zenon, <2>1, <2>2
<1>3. Quote \in Alphabet
  BY DEF Alphabet, Escapes
<1> HIDE DEF w
<1>4. ASSUME NEW q \in Alphabet PROVE Len(<<q>> \o w \o <<q>>) = Len(w) + 2
  BY <1>2
<1> QED BY Zenon, <1>1, <1>3, <1>4 DEF w

\* What json_serialize_append_string writes, for any string at all, is whole,
\* and json_parse_token reads it as one token that ends where it was made to
\* end, whatever follows.
THEOREM StringsReadBack == JSpec => []StringsKept
<1>1. ASSUME StringInv, [JNext]_jvars PROVE StringInv'
  <2>1. value' = value /\ text' = text
    BY Zenon, <1>1 DEF JNext, json_skip_token_value, json_get_stats_string, Finished, jvars
  <2> QED BY Zenon, <1>1, <2>1 DEF StringInv
<1>2. ASSUME StringInv PROVE StringsKept
  <2> DEFINE src == value.source
  <2> SUFFICES ASSUME value.kind = "string"
               PROVE  TokenAt(text, 1) =
                        Token("STRING", FlattenSeq([i \in DOMAIN src |-> Encoding(src[i])]),
                              Len(value.text) + 1)
    BY Zenon DEF StringsKept
  <2>1. src \in Seq(Alphabet) /\ value.text = json_serialize_append_string(src)
    BY Zenon, <1>2 DEF StringInv
  <2>2. PICK rest \in Seq(Alphabet) : text = value.text \o rest
    BY Zenon, <1>2 DEF StringInv
  <2> HIDE DEF src
  <2>3. PICK f : Written(src, f)
    BY Zenon, <2>1, WrittenExists
  <2>4. text = <<Quote>> \o f[Len(src)] \o <<Quote>> \o rest
    BY ZenonT(60), <2>1, <2>2, <2>3, StringTextIs
  <2>5. Len(value.text) = Len(f[Len(src)]) + 2
    BY ZenonT(60), <2>1, <2>2, <2>3, StringTextIs
  <2>6. TokenAt(text, 1) = Token("STRING", f[Len(src)], Len(f[Len(src)]) + 3)
    BY Zenon, <2>1, <2>3, <2>4, ReadBack
  <2>7. FlattenSeq([i \in DOMAIN src |-> Encoding(src[i])]) = f[Len(src)]
    BY Zenon, <2>1, <2>3, FlattenIs
  <2>8. Len(f[Len(src)]) + 3 = Len(value.text) + 1
    <3> DEFINE l == Len(f[Len(src)])
    <3>1. Len(src) \in 0 .. Len(src)
      BY <2>1
    <3>2. l \in Nat
      BY Zenon, <2>1, <2>3, <3>1, WrittenLength
    <3>3. Len(value.text) = l + 2
      BY Zenon, <2>5
    <3> HIDE DEF l
    <3>4. l + 3 = Len(value.text) + 1
      BY <3>2, <3>3
    <3> QED BY Zenon, <3>4 DEF l
  <2> QED BY Zenon, <2>6, <2>7, <2>8
<1> QED BY JInitString, <1>1, <1>2, PTL DEF JSpec

-----------------------------------------------------------------------------
(****************************************************************************)
(* The beginning of a text is read like the text                           *)
(****************************************************************************)

\* u is the beginning of t
Cut(u, t) == Len(u) <= Len(t) /\ \A i \in 1 .. Len(u) : u[i] = t[i]

\* A scan that ends within the beginning of a text ends there for the beginning too.
LEMMA PastCut ==
    ASSUME NEW t \in Seq(Alphabet), NEW u \in Seq(Alphabet), Cut(u, t),
           NEW p \in 1 .. Len(u) + 1, NEW class, Past(t, p, class) <= Len(u) + 1
    PROVE  Past(u, p, class) = Past(t, p, class)
<1> DEFINE x == Past(t, p, class)
           y == Past(u, p, class)
<1>0. Len(t) \in Nat /\ Len(u) \in Nat /\ Len(u) <= Len(t) /\ p \in 1 .. Len(t) + 1
  BY DEF Cut
<1>1. \A i \in 1 .. Len(u) : u[i] = t[i]
  BY Zenon DEF Cut
<1>2. x \in p .. Len(t) + 1 /\ (x <= Len(t) => t[x] \notin class) /\ \A r \in p .. x - 1 : t[r] \in class
  BY <1>0, PastIs
<1>3. y \in p .. Len(u) + 1 /\ (y <= Len(u) => u[y] \notin class) /\ \A r \in p .. y - 1 : u[r] \in class
  BY <1>0, PastIs
<1>4. x <= Len(u) + 1
  OBVIOUS
<1> HIDE DEF x, y
<1>5. ~(y < x)
  <2>1. SUFFICES ASSUME y < x PROVE FALSE
    OBVIOUS
  <2>2. y \in 1 .. Len(u) /\ y \in p .. x - 1
    BY <1>0, <1>2, <1>3, <1>4, <2>1
  <2> QED BY <1>0, <1>1, <1>2, <1>3, <2>2
<1>6. ~(x < y)
  <2>1. SUFFICES ASSUME x < y PROVE FALSE
    OBVIOUS
  <2>2. x \in 1 .. Len(u) /\ x \in p .. y - 1 /\ x <= Len(t)
    BY <1>0, <1>2, <1>3, <1>4, <2>1
  <2> QED BY <1>0, <1>1, <1>2, <1>3, <2>2
<1>7. x = y
  BY <1>0, <1>2, <1>3, <1>5, <1>6
<1> QED BY <1>7 DEF x, y

\* So does an optional symbol.
LEMMA OptionalCut ==
    ASSUME NEW t \in Seq(Alphabet), NEW u \in Seq(Alphabet), Cut(u, t),
           NEW p \in 1 .. Len(u) + 1, NEW class, Optional(t, p, class) <= Len(u) + 1
    PROVE  Optional(u, p, class) = Optional(t, p, class)
<1>0. Len(t) \in Nat /\ Len(u) \in Nat /\ Len(u) <= Len(t)
  BY DEF Cut
<1>1. p <= Len(u) => u[p] = t[p]
  BY DEF Cut
<1> QED BY <1>0, <1>1 DEF Optional

\* So does a number.
LEMMA NumberEndCut ==
    ASSUME NEW t \in Seq(Alphabet), NEW u \in Seq(Alphabet), Cut(u, t),
           NEW p \in 1 .. Len(u), NumberEnd(t, p) <= Len(u) + 1
    PROVE  NumberEnd(u, p) = NumberEnd(t, p)
<1> DEFINE N == Len(u) + 1
           sign == Optional(t, p, {"-"})
           int == Past(t, sign, Digits)
           point == Optional(t, int, {"."})
           dec == IF point = int THEN int ELSE Past(t, int + 1, Digits)
           mark == Optional(t, dec, {"e"})
           exp == Optional(t, dec + 1, {"+", "-"})
           end == IF mark = dec THEN dec ELSE Past(t, exp, Digits)
<1>0. Len(t) \in Nat /\ Len(u) \in Nat /\ Len(u) <= Len(t) /\ p \in 1 .. Len(t) + 1 /\ N \in Nat /\ p \in 1 .. N
  BY DEF Cut
<1>1. NumberEnd(t, p) = end
  BY Zenon DEF NumberEnd
<1>2. sign \in p .. Len(t) + 1
  BY <1>0, OptionalIs
<1>3. int \in sign .. Len(t) + 1
  <2> HIDE DEF sign
  <2>1. sign \in 1 .. Len(t) + 1
    BY <1>0, <1>2
  <2> QED BY <2>1, PastIs
<1>4. int \in 1 .. Len(t) + 1
  <2> HIDE DEF sign, int
  <2> QED BY <1>0, <1>2, <1>3
<1> HIDE DEF int
<1>5. point = int \/ (point = int + 1 /\ int + 1 \in 1 .. Len(t) + 1)
  BY <1>0, <1>4 DEF Optional
<1>6. dec \in int .. Len(t) + 1 /\ (point # int => dec >= int + 1)
  <2> HIDE DEF point
  <2>1. point # int => Past(t, int + 1, Digits) \in int + 1 .. Len(t) + 1
    BY <1>5, PastIs
  <2> QED BY <1>0, <1>4, <1>5, <2>1
<1>7. dec \in 1 .. Len(t) + 1
  <2> HIDE DEF dec
  <2> QED BY <1>0, <1>4, <1>6
<1> HIDE DEF dec
<1>8. mark = dec \/ (mark = dec + 1 /\ dec + 1 \in 1 .. Len(t) + 1)
  BY <1>0, <1>7 DEF Optional
<1>9. mark # dec => exp \in dec + 1 .. Len(t) + 1
  <2> HIDE DEF mark
  <2> QED BY <1>8, OptionalIs
<1>10. mark # dec => end \in exp .. Len(t) + 1
  <2>1. mark # dec => exp \in 1 .. Len(t) + 1
    <3> HIDE DEF exp, mark
    <3> QED BY <1>0, <1>7, <1>9
  <2> HIDE DEF exp, mark
  <2> QED BY <2>1, PastIs
<1>11. end <= N
  BY Zenon, <1>1
<1> HIDE DEF end, exp, mark, point, sign, N
<1>12. mark = dec => end = dec
  BY Zenon DEF end
<1>13. dec <= N /\ int <= N /\ sign <= N /\ (mark # dec => mark <= N /\ exp <= N /\ dec + 1 <= N) /\ (point # int => point <= N /\ int + 1 <= N)
  BY <1>0, <1>2, <1>3, <1>4, <1>5, <1>6, <1>7, <1>8, <1>9, <1>10, <1>11, <1>12
<1>14. sign \in 1 .. N /\ int \in 1 .. N /\ dec \in 1 .. N
  BY <1>0, <1>2, <1>4, <1>7, <1>13
<1>15. Optional(u, p, {"-"}) = sign
  BY <1>0, <1>13, OptionalCut DEF sign, N
<1>16. Past(u, sign, Digits) = int
  BY <1>13, <1>14, PastCut DEF int, N
<1>17. Optional(u, int, {"."}) = point
  <2>1. point <= N
    BY <1>13
  <2> QED BY <1>14, <2>1, OptionalCut DEF point, N
<1>18. point # int => Past(u, int + 1, Digits) = dec
  <2>1. point # int => dec = Past(t, int + 1, Digits)
    BY DEF dec
  <2>2. point # int => int + 1 \in 1 .. N
    BY <1>0, <1>13, <1>14
  <2> QED BY <1>13, <2>1, <2>2, PastCut DEF N
<1>19. point = int => dec = int
  BY DEF dec
<1>20. Optional(u, dec, {"e"}) = mark
  <2>1. mark <= N
    BY <1>13
  <2> QED BY <1>14, <2>1, OptionalCut DEF mark, N
<1>21. mark # dec => Optional(u, dec + 1, {"+", "-"}) = exp
  <2>1. mark # dec => dec + 1 \in 1 .. N
    BY <1>0, <1>13, <1>14
  <2> QED BY <1>13, <2>1, OptionalCut DEF exp, N
<1>22. mark # dec => Past(u, exp, Digits) = end
  <2>1. mark # dec => end = Past(t, exp, Digits)
    BY DEF end
  <2>2. mark # dec => exp \in 1 .. N
    BY <1>0, <1>7, <1>9, <1>13
  <2> QED BY <1>11, <2>1, <2>2, PastCut DEF N
<1> DEFINE odec == IF Optional(u, int, {"."}) = int THEN int ELSE Past(u, int + 1, Digits)
<1>23. odec = dec
  BY Zenon, <1>17, <1>18, <1>19
<1>24. NumberEnd(u, p) = IF Optional(u, odec, {"e"}) = odec THEN odec
                         ELSE Past(u, Optional(u, odec + 1, {"+", "-"}), Digits)
  BY Zenon, <1>15, <1>16 DEF NumberEnd
<1> HIDE DEF odec
<1> QED BY Zenon, <1>1, <1>12, <1>20, <1>21, <1>22, <1>23, <1>24

\* Backslashes are counted within the beginning.
LEMMA OddCut ==
    ASSUME NEW t \in Seq(Alphabet), NEW u \in Seq(Alphabet), Cut(u, t),
           NEW p \in Nat, p >= 1, NEW q \in Nat, q <= Len(u) + 1
    PROVE  Odd(u, p, q) <=> Odd(t, p, q)
<1>0. Len(u) \in Nat /\ \A r \in p .. q - 1 : u[r] = t[r]
  BY DEF Cut
<1>1. {r \in p .. q - 1 : u[r] # Backslash} = {r \in p .. q - 1 : t[r] # Backslash}
  BY <1>0
<1>2. Before(u, p, q) = Before(t, p, q)
  BY Zenon, <1>1 DEF Before
<1> QED BY Zenon, <1>2 DEF Odd

\* A string that ends within the beginning of a text ends there for the
\* beginning too.
LEMMA StringEndCut ==
    ASSUME NEW t \in Seq(Alphabet), NEW u \in Seq(Alphabet), Cut(u, t),
           NEW p \in 1 .. Len(u) + 1, StringEnd(t, p) <= Len(u)
    PROVE  StringEnd(u, p) = StringEnd(t, p)
<1> DEFINE Q(v) == {q \in p .. Len(v) : v[q] = Quote /\ ~Odd(v, p, q)}
           x == StringEnd(t, p)
           y == StringEnd(u, p)
<1>0. Len(t) \in Nat /\ Len(u) \in Nat /\ Len(u) <= Len(t) /\ p \in Nat /\ p >= 1
  BY DEF Cut
<1>1. x = IF Q(t) = {} THEN Len(t) + 1 ELSE Min(Q(t))
  BY <1>0, StringEndIs
<1>2. y = IF Q(u) = {} THEN Len(u) + 1 ELSE Min(Q(u))
  BY <1>0, StringEndIs
<1>3. x <= Len(u)
  OBVIOUS
<1>4. Q(t) \subseteq Nat /\ Q(u) \subseteq Nat
  BY <1>0
<1>5. ASSUME NEW q \in Nat, q <= Len(u) PROVE q \in Q(u) <=> q \in Q(t)
  <2>1. q \in p .. Len(u) => u[q] = t[q]
    BY <1>0 DEF Cut
  <2>2. Odd(u, p, q) <=> Odd(t, p, q)
    BY <1>0, <1>5, OddCut
  <2>3. q \in p .. Len(u) <=> q \in p .. Len(t)
    BY <1>0, <1>5
  <2> QED BY Zenon, <2>1, <2>2, <2>3
<1>6. \A q \in Q(u) : q <= Len(u)
  BY <1>0
<1> HIDE DEF Q, x, y
<1>7. Q(t) # {}
  BY <1>0, <1>1, <1>3
<1>8. x \in Q(t) /\ \A r \in Q(t) : x <= r
  BY <1>1, <1>4, <1>7, MinIs
<1>9. x \in Q(u)
  BY <1>3, <1>4, <1>5, <1>8
<1>10. y \in Q(u) /\ \A r \in Q(u) : y <= r
  BY <1>2, <1>4, <1>9, MinIs
<1>11. y \in Q(t)
  BY <1>4, <1>5, <1>6, <1>10
<1>12. x <= y /\ y <= x /\ x \in Nat /\ y \in Nat
  BY <1>4, <1>8, <1>9, <1>10, <1>11
<1>13. x = y
  BY <1>12
<1> QED BY <1>13 DEF x, y

\* What json_parse_token makes of the symbol it finds behind white space
LEMMA TokenIs ==
    ASSUME NEW t \in Seq(Alphabet), NEW p \in 1 .. Len(t) + 1, NEW s, s = Past(t, p, Spaces)
    PROVE  TokenAt(t, p) =
             IF s > Len(t) THEN Token("EOF", <<>>, s)
             ELSE IF t[s] \in DOMAIN Punctuation THEN Token(Punctuation[t[s]], <<>>, s + 1)
             ELSE IF t[s] = Quote THEN
                 IF StringEnd(t, s + 1) > Len(t) THEN Token("NONE", <<>>, StringEnd(t, s + 1))
                 ELSE Token("STRING", SubSeq(t, s + 1, StringEnd(t, s + 1) - 1), StringEnd(t, s + 1) + 1)
             ELSE IF t[s] \in Words THEN
                 Token(IF t[s] = "null" THEN "NULL" ELSE "BOOLEAN", <<t[s]>>, s + 1)
             ELSE IF t[s] \in Digits \cup {"-"} THEN Token("NUMBER", SubSeq(t, s, NumberEnd(t, s) - 1), NumberEnd(t, s))
             ELSE Token("NONE", <<>>, s)
BY Zenon DEF TokenAt

\* A token that is read within the beginning of a text is read in the
\* beginning too.
LEMMA TokenCut ==
    ASSUME NEW t \in Seq(Alphabet), NEW u \in Seq(Alphabet), Cut(u, t),
           NEW p \in 1 .. Len(u) + 1,
           TokenAt(t, p).type \notin {"EOF", "NONE"}, TokenAt(t, p).next <= Len(u) + 1
    PROVE  TokenAt(u, p).type = TokenAt(t, p).type /\ TokenAt(u, p).next = TokenAt(t, p).next
<1> DEFINE s == Past(t, p, Spaces)
           next == TokenAt(t, p).next
           close == StringEnd(t, s + 1)
           end == NumberEnd(t, s)
<1>0. Len(t) \in Nat /\ Len(u) \in Nat /\ Len(u) <= Len(t) /\ p \in 1 .. Len(t) + 1
  BY DEF Cut
<1>1. s \in p .. Len(t) + 1
  BY <1>0, PastIs
<1>2. \A v : Token("EOF", <<>>, v).type = "EOF" /\ Token("NONE", <<>>, v).type = "NONE"
  BY DEF Token
<1>3. ~(s > Len(t))
  BY Zenon, <1>0, <1>2, TokenIs
<1>4. s \in 1 .. Len(t)
  <2> HIDE DEF s
  <2> QED BY <1>0, <1>1, <1>3
<1>5. close \in s + 1 .. Len(t) + 1
  <2> HIDE DEF s
  <2>1. s + 1 \in 1 .. Len(t) + 1
    BY <1>0, <1>4
  <2> QED BY <2>1, StringEndBounds
<1>6. end \in s .. Len(t) + 1 /\ (t[s] \in Digits \cup {"-"} => end > s)
  <2> HIDE DEF s
  <2> QED BY <1>4, NumberEndIs
<1>7. next <= Len(u) + 1
  OBVIOUS
<1>9. /\ t[s] \in DOMAIN Punctuation =>
           TokenAt(t, p).type = Punctuation[t[s]] /\ next = s + 1
      /\ t[s] \notin DOMAIN Punctuation /\ t[s] = Quote =>
           ~(close > Len(t)) /\ TokenAt(t, p).type = "STRING" /\ next = close + 1
      /\ t[s] \notin DOMAIN Punctuation /\ t[s] # Quote /\ t[s] \in Words =>
           TokenAt(t, p).type = (IF t[s] = "null" THEN "NULL" ELSE "BOOLEAN") /\ next = s + 1
      /\ t[s] \notin DOMAIN Punctuation /\ t[s] # Quote /\ t[s] \notin Words =>
           t[s] \in Digits \cup {"-"} /\ TokenAt(t, p).type = "NUMBER" /\ next = end
  <2> DEFINE k == TokenAt(t, p)
  <2>1. k = IF t[s] \in DOMAIN Punctuation THEN Token(Punctuation[t[s]], <<>>, s + 1)
            ELSE IF t[s] = Quote THEN
                IF close > Len(t) THEN Token("NONE", <<>>, close)
                ELSE Token("STRING", SubSeq(t, s + 1, close - 1), close + 1)
            ELSE IF t[s] \in Words THEN
                Token(IF t[s] = "null" THEN "NULL" ELSE "BOOLEAN", <<t[s]>>, s + 1)
            ELSE IF t[s] \in Digits \cup {"-"} THEN Token("NUMBER", SubSeq(t, s, end - 1), end)
            ELSE Token("NONE", <<>>, s)
    BY Zenon, <1>0, <1>3, TokenIs
  <2>2. k.type \notin {"EOF", "NONE"}
    OBVIOUS
  <2>3. next = k.next
    OBVIOUS
  <2> HIDE DEF k, s, close, end, next
  <2>4. CASE t[s] \in DOMAIN Punctuation
    <3>1. k = Token(Punctuation[t[s]], <<>>, s + 1)
      BY Zenon, <2>1, <2>4
    <3>2. k.type = Punctuation[t[s]] /\ k.next = s + 1
      BY <3>1 DEF Token
    <3> QED BY Zenon, <2>3, <2>4, <3>2 DEF k
  <2>5. CASE t[s] \notin DOMAIN Punctuation /\ t[s] = Quote
    <3>1. k = IF close > Len(t) THEN Token("NONE", <<>>, close)
              ELSE Token("STRING", SubSeq(t, s + 1, close - 1), close + 1)
      BY Zenon, <2>1, <2>5
    <3>2. ~(close > Len(t))
      BY Zenon, <1>2, <2>2, <3>1
    <3>3. k = Token("STRING", SubSeq(t, s + 1, close - 1), close + 1)
      BY Zenon, <3>1, <3>2
    <3>4. k.type = "STRING" /\ k.next = close + 1
      BY <3>3 DEF Token
    <3> QED BY Zenon, <2>3, <2>5, <3>2, <3>4 DEF k
  <2>6. CASE t[s] \notin DOMAIN Punctuation /\ t[s] # Quote /\ t[s] \in Words
    <3>1. k = Token(IF t[s] = "null" THEN "NULL" ELSE "BOOLEAN", <<t[s]>>, s + 1)
      BY Zenon, <2>1, <2>6
    <3>2. k.type = (IF t[s] = "null" THEN "NULL" ELSE "BOOLEAN") /\ k.next = s + 1
      BY <3>1 DEF Token
    <3> QED BY Zenon, <2>3, <2>6, <3>2 DEF k
  <2>7. CASE t[s] \notin DOMAIN Punctuation /\ t[s] # Quote /\ t[s] \notin Words
    <3>1. k = IF t[s] \in Digits \cup {"-"} THEN Token("NUMBER", SubSeq(t, s, end - 1), end)
              ELSE Token("NONE", <<>>, s)
      BY Zenon, <2>1, <2>7
    <3>2. t[s] \in Digits \cup {"-"}
      BY Zenon, <1>2, <2>2, <3>1
    <3>3. k = Token("NUMBER", SubSeq(t, s, end - 1), end)
      BY Zenon, <3>1, <3>2
    <3>4. k.type = "NUMBER" /\ k.next = end
      BY <3>3 DEF Token
    <3> QED BY Zenon, <2>3, <2>7, <3>2, <3>4 DEF k
  <2> QED BY Zenon, <2>4, <2>5, <2>6, <2>7
<1>10. s <= Len(u)
  <2> HIDE DEF s, next, close, end
  <2>1. next > s
    BY <1>0, <1>4, <1>5, <1>6, <1>9
  <2>2. next \in Nat
    BY <1>0, <1>4, <1>5, <1>6, <1>9
  <2> QED BY <1>0, <1>4, <1>7, <2>1, <2>2
<1>11. Past(u, p, Spaces) = s
  <2>1. s <= Len(u) + 1
    <3> HIDE DEF s
    <3> QED BY <1>0, <1>4, <1>10
  <2> QED BY <2>1, PastCut
<1> HIDE DEF next
<1>12. u[s] = t[s] /\ ~(s > Len(u)) /\ s \in 1 .. Len(u)
  <2> HIDE DEF s
  <2> QED BY <1>0, <1>4, <1>10 DEF Cut
<1>13. t[s] \notin DOMAIN Punctuation /\ t[s] = Quote =>
         StringEnd(u, s + 1) = close /\ ~(close > Len(u))
  <2> SUFFICES ASSUME t[s] \notin DOMAIN Punctuation /\ t[s] = Quote
               PROVE  StringEnd(u, s + 1) = close /\ ~(close > Len(u))
    OBVIOUS
  <2>1. close <= Len(u) /\ s + 1 \in 1 .. Len(u) + 1
    <3> HIDE DEF s, close
    <3> QED BY <1>0, <1>4, <1>5, <1>7, <1>9, <1>12
  <2>2. ~(close > Len(u))
    <3> HIDE DEF s, close
    <3> QED BY <1>0, <1>4, <1>5, <2>1
  <2> HIDE DEF s
  <2> QED BY <2>1, <2>2, StringEndCut
<1>14. t[s] \notin DOMAIN Punctuation /\ t[s] # Quote /\ t[s] \notin Words => NumberEnd(u, s) = end
  <2> HIDE DEF s
  <2> SUFFICES ASSUME t[s] \notin DOMAIN Punctuation /\ t[s] # Quote /\ t[s] \notin Words
               PROVE  NumberEnd(u, s) = end
    OBVIOUS
  <2>1. end <= Len(u) + 1
    BY Zenon, <1>7, <1>9
  <2> QED BY <1>12, <2>1, NumberEndCut
<1>15. TokenAt(u, p) =
             IF s > Len(u) THEN Token("EOF", <<>>, s)
             ELSE IF t[s] \in DOMAIN Punctuation THEN Token(Punctuation[t[s]], <<>>, s + 1)
             ELSE IF t[s] = Quote THEN
                 IF StringEnd(u, s + 1) > Len(u) THEN Token("NONE", <<>>, StringEnd(u, s + 1))
                 ELSE Token("STRING", SubSeq(u, s + 1, StringEnd(u, s + 1) - 1), StringEnd(u, s + 1) + 1)
             ELSE IF t[s] \in Words THEN
                 Token(IF t[s] = "null" THEN "NULL" ELSE "BOOLEAN", <<t[s]>>, s + 1)
             ELSE IF t[s] \in Digits \cup {"-"} THEN Token("NUMBER", SubSeq(u, s, NumberEnd(u, s) - 1), NumberEnd(u, s))
             ELSE Token("NONE", <<>>, s)
  <2> HIDE DEF s
  <2> QED BY ZenonT(60), <1>11, <1>12, TokenIs
<1> HIDE DEF s, close, end
<1>16. CASE t[s] \in DOMAIN Punctuation
  <2>1. TokenAt(u, p) = Token(Punctuation[t[s]], <<>>, s + 1)
    BY Zenon, <1>12, <1>15, <1>16
  <2>2. TokenAt(u, p).type = Punctuation[t[s]] /\ TokenAt(u, p).next = s + 1
    BY <2>1 DEF Token
  <2> QED BY Zenon, <1>9, <1>16, <2>2 DEF next
<1>17. CASE t[s] \notin DOMAIN Punctuation /\ t[s] = Quote
  <2>1. TokenAt(u, p) = Token("STRING", SubSeq(u, s + 1, close - 1), close + 1)
    BY Zenon, <1>12, <1>13, <1>15, <1>17
  <2>2. TokenAt(u, p).type = "STRING" /\ TokenAt(u, p).next = close + 1
    BY <2>1 DEF Token
  <2> QED BY Zenon, <1>9, <1>17, <2>2 DEF next
<1>18. CASE t[s] \notin DOMAIN Punctuation /\ t[s] # Quote /\ t[s] \in Words
  <2>1. TokenAt(u, p) = Token(IF t[s] = "null" THEN "NULL" ELSE "BOOLEAN", <<t[s]>>, s + 1)
    BY Zenon, <1>12, <1>15, <1>18
  <2>2. TokenAt(u, p).type = (IF t[s] = "null" THEN "NULL" ELSE "BOOLEAN") /\ TokenAt(u, p).next = s + 1
    BY <2>1 DEF Token
  <2> QED BY Zenon, <1>9, <1>18, <2>2 DEF next
<1>19. CASE t[s] \notin DOMAIN Punctuation /\ t[s] # Quote /\ t[s] \notin Words
  <2>1. TokenAt(u, p) = Token("NUMBER", SubSeq(u, s, end - 1), end)
    BY Zenon, <1>9, <1>12, <1>14, <1>15, <1>19
  <2>2. TokenAt(u, p).type = "NUMBER" /\ TokenAt(u, p).next = end
    BY <2>1 DEF Token
  <2> QED BY Zenon, <1>9, <1>19, <2>2 DEF next
<1> QED BY Zenon, <1>16, <1>17, <1>18, <1>19

\* Where there is no token, there is none the next time: the end of the text,
\* a string that does not end, or a character that starts no token.
Over(t, p) == TokenAt(t, p).type \in {"EOF", "NONE"}

\* Such a read ends behind the text, or at the character it stumbles over.
LEMMA OverIs ==
    ASSUME NEW t \in Seq(Alphabet), NEW p \in 1 .. Len(t) + 1, Over(t, p),
           NEW s, s = Past(t, p, Spaces), NEW next, next = TokenAt(t, p).next
    PROVE  next = Len(t) + 1 \/ (next = s /\ s <= Len(t))
<1>0. Len(t) \in Nat
  OBVIOUS
<1>1. s \in p .. Len(t) + 1
  BY PastIs
<1>2. CASE s > Len(t)
  <2>1. TokenAt(t, p) = Token("EOF", <<>>, s)
    BY Zenon, <1>2, TokenIs
  <2>2. next = s
    BY <2>1 DEF Token
  <2> QED BY <1>0, <1>1, <1>2, <2>2
<1>3. CASE ~(s > Len(t))
  <2>0. s \in 1 .. Len(t) /\ s + 1 \in 1 .. Len(t) + 1
    BY <1>0, <1>1, <1>3
  <2> DEFINE k == TokenAt(t, p)
             close == StringEnd(t, s + 1)
  <2>1. k = IF t[s] \in DOMAIN Punctuation THEN Token(Punctuation[t[s]], <<>>, s + 1)
            ELSE IF t[s] = Quote THEN
                IF close > Len(t) THEN Token("NONE", <<>>, close)
                ELSE Token("STRING", SubSeq(t, s + 1, close - 1), close + 1)
            ELSE IF t[s] \in Words THEN
                Token(IF t[s] = "null" THEN "NULL" ELSE "BOOLEAN", <<t[s]>>, s + 1)
            ELSE IF t[s] \in Digits \cup {"-"} THEN Token("NUMBER", SubSeq(t, s, NumberEnd(t, s) - 1), NumberEnd(t, s))
            ELSE Token("NONE", <<>>, s)
    BY Zenon, <1>3, TokenIs
  <2>2. close \in s + 1 .. Len(t) + 1
    BY <2>0, StringEndBounds
  <2>3. k.type \in {"EOF", "NONE"} /\ next = k.next
    BY Zenon DEF Over
  <2> HIDE DEF k, close
  <2>4. t[s] \notin DOMAIN Punctuation
    <3> SUFFICES ASSUME t[s] \in DOMAIN Punctuation PROVE FALSE
      OBVIOUS
    <3>1. k = Token(Punctuation[t[s]], <<>>, s + 1)
      BY Zenon, <2>1
    <3>2. k.type = Punctuation[t[s]]
      BY <3>1 DEF Token
    <3>3. Punctuation[t[s]] \notin {"EOF", "NONE"}
      BY DEF Punctuation
    <3> QED BY Zenon, <2>3, <3>2, <3>3
  <2>5. CASE t[s] = Quote
    <3>1. k = IF close > Len(t) THEN Token("NONE", <<>>, close)
              ELSE Token("STRING", SubSeq(t, s + 1, close - 1), close + 1)
      BY Zenon, <2>1, <2>4, <2>5
    <3>2. CASE close > Len(t)
      <4>1. k = Token("NONE", <<>>, close)
        BY Zenon, <3>1, <3>2
      <4>2. next = close
        BY <2>3, <4>1 DEF Token
      <4> QED BY <1>0, <2>0, <2>2, <3>2, <4>2
    <3>3. CASE ~(close > Len(t))
      <4>1. k = Token("STRING", SubSeq(t, s + 1, close - 1), close + 1)
        BY Zenon, <3>1, <3>3
      <4>2. k.type = "STRING"
        BY <4>1 DEF Token
      <4> QED BY <2>3, <4>2
    <3> QED BY <3>2, <3>3
  <2>6. CASE t[s] # Quote
    <3>1. t[s] \notin Words
      <4> SUFFICES ASSUME t[s] \in Words PROVE FALSE
        OBVIOUS
      <4>1. k = Token(IF t[s] = "null" THEN "NULL" ELSE "BOOLEAN", <<t[s]>>, s + 1)
        BY Zenon, <2>1, <2>4, <2>6
      <4>2. k.type = IF t[s] = "null" THEN "NULL" ELSE "BOOLEAN"
        BY <4>1 DEF Token
      <4> QED BY <2>3, <4>2
    <3>2. t[s] \notin Digits \cup {"-"}
      <4> SUFFICES ASSUME t[s] \in Digits \cup {"-"} PROVE FALSE
        OBVIOUS
      <4>1. k = Token("NUMBER", SubSeq(t, s, NumberEnd(t, s) - 1), NumberEnd(t, s))
        BY Zenon, <2>1, <2>4, <2>6, <3>1
      <4>2. k.type = "NUMBER"
        BY <4>1 DEF Token
      <4> QED BY <2>3, <4>2
    <3>3. k = Token("NONE", <<>>, s)
      BY Zenon, <2>1, <2>4, <2>6, <3>1, <3>2
    <3>4. next = s
      BY <2>3, <3>3 DEF Token
    <3> QED BY <1>0, <2>0, <3>4
  <2> QED BY <2>5, <2>6
<1> QED BY <1>2, <1>3

\* The end of a text is no token.
LEMMA EndIsOver ==
    ASSUME NEW t \in Seq(Alphabet), NEW p \in 1 .. Len(t) + 1, Past(t, p, Spaces) = Len(t) + 1
    PROVE  Over(t, p)
<1>1. Len(t) + 1 > Len(t)
  OBVIOUS
<1>2. TokenAt(t, p) = Token("EOF", <<>>, Len(t) + 1)
  BY Zenon, <1>1, TokenIs
<1> QED BY <1>2 DEF Token, Over

\* Reading again where there was no token finds none again.
LEMMA OverStays ==
    ASSUME NEW t \in Seq(Alphabet), NEW p \in 1 .. Len(t) + 1, Over(t, p)
    PROVE  Over(t, TokenAt(t, p).next)
<1> DEFINE s == Past(t, p, Spaces)
           next == TokenAt(t, p).next
<1>0. Len(t) \in Nat
  OBVIOUS
<1>1. next = Len(t) + 1 \/ (next = s /\ s <= Len(t))
  BY Zenon, OverIs
<1>2. s \in p .. Len(t) + 1 /\ (s <= Len(t) => t[s] \notin Spaces)
  BY PastIs
<1>3. CASE next = Len(t) + 1
  <2> DEFINE q == Len(t) + 1
  <2>1. q \in 1 .. Len(t) + 1
    BY <1>0
  <2>2. Past(t, q, Spaces) \in q .. Len(t) + 1
    BY <2>1, PastIs
  <2>3. Past(t, q, Spaces) = Len(t) + 1
    BY <1>0, <2>2
  <2> QED BY Zenon, <1>3, <2>1, <2>3, EndIsOver
<1>4. CASE next = s /\ s <= Len(t)
  <2> HIDE DEF s
  <2>1. s \in 1 .. Len(t) + 1 /\ s \in Nat /\ t[s] \notin Spaces
    BY <1>0, <1>2, <1>4
  <2> DEFINE r == Past(t, s, Spaces)
  <2>2. r \in s .. Len(t) + 1 /\ \A x \in s .. r - 1 : t[x] \in Spaces
    BY <2>1, PastIs
  <2> HIDE DEF r
  <2>3. r = s
    BY <1>0, <2>1, <2>2
  <2>4. Past(t, s, Spaces) = Past(t, p, Spaces)
    BY Zenon, <2>3 DEF r, s
  <2>5. TokenAt(t, s) = TokenAt(t, p)
    BY Zenon, <2>4 DEF TokenAt
  <2> QED BY Zenon, <1>4, <2>5 DEF Over
<1> QED BY <1>1, <1>3, <1>4

\* Where no token is read, none is in what was passed over.
LEMMA OverCut ==
    ASSUME NEW t \in Seq(Alphabet), NEW u \in Seq(Alphabet), Cut(u, t),
           Over(t, 1), Len(u) = TokenAt(t, 1).next - 1
    PROVE  Over(u, 1)
<1> DEFINE s == Past(t, 1, Spaces)
           next == TokenAt(t, 1).next
<1>0. Len(t) \in Nat /\ Len(u) \in Nat /\ 1 \in 1 .. Len(t) + 1 /\ 1 \in 1 .. Len(u) + 1
  OBVIOUS
<1>1. next = Len(t) + 1 \/ (next = s /\ s <= Len(t))
  <2>1. ASSUME NEW p \in 1 .. Len(t) + 1, Over(t, p)
        PROVE  \/ TokenAt(t, p).next = Len(t) + 1
               \/ TokenAt(t, p).next = Past(t, p, Spaces) /\ Past(t, p, Spaces) <= Len(t)
    BY Zenon, <2>1, OverIs
  <2> QED BY Zenon, <1>0, <2>1
<1>2. s \in 1 .. Len(t) + 1
  BY <1>0, PastIs
<1>3. Len(u) = next - 1
  OBVIOUS
<1>4. CASE next = Len(t) + 1
  <2>1. Len(u) = Len(t)
    <3> HIDE DEF next
    <3> QED BY <1>0, <1>3, <1>4
  <2>2. u = t
    BY <2>1, SeqEqual DEF Cut
  <2> QED BY Zenon, <2>2
<1>5. CASE next = s /\ s <= Len(t)
  <2>1. s = Len(u) + 1
    <3> HIDE DEF next, s
    <3> QED BY <1>0, <1>2, <1>3, <1>5
  <2>2. Past(u, 1, Spaces) = s
    <3>1. s <= Len(u) + 1
      <4> HIDE DEF s
      <4> QED BY <1>0, <2>1
    <3> QED BY <1>0, <3>1, PastCut
  <2> QED BY Zenon, <1>0, <2>1, <2>2, EndIsOver
<1> QED BY <1>1, <1>4, <1>5

-----------------------------------------------------------------------------
(****************************************************************************)
(* The tokens of a text                                                    *)
(****************************************************************************)

\* What Tokens keeps of a token
Entry(t, p) == [type |-> TokenAt(t, p).type, value |-> TokenAt(t, p).value]

Entries(t) == {Entry(t, p) : p \in 1 .. Len(t) + 1}

\* The tokens from each position on, from first on
TokensFrom(t, first, g) ==
    /\ g \in [first .. Len(t) + 1 -> Seq(Entries(t))]
    /\ \A p \in first .. Len(t) + 1 :
          g[p] = IF Over(t, p) THEN <<>> ELSE <<Entry(t, p)>> \o g[TokenAt(t, p).next]

\* One more entry in front.
LEMMA InFront ==
    ASSUME NEW S, NEW e \in S, NEW s \in Seq(S)
    PROVE  /\ <<e>> \o s \in Seq(S)
           /\ Len(<<e>> \o s) = Len(s) + 1
           /\ (<<e>> \o s)[1] = e
           /\ \A i \in 1 .. Len(s) : (<<e>> \o s)[i + 1] = s[i]
OBVIOUS

\* A text can be read from one position further to the left.
LEMMA ReadFurther ==
    ASSUME NEW t \in Seq(Alphabet), NEW m \in 1 .. Len(t) + 1, NEW g, TokensFrom(t, m + 1, g)
    PROVE  \E h : TokensFrom(t, m, h)
<1> DEFINE N == Len(t) + 1
           S == Seq(Entries(t))
           next == TokenAt(t, m).next
           first == IF Over(t, m) THEN <<>> ELSE <<Entry(t, m)>> \o g[next]
           h == [p \in m .. N |-> IF p = m THEN first ELSE g[p]]
<1>0. m \in Nat /\ N \in Nat /\ m <= N /\ N = Len(t) + 1
  OBVIOUS
<1>1. g \in [m + 1 .. N -> S]
  BY Zenon DEF TokensFrom
<1>2. \A p \in m + 1 .. N : g[p] = IF Over(t, p) THEN <<>> ELSE <<Entry(t, p)>> \o g[TokenAt(t, p).next]
  BY Zenon DEF TokensFrom
<1>3. \A p \in 1 .. N : ~Over(t, p) => TokenAt(t, p).next \in p + 1 .. N
  <2>1. ASSUME NEW p \in 1 .. N, ~Over(t, p) PROVE TokenAt(t, p).next \in p + 1 .. N
    <3> DEFINE k == TokenAt(t, p).next
    <3>1. k \in p .. Len(t) + 1
      BY TokenAtIs
    <3>2. k > p
      BY <2>1, TokenAtIs DEF Over
    <3> HIDE DEF k
    <3>3. k \in p + 1 .. N
      BY <1>0, <3>1, <3>2
    <3> QED BY Zenon, <3>3 DEF k
  <2> QED BY Zenon, <2>1
<1>4. first \in S
  <2>1. CASE Over(t, m)
    <3>1. <<>> \in S
      OBVIOUS
    <3> QED BY Zenon, <2>1, <3>1
  <2>2. CASE ~Over(t, m)
    <3>1. g[next] \in S
      BY Zenon, <1>0, <1>1, <1>3, <2>2
    <3>2. Entry(t, m) \in Entries(t)
      BY Zenon DEF Entries
    <3>3. <<Entry(t, m)>> \o g[next] \in S
      BY Zenon, <3>1, <3>2, InFront
    <3> QED BY Zenon, <2>2, <3>3
  <2> QED BY Zenon, <2>1, <2>2
<1>5. \A p \in m .. N : p # m => p \in m + 1 .. N
  BY <1>0
<1>6. h \in [m .. N -> S]
  BY Zenon, <1>1, <1>4, <1>5
<1>7. \A p \in m + 1 .. N : h[p] = g[p]
  <2>1. \A p \in m + 1 .. N : p \in m .. N /\ p # m
    BY <1>0
  <2> HIDE DEF N
  <2> QED BY Zenon, <2>1
<1>8. ASSUME NEW p \in m .. N
      PROVE  h[p] = IF Over(t, p) THEN <<>> ELSE <<Entry(t, p)>> \o h[TokenAt(t, p).next]
  <2>1. p \in 1 .. N
    BY <1>0
  <2>2. ~Over(t, p) => h[TokenAt(t, p).next] = g[TokenAt(t, p).next]
    <3>1. \A k \in p + 1 .. N : k \in m + 1 .. N
      BY <1>0
    <3> HIDE DEF h, N
    <3> QED BY Zenon, <1>3, <1>7, <2>1, <3>1
  <2>3. CASE p = m
    <3>1. h[m] = first
      <4>1. m \in m .. N
        BY <1>0
      <4> QED BY Zenon, <4>1
    <3> HIDE DEF h
    <3> QED BY Zenon, <2>2, <2>3, <3>1
  <2>4. CASE p # m
    <3>1. p \in m + 1 .. N
      BY Zenon, <1>5, <2>4
    <3>2. h[p] = g[p]
      BY Zenon, <1>7, <3>1
    <3> HIDE DEF h
    <3> QED BY Zenon, <1>2, <2>2, <3>1, <3>2
  <2> QED BY <2>3, <2>4
<1> HIDE DEF h
<1>9. TokensFrom(t, m, h)
  BY Zenon, <1>6, <1>8 DEF TokensFrom
<1> QED BY <1>9

\* The tokens of a text exist, however long it is.
LEMMA TokensExist ==
    ASSUME NEW t \in Seq(Alphabet)
    PROVE  \E g : TokensFrom(t, 1, g)
<1> DEFINE N == Len(t) + 1
           missing == {d \in 0 .. Len(t) + 1 : ~(\E g : TokensFrom(t, N + 1 - d, g))}
<1>0. Len(t) \in Nat /\ N \in Nat /\ N = Len(t) + 1
  OBVIOUS
<1>1. ASSUME missing # {} PROVE FALSE
  <2>1. \A d \in missing : d \in 0 .. N /\ ~(\E g : TokensFrom(t, N + 1 - d, g))
    BY Zenon
  <2>2. \A d \in 0 .. N : d \notin missing => \E g : TokensFrom(t, N + 1 - d, g)
    BY Zenon
  <2> HIDE DEF missing
  <2>3. missing \subseteq Nat
    BY <1>0, <2>1
  <2>4. PICK d \in missing : \A x \in missing : d <= x
    BY <1>1, <2>3, LeastNat
  <2>5. d \in 0 .. N /\ d \in Nat /\ d <= N
    BY <1>0, <2>1
  <2>6. CASE d = 0
    <3> DEFINE z == [p \in {} |-> <<>>]
    <3>1. N + 1 - d = N + 1 /\ N + 1 .. Len(t) + 1 = {}
      BY <1>0, <2>6
    <3>2. z \in [{} -> Seq(Entries(t))]
      BY Zenon
    <3> HIDE DEF z, N
    <3>3. TokensFrom(t, N + 1, z)
      BY Zenon, <3>1, <3>2 DEF TokensFrom
    <3> QED BY Zenon, <2>1, <3>1, <3>3
  <2>7. CASE d # 0
    <3> DEFINE m == N + 1 - d
    <3>1. d - 1 \in 0 .. N /\ m \in 1 .. Len(t) + 1 /\ N + 1 - (d - 1) = m + 1 /\ ~(d <= d - 1)
      BY <1>0, <2>5, <2>7
    <3> HIDE DEF N
    <3>2. d - 1 \notin missing
      BY Zenon, <2>4, <3>1
    <3>3. PICK g : TokensFrom(t, N + 1 - (d - 1), g)
      BY Zenon, <2>2, <3>1, <3>2
    <3> HIDE DEF m
    <3>4. TokensFrom(t, m + 1, g)
      BY Zenon, <3>1, <3>3
    <3>5. \E h : TokensFrom(t, m, h)
      BY Zenon, <3>1, <3>4, ReadFurther
    <3> QED BY Zenon, <2>1, <3>5 DEF m
  <2> QED BY Zenon, <2>6, <2>7
<1>2. N \in 0 .. Len(t) + 1 /\ N + 1 - N = 1
  BY <1>0
<1>3. N \notin missing
  BY Zenon, <1>1
<1>4. \E g : TokensFrom(t, N + 1 - N, g)
  BY Zenon, <1>2, <1>3
<1> HIDE DEF N
<1> QED BY Zenon, <1>2, <1>4

\* Tokens reads them from the beginning.
LEMMA TokensIs ==
    ASSUME NEW t \in Seq(Alphabet), NEW g, TokensFrom(t, 1, g)
    PROVE  Tokens(t) = g[1]
<1> DEFINE N == Len(t) + 1
           Step(f, p) == IF TokenAt(t, p).type \in {"EOF", "NONE"} THEN <<>>
                         ELSE <<[type |-> TokenAt(t, p).type, value |-> TokenAt(t, p).value]>>
                                \o f[TokenAt(t, p).next]
           F(f) == [p \in 1 .. N |-> Step(f, p)]
           From == CHOOSE f : f = F(f)
<1>0. Len(t) \in Nat /\ N \in Nat /\ 1 \in 1 .. N /\ N = Len(t) + 1
  OBVIOUS
<1>1. Tokens(t) = From[1]
  BY Zenon DEF Tokens
<1>2. \A p \in 1 .. N : g[p] = Step(g, p)
  BY Zenon DEF TokensFrom, Over, Entry
<1>3. g = [p \in 1 .. N |-> g[p]]
  BY Zenon DEF TokensFrom
<1>4. g = F(g)
  <2> HIDE DEF Step, N
  <2> QED BY <1>2, <1>3
<1>5. From = F(From)
  <2> HIDE DEF F
  <2> QED BY Zenon, <1>4
<1> HIDE DEF From
<1>6. \A p \in 1 .. N : From[p] = Step(From, p)
  <2> HIDE DEF Step, N
  <2> QED BY <1>5
<1> DEFINE wrong == {d \in 0 .. Len(t) : From[N - d] # g[N - d]}
<1>7. ASSUME wrong # {} PROVE FALSE
  <2>1. wrong \subseteq Nat
    BY <1>0
  <2>2. PICK d \in wrong : \A x \in wrong : d <= x
    BY <1>7, <2>1, LeastNat
  <2> DEFINE p == N - d
             k == TokenAt(t, p).next
  <2>3. d \in 0 .. Len(t) /\ d \in Nat /\ From[p] # g[p]
    BY <1>0
  <2>4. p \in 1 .. N
    BY <1>0, <2>3
  <2>5. ~Over(t, p) => k \in p + 1 .. N
    <3>1. k \in p .. Len(t) + 1
      BY <2>4, TokenAtIs
    <3>2. ~Over(t, p) => k > p
      BY <2>4, TokenAtIs DEF Over
    <3> HIDE DEF k, p
    <3> QED BY <1>0, <2>4, <3>1, <3>2
  <2>6. ~Over(t, p) => From[k] = g[k]
    <3> SUFFICES ASSUME ~Over(t, p) PROVE From[k] = g[k]
      OBVIOUS
    <3>1. k \in p + 1 .. N
      BY Zenon, <2>5
    <3> HIDE DEF k
    <3>2. N - k \in 0 .. Len(t) /\ ~(d <= N - k) /\ N - (N - k) = k
      BY <1>0, <2>3, <3>1
    <3>3. N - k \notin wrong
      BY Zenon, <2>2, <3>2
    <3>4. From[N - (N - k)] = g[N - (N - k)]
      BY Zenon, <3>2, <3>3
    <3> HIDE DEF N
    <3> QED BY Zenon, <3>2, <3>4
  <2> HIDE DEF p, wrong, N
  <2>7. Step(From, p) = Step(g, p)
    BY Zenon, <2>6 DEF Over
  <2> QED BY Zenon, <1>2, <1>6, <2>3, <2>4, <2>7
<1>8. Len(t) \in 0 .. Len(t) /\ N - Len(t) = 1
  BY <1>0
<1>9. Len(t) \notin wrong
  BY Zenon, <1>7
<1>10. From[N - Len(t)] = g[N - Len(t)]
  BY Zenon, <1>8, <1>9
<1> HIDE DEF N
<1> QED BY Zenon, <1>1, <1>8, <1>10

-----------------------------------------------------------------------------
(****************************************************************************)
(* Counting                                                                *)
(****************************************************************************)

\* How often x is in a sequence
Times(s, x) == Cardinality({i \in DOMAIN s : s[i] = x})

\* Nothing is in the empty one.
LEMMA TimesEmpty == \A x : Times(<<>>, x) = 0
<1>1. ASSUME NEW x PROVE {i \in DOMAIN <<>> : <<>>[i] = x} = {}
  OBVIOUS
<1> QED BY Zenon, <1>1, FS_EmptySet DEF Times

\* Counting is counting.
LEMMA TimesNat ==
    ASSUME NEW S, NEW s \in Seq(S), NEW x
    PROVE  IsFiniteSet({i \in DOMAIN s : s[i] = x}) /\ Times(s, x) \in Nat
<1> DEFINE W == {i \in DOMAIN s : s[i] = x}
<1>1. Len(s) \in Nat /\ DOMAIN s = 1 .. Len(s) /\ W \subseteq 1 .. Len(s)
  OBVIOUS
<1>2. IsFiniteSet(1 .. Len(s))
  <2>1. 1 \in Int /\ Len(s) \in Int
    BY <1>1
  <2> QED BY Zenon, <2>1, FS_Interval
<1>3. IsFiniteSet(W)
  BY Zenon, <1>1, <1>2, FS_Subset
<1>4. Cardinality(W) \in Nat
  BY Zenon, <1>3, FS_CardinalityType
<1> QED BY Zenon, <1>3, <1>4 DEF Times

\* One more at the end counts if it is one.
LEMMA TimesAppend ==
    ASSUME NEW S, NEW s \in Seq(S), NEW e \in S, NEW x
    PROVE  Times(Append(s, e), x) = Times(s, x) + (IF e = x THEN 1 ELSE 0)
<1> DEFINE a == Append(s, e)
           n == Len(s) + 1
           W == {i \in DOMAIN s : s[i] = x}
           V == {i \in DOMAIN a : a[i] = x}
<1>1. /\ Len(s) \in Nat /\ n \in Nat /\ DOMAIN s = 1 .. Len(s)
      /\ DOMAIN a = 1 .. n
      /\ \A i \in 1 .. Len(s) : a[i] = s[i]
      /\ a[n] = e
  OBVIOUS
<1>2. IsFiniteSet(W) /\ Cardinality(W) \in Nat /\ Times(s, x) = Cardinality(W)
  BY TimesNat DEF Times
<1>3. Times(a, x) = Cardinality(V)
  BY Zenon DEF Times
<1>4. n \notin W
  <2> HIDE DEF a
  <2> QED BY <1>1
<1>5. CASE e = x
  <2>1. V = W \cup {n}
    <3> HIDE DEF a
    <3> QED BY <1>1, <1>5
  <2> HIDE DEF a, V, W, n
  <2>2. Cardinality(V) = Cardinality(W) + 1
    BY <1>2, <1>4, <2>1, FS_AddElement
  <2> QED BY <1>2, <1>3, <1>5, <2>2 DEF a
<1>6. CASE e # x
  <2>1. V = W
    <3> HIDE DEF a
    <3> QED BY <1>1, <1>6
  <2> HIDE DEF V, W, n
  <2> QED BY <1>2, <1>3, <1>6, <2>1
<1> QED BY <1>5, <1>6

\* One less at the end.
LEMMA TimesFront ==
    ASSUME NEW S, NEW s \in Seq(S), s # <<>>, NEW x
    PROVE  Times(s, x) = Times(Front(s), x) + (IF Last(s) = x THEN 1 ELSE 0)
<1>1. Front(s) \in Seq(S) /\ Last(s) \in S /\ s = Append(Front(s), Last(s))
  BY DEF Front, Last
<1> DEFINE f == Front(s)
           l == Last(s)
<1>2. f \in Seq(S) /\ l \in S /\ s = Append(f, l)
  BY Zenon, <1>1
<1> HIDE DEF f, l
<1>3. Times(Append(f, l), x) = Times(f, x) + (IF l = x THEN 1 ELSE 0)
  BY <1>2, TimesAppend
<1> QED BY Zenon, <1>2, <1>3 DEF f, l

-----------------------------------------------------------------------------
(****************************************************************************)
(* What has been read, and what is open                                    *)
(****************************************************************************)

\* The types of tokens
TokenTypes == {"OBJECT_START", "OBJECT_END", "ARRAY_START", "ARRAY_END", "COLON", "COMMA",
               "STRING", "NUMBER", "BOOLEAN", "NULL", "EOF", "NONE"}

\* Every token has one of them.
LEMMA TypeIs ==
    ASSUME NEW t \in Seq(Alphabet), NEW p \in 1 .. Len(t) + 1
    PROVE  TokenAt(t, p).type \in TokenTypes
<1> DEFINE s == Past(t, p, Spaces)
           k == TokenAt(t, p)
           close == StringEnd(t, s + 1)
           end == NumberEnd(t, s)
<1>1. k = IF s > Len(t) THEN Token("EOF", <<>>, s)
          ELSE IF t[s] \in DOMAIN Punctuation THEN Token(Punctuation[t[s]], <<>>, s + 1)
          ELSE IF t[s] = Quote THEN
              IF close > Len(t) THEN Token("NONE", <<>>, close)
              ELSE Token("STRING", SubSeq(t, s + 1, close - 1), close + 1)
          ELSE IF t[s] \in Words THEN
              Token(IF t[s] = "null" THEN "NULL" ELSE "BOOLEAN", <<t[s]>>, s + 1)
          ELSE IF t[s] \in Digits \cup {"-"} THEN Token("NUMBER", SubSeq(t, s, end - 1), end)
          ELSE Token("NONE", <<>>, s)
  BY Zenon DEF TokenAt
<1>2. \A c \in DOMAIN Punctuation : Punctuation[c] \in TokenTypes
  BY DEF Punctuation, TokenTypes
<1> DEFINE type == IF s > Len(t) THEN "EOF"
                   ELSE IF t[s] \in DOMAIN Punctuation THEN Punctuation[t[s]]
                   ELSE IF t[s] = Quote THEN IF close > Len(t) THEN "NONE" ELSE "STRING"
                   ELSE IF t[s] \in Words THEN IF t[s] = "null" THEN "NULL" ELSE "BOOLEAN"
                   ELSE IF t[s] \in Digits \cup {"-"} THEN "NUMBER" ELSE "NONE"
<1>3. \A a, b, n : Token(a, b, n).type = a
  BY DEF Token
<1> HIDE DEF k, s, close, end
<1>4. k.type = type
  BY <1>1, <1>3
<1>5. type \in TokenTypes
  BY <1>2 DEF TokenTypes
<1> QED BY Zenon, <1>4, <1>5 DEF k

\* The positions at which json_parse_token was called, and the types it gave
ReadUpTo(t, c, types) ==
    /\ c \in Seq(1 .. Len(t) + 1)
    /\ Len(c) = Len(types) + 1
    /\ c[1] = 1
    /\ \A i \in 1 .. Len(types) :
          /\ ~Over(t, c[i])
          /\ types[i] = TokenAt(t, c[i]).type
          /\ c[i + 1] = TokenAt(t, c[i]).next
    /\ \A i \in 1 .. Len(c) : c[i] <= c[Len(c)]

\* One more token is read.
LEMMA ReadOneMore ==
    ASSUME NEW t \in Seq(Alphabet), NEW c, NEW types \in Seq(TokenTypes), ReadUpTo(t, c, types),
           NEW p, p = c[Len(c)], ~Over(t, p)
    PROVE  \E d : ReadUpTo(t, d, Append(types, TokenAt(t, p).type)) /\ d[Len(d)] = TokenAt(t, p).next
<1> DEFINE P == 1 .. Len(t) + 1
           n == Len(types)
           next == TokenAt(t, p).next
           type == TokenAt(t, p).type
           d == Append(c, next)
           y == Append(types, type)
<1>0. Len(t) \in Nat /\ n \in Nat /\ c \in Seq(P) /\ Len(c) = n + 1 /\ c[1] = 1
  BY DEF ReadUpTo
<1>1. c[n + 1] \in P
  <2> HIDE DEF P, n
  <2> QED BY <1>0
<1>2. next \in c[n + 1] .. Len(t) + 1
  <2>1. TokenAt(t, c[n + 1]).next \in c[n + 1] .. Len(t) + 1
    BY Zenon, <1>1, TokenAtIs
  <2> QED BY Zenon, <1>0, <2>1
<1>3. /\ ~Over(t, c[n + 1])
      /\ type \in TokenTypes
      /\ type = TokenAt(t, c[n + 1]).type
      /\ next = TokenAt(t, c[n + 1]).next
  <2>1. p = c[n + 1]
    BY Zenon, <1>0
  <2>2. type \in TokenTypes
    BY Zenon, <1>1, <2>1, TypeIs
  <2> QED BY Zenon, <2>1, <2>2
<1>4. \A i \in 1 .. n : ~Over(t, c[i]) /\ types[i] = TokenAt(t, c[i]).type /\ c[i + 1] = TokenAt(t, c[i]).next
  BY Zenon DEF ReadUpTo
<1>5. \A i \in 1 .. n + 1 : c[i] <= c[n + 1]
  BY Zenon, <1>0 DEF ReadUpTo
<1> HIDE DEF next, type
<1>6. next \in P /\ c[n + 1] <= next /\ next \in Nat
  <2> DEFINE last == c[n + 1]
  <2>1. last \in P /\ next \in last .. Len(t) + 1
    BY Zenon, <1>1, <1>2
  <2> HIDE DEF last
  <2>2. next \in P /\ last <= next /\ next \in Nat
    BY <1>0, <2>1
  <2> QED BY Zenon, <2>2 DEF last
<1> HIDE DEF P
<1>7. /\ d \in Seq(P) /\ Len(d) = n + 2 /\ d[n + 2] = next /\ \A i \in 1 .. n + 1 : d[i] = c[i]
  BY <1>0, <1>6
<1>8. /\ y \in Seq(TokenTypes) /\ Len(y) = n + 1 /\ y[n + 1] = type /\ \A i \in 1 .. n : y[i] = types[i]
  BY <1>0, <1>3
<1> HIDE DEF d, y
<1>9. d[1] = 1
  BY <1>0, <1>7
<1>10. ASSUME NEW i \in 1 .. n + 1
       PROVE  ~Over(t, d[i]) /\ y[i] = TokenAt(t, d[i]).type /\ d[i + 1] = TokenAt(t, d[i]).next
  <2>1. d[i] = c[i]
    BY <1>7
  <2>2. CASE i = n + 1
    <3>1. d[i + 1] = next
      <4>1. i + 1 = n + 2
        BY <1>0, <2>2
      <4> QED BY Zenon, <1>7, <4>1
    <3> QED BY Zenon, <1>3, <1>8, <2>1, <2>2, <3>1
  <2>3. CASE i # n + 1
    <3>1. i \in 1 .. n /\ i + 1 \in 1 .. n + 1
      BY <1>0, <2>3
    <3> QED BY Zenon, <1>4, <1>7, <1>8, <2>1, <3>1
  <2> QED BY <2>2, <2>3
<1>11. ASSUME NEW i \in 1 .. n + 2 PROVE d[i] <= next
  <2>1. CASE i = n + 2
    BY <1>6, <1>7, <2>1
  <2>2. CASE i # n + 2
    <3>1. i \in 1 .. n + 1 /\ n + 1 \in 1 .. n + 1
      BY <1>0, <2>2
    <3> DEFINE a == c[i]
               b == c[n + 1]
    <3>2. a <= b /\ b <= next /\ a \in P /\ b \in P /\ d[i] = a
      BY <1>0, <1>1, <1>5, <1>6, <1>7, <3>1
    <3> HIDE DEF a, b
    <3>3. a \in Nat /\ b \in Nat
      BY <1>0, <3>2 DEF P
    <3> QED BY <1>6, <3>2, <3>3
  <2> QED BY <2>1, <2>2
<1>12. Len(d) = Len(y) + 1 /\ Len(y) = n + 1
  BY <1>0, <1>7, <1>8
<1>13. d[Len(d)] = next
  BY Zenon, <1>7
<1>14. ReadUpTo(t, d, y)
  BY Zenon, <1>7, <1>9, <1>10, <1>11, <1>12, <1>13 DEF ReadUpTo, P
<1> QED BY Zenon, <1>13, <1>14 DEF d, y, next, type

\* s has the types from position k on
TypesFrom(S, s, types, k) ==
    /\ s \in Seq(S)
    /\ Len(s) = Len(types) + 1 - k
    /\ \A j \in 1 .. Len(types) + 1 - k : s[j].type = types[k - 1 + j]

\* A token in front of those that follow it.
LEMMA TypesInFront ==
    ASSUME NEW T, NEW types \in Seq(T), NEW k \in 1 .. Len(types), NEW S,
           NEW rest, TypesFrom(S, rest, types, k + 1), NEW e \in S, e.type = types[k]
    PROVE  TypesFrom(S, <<e>> \o rest, types, k)
<1> DEFINE n == Len(types)
           whole == <<e>> \o rest
<1>0. n \in Nat /\ k \in Nat /\ k >= 1 /\ k <= n
  OBVIOUS
<1>1. rest \in Seq(S) /\ Len(rest) = n + 1 - (k + 1) /\ \A j \in 1 .. n + 1 - (k + 1) : rest[j].type = types[k + 1 - 1 + j]
  BY DEF TypesFrom
<1>2. /\ whole \in Seq(S)
      /\ Len(whole) = Len(rest) + 1
      /\ whole[1] = e
      /\ \A i \in 1 .. Len(rest) : whole[i + 1] = rest[i]
  BY <1>1, InFront
<1> HIDE DEF whole
<1>3. Len(whole) = n + 1 - k
  BY <1>0, <1>1, <1>2
<1>4. ASSUME NEW j \in 1 .. n + 1 - k PROVE whole[j].type = types[k - 1 + j]
  <2>1. CASE j = 1
    <3>1. k - 1 + j = k
      BY <1>0, <2>1
    <3> QED BY Zenon, <1>2, <2>1, <3>1
  <2>2. CASE j # 1
    <3> DEFINE i == j - 1
    <3>1. /\ i \in 1 .. n + 1 - (k + 1)
          /\ i \in 1 .. Len(rest)
          /\ i + 1 = j
          /\ k + 1 - 1 + i = k - 1 + j
      BY <1>0, <1>1, <2>2
    <3> HIDE DEF i
    <3>2. whole[i + 1] = rest[i]
      BY Zenon, <1>2, <3>1
    <3>3. rest[i].type = types[k + 1 - 1 + i]
      BY Zenon, <1>1, <3>1
    <3> QED BY Zenon, <3>1, <3>2, <3>3
  <2> QED BY <2>1, <2>2
<1> QED BY Zenon, <1>2, <1>3, <1>4 DEF TypesFrom, whole

\* The tokens of u have these types.
ReadAs(u, types) ==
    /\ DOMAIN Tokens(u) = DOMAIN types
    /\ \A i \in DOMAIN types : Tokens(u)[i].type = types[i]

\* The tokens of what was read are the ones that were read.
LEMMA TokensRead ==
    ASSUME NEW T, NEW t \in Seq(Alphabet), NEW c, NEW types \in Seq(T), ReadUpTo(t, c, types),
           NEW u, u = SubSeq(t, 1, c[Len(c)] - 1)
    PROVE  ReadAs(u, types)
<1> DEFINE n == Len(types)
           last == c[Len(c)]
<1>0. Len(t) \in Nat /\ n \in Nat /\ c \in Seq(1 .. Len(t) + 1) /\ Len(c) = n + 1 /\ DOMAIN types = 1 .. n /\ c[1] = 1
  BY DEF ReadUpTo
<1>1. /\ \A i \in 1 .. n : ~Over(t, c[i]) /\ types[i] = TokenAt(t, c[i]).type /\ c[i + 1] = TokenAt(t, c[i]).next
      /\ \A i \in 1 .. n + 1 : c[i] <= last
  BY Zenon, <1>0 DEF ReadUpTo
<1>2. \A i \in 1 .. n + 1 : c[i] \in 1 .. Len(t) + 1
  <2> HIDE DEF n
  <2> QED BY <1>0
<1>3. last \in 1 .. Len(t) + 1 /\ c[n + 1] = last
  <2>1. n + 1 \in 1 .. n + 1
    BY <1>0
  <2> QED BY Zenon, <1>0, <1>2, <2>1
<1> HIDE DEF last
<1>4. u \in Seq(Alphabet) /\ Len(u) = last - 1 /\ Cut(u, t)
  <2> DEFINE b == last - 1
  <2>1. b \in 0 .. Len(t)
    BY <1>0, <1>3
  <2> HIDE DEF b
  <2>2. ASSUME NEW v, v = SubSeq(t, 1, b)
        PROVE  v \in Seq(Alphabet) /\ Len(v) = b /\ \A i \in 1 .. b : v[i] = t[i]
    BY <1>0, <2>1, <2>2
  <2>3. u \in Seq(Alphabet) /\ Len(u) = b /\ \A i \in 1 .. b : u[i] = t[i]
    BY Zenon, <2>2 DEF b, last
  <2>4. b <= Len(t)
    BY <1>0, <2>1
  <2> QED BY Zenon, <2>3, <2>4 DEF Cut, b
<1>5. Len(u) + 1 = last
  BY <1>0, <1>3, <1>4
<1>6. ASSUME NEW i \in 1 .. n
      PROVE  /\ c[i] \in 1 .. Len(u) + 1
             /\ ~Over(u, c[i])
             /\ TokenAt(u, c[i]).type = types[i]
             /\ TokenAt(u, c[i]).next = c[i + 1]
  <2> DEFINE a == c[i]
             b == c[i + 1]
  <2>1. i + 1 \in 1 .. n + 1 /\ i \in 1 .. n + 1
    BY <1>0
  <2>2. a \in 1 .. Len(t) + 1 /\ a <= last /\ b \in 1 .. Len(t) + 1 /\ b <= last
    BY Zenon, <1>1, <1>2, <2>1
  <2>3. ~Over(t, a) /\ types[i] = TokenAt(t, a).type /\ b = TokenAt(t, a).next
    BY Zenon, <1>1
  <2> HIDE DEF a, b
  <2>4. a \in 1 .. Len(u) + 1
    BY <1>0, <1>3, <1>5, <2>2
  <2>5. TokenAt(t, a).next <= Len(u) + 1
    BY Zenon, <1>5, <2>2, <2>3
  <2>6. TokenAt(t, a).type \notin {"EOF", "NONE"}
    BY Zenon, <2>3 DEF Over
  <2>7. TokenAt(u, a).type = TokenAt(t, a).type /\ TokenAt(u, a).next = TokenAt(t, a).next
    BY Zenon, <1>4, <2>4, <2>5, <2>6, TokenCut
  <2> QED BY Zenon, <2>3, <2>4, <2>6, <2>7 DEF a, b, Over
<1>7. Over(u, last)
  <2>1. last \in 1 .. Len(u) + 1
    BY <1>3, <1>5, <1>4
  <2>2. Past(u, last, Spaces) \in last .. Len(u) + 1
    BY Zenon, <1>4, <2>1, PastIs
  <2>3. Past(u, last, Spaces) = Len(u) + 1
    BY <1>4, <1>5, <2>1, <2>2
  <2> QED BY Zenon, <1>4, <2>1, <2>3, EndIsOver
<1>8. PICK g : TokensFrom(u, 1, g)
  BY Zenon, <1>4, TokensExist
<1>9. Tokens(u) = g[1]
  BY Zenon, <1>4, <1>8, TokensIs
<1> DEFINE S == Entries(u)
           Right(k) == TypesFrom(S, g[c[k]], types, k)
           wrong == {d \in 0 .. n : ~Right(n + 1 - d)}
<1>10. /\ \A p \in 1 .. Len(u) + 1 : g[p] \in Seq(S)
       /\ \A p \in 1 .. Len(u) + 1 :
            g[p] = IF Over(u, p) THEN <<>> ELSE <<Entry(u, p)>> \o g[TokenAt(u, p).next]
  BY Zenon, <1>8 DEF TokensFrom
<1>11. ASSUME wrong # {} PROVE FALSE
  <2>1. wrong \subseteq Nat
    BY <1>0
  <2>2. PICK d \in wrong : \A x \in wrong : d <= x
    BY <1>11, <2>1, LeastNat
  <2> DEFINE k == n + 1 - d
  <2>3. d \in 0 .. n /\ d \in Nat /\ ~Right(k)
    BY <1>0
  <2>4. CASE d = 0
    <3>1. k = n + 1 /\ n + 1 - k = 0
      BY <1>0, <2>4
    <3>2. last \in 1 .. Len(u) + 1
      BY <1>3, <1>4, <1>5
    <3>3. g[c[k]] = <<>>
      BY Zenon, <1>3, <1>7, <1>10, <3>1, <3>2
    <3>4. <<>> \in Seq(S) /\ Len(<<>>) = 0 /\ 1 .. 0 = {}
      OBVIOUS
    <3> HIDE DEF k, S
    <3>5. Right(k)
      BY Zenon, <3>1, <3>3, <3>4 DEF TypesFrom
    <3> QED BY Zenon, <2>3, <3>5
  <2>5. CASE d # 0
    <3>1. k \in 1 .. n /\ d - 1 \in 0 .. n /\ n + 1 - (d - 1) = k + 1 /\ ~(d <= d - 1)
      BY <1>0, <2>3, <2>5
    <3>2. Right(k + 1)
      <4>1. d - 1 \notin wrong
        BY Zenon, <2>2, <3>1
      <4>2. Right(n + 1 - (d - 1))
        <5> HIDE DEF Right, k
        <5> QED BY Zenon, <3>1, <4>1
      <4> HIDE DEF Right, k
      <4> QED BY Zenon, <3>1, <4>2
    <3> HIDE DEF k, wrong
    <3> DEFINE p == c[k]
               e == Entry(u, p)
    <3>3. p \in 1 .. Len(u) + 1 /\ ~Over(u, p) /\ TokenAt(u, p).type = types[k] /\ TokenAt(u, p).next = c[k + 1]
      BY Zenon, <1>6, <3>1
    <3>4. g[p] = <<e>> \o g[c[k + 1]]
      BY Zenon, <1>10, <3>3
    <3>5. e \in S /\ e.type = types[k]
      <4>1. e \in S
        BY Zenon, <3>3 DEF Entries
      <4>2. e.type = TokenAt(u, p).type
        BY DEF Entry
      <4> QED BY Zenon, <3>3, <4>1, <4>2
    <3> HIDE DEF e, S
    <3>6. TypesFrom(S, <<e>> \o g[c[k + 1]], types, k)
      BY Zenon, <3>1, <3>2, <3>5, TypesInFront
    <3>7. Right(k)
      BY Zenon, <3>4, <3>6
    <3> QED BY Zenon, <2>3, <3>7 DEF k
  <2> QED BY <2>4, <2>5
<1>12. Right(1)
  <2>1. n \in 0 .. n /\ n + 1 - n = 1
    BY <1>0
  <2>2. n \notin wrong
    BY Zenon, <1>11
  <2>3. Right(n + 1 - n)
    <3> HIDE DEF Right
    <3> QED BY Zenon, <2>1, <2>2
  <2> HIDE DEF Right, n
  <2> QED BY Zenon, <2>1, <2>3
<1> DEFINE w == Tokens(u)
<1>13. w \in Seq(S) /\ Len(w) = n + 1 - 1 /\ \A j \in 1 .. n + 1 - 1 : w[j].type = types[1 - 1 + j]
  BY Zenon, <1>0, <1>9, <1>12 DEF TypesFrom
<1> HIDE DEF w, S
<1>14. n + 1 - 1 = n /\ (\A j \in 1 .. n : 1 - 1 + j = j) /\ DOMAIN w = 1 .. Len(w)
  BY <1>0, <1>13
<1>15. DOMAIN w = 1 .. n
  BY Zenon, <1>13, <1>14
<1>16. \A j \in 1 .. n : w[j].type = types[j]
  <2> HIDE DEF n
  <2> QED BY Zenon, <1>13, <1>14
<1> QED BY Zenon, <1>0, <1>15, <1>16 DEF w, ReadAs

\* So Count counts the types that were read.
LEMMA CountRead ==
    ASSUME NEW T, NEW t \in Seq(Alphabet), NEW c, NEW types \in Seq(T), ReadUpTo(t, c, types), NEW x
    PROVE  Count(x, SubSeq(t, 1, c[Len(c)] - 1)) = Times(types, x)
<1> DEFINE u == SubSeq(t, 1, c[Len(c)] - 1)
           w == Tokens(u)
<1>0. u = SubSeq(t, 1, c[Len(c)] - 1)
  OBVIOUS
<1> HIDE DEF u
<1>1. ReadAs(u, types)
  BY Zenon, <1>0, TokensRead
<1>2. Count(x, u) = Cardinality({i \in DOMAIN w : w[i].type = x})
  BY Zenon DEF Count
<1> HIDE DEF w
<1>3. {i \in DOMAIN w : w[i].type = x} = {i \in DOMAIN types : types[i] = x}
  <2>1. DOMAIN w = DOMAIN types /\ \A i \in DOMAIN types : w[i].type = types[i]
    BY Zenon, <1>1 DEF ReadAs, w
  <2> QED BY <2>1
<1> QED BY Zenon, <1>2, <1>3 DEF Times, u

\* The calls under way make up for what has been opened and not closed.
BalancedWith(types, calls) ==
    /\ Times(types, "OBJECT_START") <= Times(types, "OBJECT_END") + Times(calls, "object")
    /\ Times(types, "ARRAY_START") <= Times(types, "ARRAY_END") + Times(calls, "array")

\* Counts before and after one more, as numbers.
LEMMA TimesMore ==
    ASSUME NEW S, NEW s \in Seq(S), NEW e \in S, NEW x
    PROVE  /\ Times(s, x) \in Nat
           /\ e = x => Times(Append(s, e), x) = Times(s, x) + 1
           /\ e # x => Times(Append(s, e), x) = Times(s, x)
<1>1. Times(s, x) \in Nat
  BY Zenon, TimesNat
<1>2. Times(Append(s, e), x) = Times(s, x) + (IF e = x THEN 1 ELSE 0)
  BY TimesAppend
<1> DEFINE n == Times(s, x)
           m == Times(Append(s, e), x)
<1>3. n \in Nat /\ m = n + (IF e = x THEN 1 ELSE 0)
  BY <1>1, <1>2
<1> HIDE DEF n, m
<1>4. (e = x => m = n + 1) /\ (e # x => m = n)
  BY <1>3
<1> QED BY Zenon, <1>3, <1>4 DEF n, m

\* An opening bracket and its call ...
LEMMA BalanceOpen ==
    ASSUME NEW types \in Seq(TokenTypes), NEW calls \in Seq(Kinds), BalancedWith(types, calls),
           NEW type, NEW kind,
           \/ type = "OBJECT_START" /\ kind = "object"
           \/ type = "ARRAY_START" /\ kind = "array"
    PROVE  BalancedWith(Append(types, type), Append(calls, kind))
<1>0. \/ type = "OBJECT_START" /\ kind = "object"
      \/ type = "ARRAY_START" /\ kind = "array"
  OBVIOUS
<1>1. type \in TokenTypes /\ kind \in Kinds
  BY DEF TokenTypes, Kinds
<1> DEFINE more == Append(types, type)
           deeper == Append(calls, kind)
<1>2. \A x : /\ Times(types, x) \in Nat
             /\ type = x => Times(more, x) = Times(types, x) + 1
             /\ type # x => Times(more, x) = Times(types, x)
  BY Zenon, <1>1, TimesMore
<1>3. \A x : /\ Times(calls, x) \in Nat
             /\ kind = x => Times(deeper, x) = Times(calls, x) + 1
             /\ kind # x => Times(deeper, x) = Times(calls, x)
  BY Zenon, <1>1, TimesMore
<1> HIDE DEF more, deeper
<1>4. /\ Times(types, "OBJECT_START") <= Times(types, "OBJECT_END") + Times(calls, "object")
      /\ Times(types, "ARRAY_START") <= Times(types, "ARRAY_END") + Times(calls, "array")
  BY Zenon DEF BalancedWith
<1>5. Times(more, "OBJECT_START") <= Times(more, "OBJECT_END") + Times(deeper, "object")
  <2>1. /\ Times(types, "OBJECT_START") \in Nat /\ Times(types, "OBJECT_END") \in Nat
        /\ Times(calls, "object") \in Nat
    BY Zenon, <1>2, <1>3
  <2>2. CASE type = "OBJECT_START" /\ kind = "object"
    <3>1. /\ Times(more, "OBJECT_START") = Times(types, "OBJECT_START") + 1
          /\ Times(more, "OBJECT_END") = Times(types, "OBJECT_END")
          /\ Times(deeper, "object") = Times(calls, "object") + 1
      BY <1>2, <1>3, <2>2
    <3> QED BY <1>4, <2>1, <3>1
  <2>3. CASE type = "ARRAY_START" /\ kind = "array"
    <3>1. /\ Times(more, "OBJECT_START") = Times(types, "OBJECT_START")
          /\ Times(more, "OBJECT_END") = Times(types, "OBJECT_END")
          /\ Times(deeper, "object") = Times(calls, "object")
      BY <1>2, <1>3, <2>3
    <3> QED BY <1>4, <2>1, <3>1
  <2> QED BY Zenon, <1>0, <2>2, <2>3
<1>6. Times(more, "ARRAY_START") <= Times(more, "ARRAY_END") + Times(deeper, "array")
  <2>1. /\ Times(types, "ARRAY_START") \in Nat /\ Times(types, "ARRAY_END") \in Nat
        /\ Times(calls, "array") \in Nat
    BY Zenon, <1>2, <1>3
  <2>2. CASE type = "OBJECT_START" /\ kind = "object"
    <3>1. /\ Times(more, "ARRAY_START") = Times(types, "ARRAY_START")
          /\ Times(more, "ARRAY_END") = Times(types, "ARRAY_END")
          /\ Times(deeper, "array") = Times(calls, "array")
      BY <1>2, <1>3, <2>2
    <3> QED BY <1>4, <2>1, <3>1
  <2>3. CASE type = "ARRAY_START" /\ kind = "array"
    <3>1. /\ Times(more, "ARRAY_START") = Times(types, "ARRAY_START") + 1
          /\ Times(more, "ARRAY_END") = Times(types, "ARRAY_END")
          /\ Times(deeper, "array") = Times(calls, "array") + 1
      BY <1>2, <1>3, <2>3
    <3> QED BY <1>4, <2>1, <3>1
  <2> QED BY Zenon, <1>0, <2>2, <2>3
<1> QED BY Zenon, <1>5, <1>6 DEF BalancedWith, more, deeper

\* ... a token that is no opening bracket ...
LEMMA BalanceKeep ==
    ASSUME NEW types \in Seq(TokenTypes), NEW calls \in Seq(Kinds), BalancedWith(types, calls),
           NEW type, type \in TokenTypes, type \notin {"OBJECT_START", "ARRAY_START"}
    PROVE  BalancedWith(Append(types, type), calls)
<1> DEFINE more == Append(types, type)
<1>1. \A x : /\ Times(types, x) \in Nat
             /\ type = x => Times(more, x) = Times(types, x) + 1
             /\ type # x => Times(more, x) = Times(types, x)
  BY Zenon, TimesMore
<1>2. \A x : Times(calls, x) \in Nat
  BY Zenon, TimesNat
<1> HIDE DEF more
<1>3. /\ Times(types, "OBJECT_START") <= Times(types, "OBJECT_END") + Times(calls, "object")
      /\ Times(types, "ARRAY_START") <= Times(types, "ARRAY_END") + Times(calls, "array")
  BY Zenon DEF BalancedWith
<1>4. /\ Times(more, "OBJECT_START") = Times(types, "OBJECT_START")
      /\ Times(more, "ARRAY_START") = Times(types, "ARRAY_START")
  BY Zenon, <1>1
<1>5. /\ Times(more, "OBJECT_END") >= Times(types, "OBJECT_END")
      /\ Times(more, "ARRAY_END") >= Times(types, "ARRAY_END")
      /\ Times(more, "OBJECT_END") \in Nat /\ Times(more, "ARRAY_END") \in Nat
  <2>1. ASSUME NEW x PROVE Times(more, x) >= Times(types, x) /\ Times(more, x) \in Nat
    BY <1>1
  <2> QED BY Zenon, <2>1
<1>6. /\ Times(types, "OBJECT_START") \in Nat /\ Times(types, "OBJECT_END") \in Nat
      /\ Times(types, "ARRAY_START") \in Nat /\ Times(types, "ARRAY_END") \in Nat
  BY Zenon, <1>1
<1>7. Times(calls, "object") \in Nat /\ Times(calls, "array") \in Nat
  BY Zenon, <1>2
<1>8. /\ Times(more, "OBJECT_START") <= Times(more, "OBJECT_END") + Times(calls, "object")
      /\ Times(more, "ARRAY_START") <= Times(more, "ARRAY_END") + Times(calls, "array")
  BY <1>3, <1>4, <1>5, <1>6, <1>7
<1> QED BY Zenon, <1>8 DEF BalancedWith, more

\* ... and the closing bracket of the innermost call keep the balance.
LEMMA BalanceClose ==
    ASSUME NEW types \in Seq(TokenTypes), NEW calls \in Seq(Kinds), BalancedWith(types, calls),
           calls # <<>>,
           NEW type, type = IF Last(calls) = "object" THEN "OBJECT_END" ELSE "ARRAY_END"
    PROVE  BalancedWith(Append(types, type), Front(calls))
<1> DEFINE kind == Last(calls)
           less == Front(calls)
           more == Append(types, type)
<1>1. less \in Seq(Kinds) /\ kind \in Kinds /\ calls = Append(less, kind)
  BY DEF Front, Last
<1>2. type = IF kind = "object" THEN "OBJECT_END" ELSE "ARRAY_END"
  OBVIOUS
<1> HIDE DEF kind, less
<1>3. \/ type = "OBJECT_END" /\ kind = "object"
      \/ type = "ARRAY_END" /\ kind = "array"
  BY <1>1, <1>2 DEF Kinds
<1>4. type \in TokenTypes
  BY <1>3 DEF TokenTypes
<1>5. \A x : /\ Times(types, x) \in Nat
             /\ type = x => Times(more, x) = Times(types, x) + 1
             /\ type # x => Times(more, x) = Times(types, x)
  <2>1. ASSUME NEW e \in TokenTypes
        PROVE  \A x : /\ Times(types, x) \in Nat
                      /\ e = x => Times(Append(types, e), x) = Times(types, x) + 1
                      /\ e # x => Times(Append(types, e), x) = Times(types, x)
    BY Zenon, <2>1, TimesMore
  <2> QED BY Zenon, <1>4, <2>1
<1>6. \A x : /\ Times(less, x) \in Nat
             /\ kind = x => Times(calls, x) = Times(less, x) + 1
             /\ kind # x => Times(calls, x) = Times(less, x)
  <2>1. \A x : /\ Times(less, x) \in Nat
               /\ kind = x => Times(Append(less, kind), x) = Times(less, x) + 1
               /\ kind # x => Times(Append(less, kind), x) = Times(less, x)
    BY Zenon, <1>1, TimesMore
  <2> QED BY Zenon, <1>1, <2>1
<1> HIDE DEF more
<1>7. /\ Times(types, "OBJECT_START") <= Times(types, "OBJECT_END") + Times(calls, "object")
      /\ Times(types, "ARRAY_START") <= Times(types, "ARRAY_END") + Times(calls, "array")
  BY Zenon DEF BalancedWith
<1>8. Times(more, "OBJECT_START") <= Times(more, "OBJECT_END") + Times(less, "object")
  <2>1. /\ Times(types, "OBJECT_START") \in Nat /\ Times(types, "OBJECT_END") \in Nat
        /\ Times(less, "object") \in Nat
    BY Zenon, <1>5, <1>6
  <2>2. CASE type = "OBJECT_END" /\ kind = "object"
    <3>1. /\ Times(more, "OBJECT_START") = Times(types, "OBJECT_START")
          /\ Times(more, "OBJECT_END") = Times(types, "OBJECT_END") + 1
          /\ Times(calls, "object") = Times(less, "object") + 1
      BY <1>5, <1>6, <2>2
    <3> QED BY <1>7, <2>1, <3>1
  <2>3. CASE type = "ARRAY_END" /\ kind = "array"
    <3>1. /\ Times(more, "OBJECT_START") = Times(types, "OBJECT_START")
          /\ Times(more, "OBJECT_END") = Times(types, "OBJECT_END")
          /\ Times(calls, "object") = Times(less, "object")
      BY <1>5, <1>6, <2>3
    <3> QED BY <1>7, <2>1, <3>1
  <2> QED BY Zenon, <1>3, <2>2, <2>3
<1>9. Times(more, "ARRAY_START") <= Times(more, "ARRAY_END") + Times(less, "array")
  <2>1. /\ Times(types, "ARRAY_START") \in Nat /\ Times(types, "ARRAY_END") \in Nat
        /\ Times(less, "array") \in Nat
    BY Zenon, <1>5, <1>6
  <2>2. CASE type = "OBJECT_END" /\ kind = "object"
    <3>1. /\ Times(more, "ARRAY_START") = Times(types, "ARRAY_START")
          /\ Times(more, "ARRAY_END") = Times(types, "ARRAY_END")
          /\ Times(calls, "array") = Times(less, "array")
      BY <1>5, <1>6, <2>2
    <3> QED BY <1>7, <2>1, <3>1
  <2>3. CASE type = "ARRAY_END" /\ kind = "array"
    <3>1. /\ Times(more, "ARRAY_START") = Times(types, "ARRAY_START")
          /\ Times(more, "ARRAY_END") = Times(types, "ARRAY_END") + 1
          /\ Times(calls, "array") = Times(less, "array") + 1
      BY <1>5, <1>6, <2>3
    <3> QED BY <1>7, <2>1, <3>1
  <2> QED BY Zenon, <1>3, <2>2, <2>3
<1>10. BalancedWith(more, less)
  BY Zenon, <1>8, <1>9 DEF BalancedWith
<1> QED BY Zenon, <1>10 DEF more, less

\* The tokens up to p have been read, and calls makes up for them.
Balanced(t, p, calls) ==
    \E c, types :
        /\ types \in Seq(TokenTypes)
        /\ ReadUpTo(t, c, types)
        /\ c[Len(c)] = p
        /\ BalancedWith(types, calls)

\* Nothing has been read at first.
LEMMA BalancedFirst == ASSUME NEW t \in Seq(Alphabet) PROVE Balanced(t, 1, <<>>)
<1> DEFINE c == <<1>>
<1>1. <<>> \in Seq(TokenTypes)
  OBVIOUS
<1>2. ReadUpTo(t, c, <<>>) /\ c[Len(c)] = 1
  BY DEF ReadUpTo
<1>3. BalancedWith(<<>>, <<>>)
  BY TimesEmpty DEF BalancedWith
<1> QED BY Zenon, <1>1, <1>2, <1>3 DEF Balanced

\* A token that is read keeps the balance if the calls change with it.
LEMMA BalancedNext ==
    ASSUME NEW t \in Seq(Alphabet), NEW p \in 1 .. Len(t) + 1, NEW calls \in Seq(Kinds),
           Balanced(t, p, calls), ~Over(t, p), NEW after,
           NEW type, type = TokenAt(t, p).type,
           \/ type = "OBJECT_START" /\ after = Append(calls, "object")
           \/ type = "ARRAY_START" /\ after = Append(calls, "array")
           \/ type \notin {"OBJECT_START", "ARRAY_START"} /\ after = calls
           \/ /\ calls # <<>> /\ after = Front(calls)
              /\ type = IF Last(calls) = "object" THEN "OBJECT_END" ELSE "ARRAY_END"
    PROVE  Balanced(t, TokenAt(t, p).next, after)
<1>1. PICK c, types : /\ types \in Seq(TokenTypes)
                      /\ ReadUpTo(t, c, types)
                      /\ c[Len(c)] = p
                      /\ BalancedWith(types, calls)
  BY Zenon DEF Balanced
<1> DEFINE k == TokenAt(t, p)
           y == Append(types, k.type)
<1>2. k.type \in TokenTypes
  BY TypeIs
<1>3. PICK d : ReadUpTo(t, d, y) /\ d[Len(d)] = k.next
  BY ZenonT(60), <1>1, ReadOneMore
<1>4. y \in Seq(TokenTypes)
  BY <1>1, <1>2
<1>5. BalancedWith(y, after)
  <2>1. k.type = type /\ type \in TokenTypes
    BY Zenon, <1>2
  <2> HIDE DEF k
  <2>2. BalancedWith(Append(types, type), after)
    <3>1. CASE type = "OBJECT_START" /\ after = Append(calls, "object")
      BY Zenon, <1>1, <3>1, BalanceOpen
    <3>4. CASE type = "ARRAY_START" /\ after = Append(calls, "array")
      BY Zenon, <1>1, <3>4, BalanceOpen
    <3>2. CASE type \notin {"OBJECT_START", "ARRAY_START"} /\ after = calls
      BY Zenon, <1>1, <2>1, <3>2, BalanceKeep
    <3>3. CASE calls # <<>> /\ after = Front(calls) /\ type = IF Last(calls) = "object" THEN "OBJECT_END" ELSE "ARRAY_END"
      BY <1>1, <3>3, BalanceClose
    <3> QED BY Zenon, <3>1, <3>2, <3>3, <3>4
  <2> QED BY Zenon, <2>1, <2>2
<1> QED BY Zenon, <1>3, <1>4, <1>5 DEF Balanced

\* Where json_skip_token_value has read only tokens, its calls make up for
\* what is open.  Where it has passed over something that is no token, which
\* it takes for a value, it fails, unless nothing else was asked for.
BalanceInv ==
    mode = "skip" =>
        \/ /\ Balanced(text, position, stack)
           /\ (pc = "value" /\ stack = <<>>) => position = 1
           /\ pc = "SUCCESS" => stack = <<>>
        \/ pc = "separator" /\ Over(text, position)
        \/ pc = "SUCCESS" /\ Over(text, 1) /\ position = TokenAt(text, 1).next
        \/ pc = "ERROR_INVALID_INPUT"

\* Nothing is open at first.
LEMMA BalanceInit == JInit => BalanceInv
<1> SUFFICES ASSUME JInit PROVE BalanceInv
  OBVIOUS
<1>1. text \in Seq(Alphabet)
  BY Zenon, JInitInv DEF JInv
<1>2. position = 1 /\ stack = <<>>
  BY DEF JInit
<1>3. Balanced(text, position, stack)
  <2>1. Balanced(text, 1, <<>>)
    BY Zenon, <1>1, BalancedFirst
  <2> QED BY Zenon, <1>2, <2>1
<1>4. mode = "skip" => pc = "value"
  BY DEF JInit
<1> QED BY <1>2, <1>3, <1>4 DEF BalanceInv

\* What is read where there is no token ...
LEMMA BalanceOver ==
    ASSUME JInv, json_skip_token_value, Over(text, position),
           (pc = "value" /\ stack = <<>>) => position = 1
    PROVE  BalanceInv'
<1> DEFINE type == TokenAt(text, position).type
<1>0. text \in Seq(Alphabet) /\ position \in 1 .. Len(text) + 1
  BY DEF JInv, JTypeOK
<1>1. /\ position' = TokenAt(text, position).next
      /\ text' = text /\ mode' = mode
  BY DEF json_skip_token_value, Advance, json_parse_token
<1>2. \/ pc = "value" /\ SkipValue(type)
      \/ pc = "item" /\ SkipItem(type)
      \/ pc = "key" /\ SkipKey(type)
      \/ pc = "colon" /\ SkipColon(type)
      \/ pc = "separator" /\ SkipSeparator(type)
  BY Zenon DEF json_skip_token_value, json_parse_token
<1>3. type = "EOF" \/ type = "NONE"
  BY DEF Over
<1>4. Over(text', position')
  BY Zenon, <1>0, <1>1, OverStays
<1> HIDE DEF type
<1>5. CASE pc = "value" /\ SkipValue(type)
  <2>1. pc' = IF stack = <<>> THEN "SUCCESS" ELSE "separator"
    BY <1>3, <1>5 DEF SkipValue, Return
  <2>2. CASE stack = <<>>
    <3>1. pc' = "SUCCESS" /\ position = 1
      BY <1>5, <2>1, <2>2
    <3>2. Over(text', 1) /\ position' = TokenAt(text', 1).next
      BY Zenon, <1>1, <3>1
    <3> QED BY Zenon, <3>1, <3>2 DEF BalanceInv
  <2>3. CASE stack # <<>>
    BY <1>4, <2>1, <2>3 DEF BalanceInv
  <2> QED BY Zenon, <2>2, <2>3
<1>6. CASE pc = "item" /\ SkipItem(type)
  BY <1>3, <1>6 DEF SkipItem, Fail, BalanceInv
<1>7. CASE pc = "key" /\ SkipKey(type)
  BY <1>3, <1>7 DEF SkipKey, Fail, BalanceInv
<1>8. CASE pc = "colon" /\ SkipColon(type)
  BY <1>3, <1>8 DEF SkipColon, Fail, BalanceInv
<1>9. CASE pc = "separator" /\ SkipSeparator(type)
  BY <1>3, <1>9 DEF SkipSeparator, Closes, Fail, BalanceInv
<1> QED BY Zenon, <1>2, <1>5, <1>6, <1>7, <1>8, <1>9

\* ... and where there is one.
LEMMA BalanceRead ==
    ASSUME JInv, json_skip_token_value, Balanced(text, position, stack), ~Over(text, position)
    PROVE  BalanceInv'
<1> DEFINE type == TokenAt(text, position).type
<1>0. text \in Seq(Alphabet) /\ position \in 1 .. Len(text) + 1 /\ stack \in Seq(Kinds)
  BY DEF JInv, JTypeOK, Kinds
<1>1. /\ position' = TokenAt(text, position).next
      /\ text' = text /\ mode' = mode
  BY DEF json_skip_token_value, Advance, json_parse_token
<1>2. \/ pc = "value" /\ SkipValue(type)
      \/ pc = "item" /\ SkipItem(type)
      \/ pc = "key" /\ SkipKey(type)
      \/ pc = "colon" /\ SkipColon(type)
      \/ pc = "separator" /\ SkipSeparator(type)
  BY Zenon DEF json_skip_token_value, json_parse_token
<1>3. ASSUME NEW calls,
             \/ type = "OBJECT_START" /\ calls = Append(stack, "object")
             \/ type = "ARRAY_START" /\ calls = Append(stack, "array")
             \/ type \notin {"OBJECT_START", "ARRAY_START"} /\ calls = stack
             \/ /\ stack # <<>> /\ calls = Front(stack)
                /\ type = IF Last(stack) = "object" THEN "OBJECT_END" ELSE "ARRAY_END"
      PROVE  Balanced(text', position', calls)
  <2>1. ASSUME NEW k, k = type
        PROVE  \/ k = "OBJECT_START" /\ calls = Append(stack, "object")
               \/ k = "ARRAY_START" /\ calls = Append(stack, "array")
               \/ k \notin {"OBJECT_START", "ARRAY_START"} /\ calls = stack
               \/ /\ stack # <<>> /\ calls = Front(stack)
                  /\ k = IF Last(stack) = "object" THEN "OBJECT_END" ELSE "ARRAY_END"
    BY Zenon, <1>3, <2>1
  <2>2. Balanced(text, TokenAt(text, position).next, calls)
    BY Zenon, <1>0, <1>3, <2>1, BalancedNext
  <2> QED BY Zenon, <1>1, <2>2
<1>4. /\ pc \in {"key", "colon"} => stack # <<>> /\ Last(stack) = "object"
      /\ pc = "item" => stack # <<>> /\ Last(stack) = "array"
      /\ pc = "separator" => stack # <<>>
  BY Zenon DEF JInv, JTypeOK
<1>5. type \notin {"EOF", "NONE"}
  BY Zenon DEF Over
<1> HIDE DEF type
<1>6. \/ pc' = "ERROR_INVALID_INPUT"
      \/ /\ \/ type = "OBJECT_START" /\ stack' = Append(stack, "object")
            \/ type = "ARRAY_START" /\ stack' = Append(stack, "array")
            \/ type \notin {"OBJECT_START", "ARRAY_START"} /\ stack' = stack
            \/ /\ stack # <<>> /\ stack' = Front(stack)
               /\ type = IF Last(stack) = "object" THEN "OBJECT_END" ELSE "ARRAY_END"
         /\ pc' = "value" => stack' # <<>>
         /\ pc' = "SUCCESS" => stack' = <<>>
  <2>1. ASSUME SkipValue(type)
        PROVE  /\ \/ type = "OBJECT_START" /\ stack' = Append(stack, "object")
                  \/ type = "ARRAY_START" /\ stack' = Append(stack, "array")
                  \/ type \notin {"OBJECT_START", "ARRAY_START"} /\ stack' = stack
               /\ pc' # "value"
               /\ pc' = "SUCCESS" => stack' = <<>>
    BY <2>1 DEF SkipValue, Return
  <2>2. CASE pc = "value" /\ SkipValue(type)
    BY Zenon, <2>1, <2>2
  <2>3. CASE pc = "item" /\ SkipItem(type)
    <3>1. CASE type = "ARRAY_END"
      BY <1>4, <2>3, <3>1 DEF SkipItem, Return
    <3>2. CASE type # "ARRAY_END"
      <4>1. SkipValue(type)
        BY Zenon, <1>5, <2>3, <3>2 DEF SkipItem
      <4> QED BY Zenon, <2>1, <4>1
    <3> QED BY Zenon, <3>1, <3>2
  <2>4. CASE pc = "key" /\ SkipKey(type)
    BY <1>4, <2>4 DEF SkipKey, Return, Fail
  <2>5. CASE pc = "colon" /\ SkipColon(type)
    BY <1>4, <2>5 DEF SkipColon, Fail
  <2>6. CASE pc = "separator" /\ SkipSeparator(type)
    BY <1>4, <2>6 DEF SkipSeparator, Closes, Return, Fail
  <2> QED BY Zenon, <1>2, <2>2, <2>3, <2>4, <2>5, <2>6
<1>7. CASE pc' = "ERROR_INVALID_INPUT"
  BY Zenon, <1>7 DEF BalanceInv
<1>8. CASE pc' # "ERROR_INVALID_INPUT"
  <2>1. Balanced(text', position', stack')
    BY Zenon, <1>3, <1>6, <1>8
  <2>2. (pc' = "value" => stack' # <<>>) /\ (pc' = "SUCCESS" => stack' = <<>>)
    BY Zenon, <1>6, <1>8
  <2> QED BY Zenon, <2>1, <2>2 DEF BalanceInv
<1> QED BY Zenon, <1>7, <1>8

\* Every step of the loops keeps it.
LEMMA BalanceStep ==
    ASSUME JInv, BalanceInv, [JNext]_jvars
    PROVE  BalanceInv'
<1>1. CASE json_skip_token_value
  <2>1. mode = "skip" /\ pc \notin {"SUCCESS", "ERROR_INVALID_INPUT"}
    BY <1>1 DEF json_skip_token_value
  <2>2. \/ Balanced(text, position, stack) /\ ((pc = "value" /\ stack = <<>>) => position = 1)
        \/ pc = "separator" /\ Over(text, position)
    BY <2>1 DEF BalanceInv
  <2>3. CASE Over(text, position)
    <3>1. (pc = "value" /\ stack = <<>>) => position = 1
      BY <2>2
    <3> QED BY Zenon, <1>1, <2>3, <3>1, BalanceOver
  <2>4. CASE ~Over(text, position)
    BY Zenon, <1>1, <2>2, <2>4, BalanceRead
  <2> QED BY Zenon, <2>3, <2>4
<1>2. CASE json_get_stats_string
  <2>1. mode' # "skip"
    BY <1>2 DEF json_get_stats_string
  <2> QED BY Zenon, <2>1 DEF BalanceInv
<1>3. CASE UNCHANGED jvars
  <2>1. /\ mode' = mode /\ text' = text /\ position' = position /\ stack' = stack /\ pc' = pc
    BY <1>3 DEF jvars
  <2> QED BY Zenon, <2>1 DEF BalanceInv
<1> QED BY Zenon, <1>1, <1>2, <1>3 DEF JNext, Finished

\* Where there is no token, nothing is counted.
LEMMA CountOver ==
    ASSUME NEW t \in Seq(Alphabet), Over(t, 1), NEW x
    PROVE  Count(x, t) = 0
<1>1. PICK g : TokensFrom(t, 1, g)
  BY Zenon, TokensExist
<1>2. 1 \in 1 .. Len(t) + 1
  OBVIOUS
<1>3. Tokens(t) = <<>>
  <2>1. Tokens(t) = g[1]
    BY Zenon, <1>1, TokensIs
  <2>2. g[1] = <<>>
    BY Zenon, <1>1, <1>2 DEF TokensFrom
  <2> QED BY Zenon, <2>1, <2>2
<1>4. Count(x, t) = Cardinality({i \in DOMAIN Tokens(t) : Tokens(t)[i].type = x})
  BY Zenon DEF Count
<1>5. {i \in DOMAIN Tokens(t) : Tokens(t)[i].type = x} = {}
  BY <1>3
<1> QED BY Zenon, <1>4, <1>5, FS_EmptySet

\* Whatever the text, a value json_skip_token_value accepts closes every
\* object and array it opens: it never stops inside a container.
THEOREM BracketsClosed == JSpec => []ClosesWhatItOpens
<1>1. ASSUME JInv, BalanceInv, mode = "skip", pc = "SUCCESS", NEW u, u = SubSeq(text, 1, position - 1)
      PROVE  /\ Count("OBJECT_START", u) <= Count("OBJECT_END", u)
             /\ Count("ARRAY_START", u) <= Count("ARRAY_END", u)
  <2>0. text \in Seq(Alphabet) /\ position \in 1 .. Len(text) + 1
    BY <1>1 DEF JInv, JTypeOK
  <2>1. \/ Balanced(text, position, <<>>)
        \/ Over(text, 1) /\ position = TokenAt(text, 1).next
    BY <1>1 DEF BalanceInv
  <2>2. CASE Balanced(text, position, <<>>)
    <3>1. PICK c, types : /\ types \in Seq(TokenTypes)
                          /\ ReadUpTo(text, c, types)
                          /\ c[Len(c)] = position
                          /\ BalancedWith(types, <<>>)
      BY Zenon, <2>2 DEF Balanced
    <3>2. ASSUME NEW x PROVE Count(x, u) = Times(types, x) /\ Times(types, x) \in Nat
      <4>1. Count(x, SubSeq(text, 1, c[Len(c)] - 1)) = Times(types, x)
        BY ZenonT(60), <2>0, <3>1, CountRead
      <4>2. u = SubSeq(text, 1, c[Len(c)] - 1)
        BY Zenon, <1>1, <3>1
      <4>3. Times(types, x) \in Nat
        BY Zenon, <3>1, TimesNat
      <4> QED BY Zenon, <4>1, <4>2, <4>3
    <3>3. /\ Times(types, "OBJECT_START") <= Times(types, "OBJECT_END") + 0
          /\ Times(types, "ARRAY_START") <= Times(types, "ARRAY_END") + 0
      BY Zenon, <3>1, TimesEmpty DEF BalancedWith
    <3> QED BY <3>2, <3>3
  <2>3. CASE Over(text, 1) /\ position = TokenAt(text, 1).next
    <3>1. u \in Seq(Alphabet) /\ Len(u) = position - 1 /\ Cut(u, text)
      BY <1>1, <2>0 DEF Cut
    <3>2. Over(u, 1)
      <4>1. Len(u) = TokenAt(text, 1).next - 1
        BY Zenon, <2>3, <3>1
      <4> QED BY Zenon, <2>0, <2>3, <3>1, <4>1, OverCut
    <3>3. \A x : Count(x, u) = 0
      BY Zenon, <3>1, <3>2, CountOver
    <3> QED BY <3>3
  <2> QED BY Zenon, <2>1, <2>2, <2>3
<1>2. JInv /\ BalanceInv => ClosesWhatItOpens
  BY Zenon, <1>1 DEF ClosesWhatItOpens
<1>3. JInv /\ BalanceInv /\ [JNext]_jvars => BalanceInv'
  BY Zenon, BalanceStep
<1> QED BY BalanceInit, JsonReading, <1>2, <1>3, PTL DEF JSpec
=============================================================================
