-------------------------- MODULE JsonValueProofs --------------------------
(***************************************************************************)
(* What is printed is read as it was meant, however deeply it is nested:   *)
(* json_skip_token_value passes over exactly a value, the counts of        *)
(* json_get_stats_string are those of what is in it, and json_compress     *)
(* keeps its tokens.                                                       *)
(*                                                                         *)
(* All three follow from one claim about everything that is printed,       *)
(* proved along its parts, which are shorter than it (LeastNat).           *)
(***************************************************************************)
EXTENDS JsonTextProofs

-----------------------------------------------------------------------------
(***************************************************************************)
(* One reader does what both loops do: it is at a position, has calls of   *)
(* json_skip_token_value under way, the innermost of which wants something *)
(* next, and has counted and kept the tokens it has read.                  *)
(***************************************************************************)
Reader(p, calls, want, counts, kept) ==
    [at |-> p, calls |-> calls, want |-> want, counts |-> counts, kept |-> kept]

\* What a call that has returned leaves its caller to want
Back(calls) == IF calls = <<>> THEN "SUCCESS" ELSE "separator"

\* What is wanted behind an opening bracket or a comma
First(kind) == IF kind = "object" THEN "key" ELSE "item"

\* A token that ends the innermost call
Ending(calls, want, type) ==
    \/ want = "item" /\ type = "ARRAY_END"
    \/ want = "key" /\ type = "OBJECT_END"
    \/ want = "separator" /\ type = IF Last(calls) = "object" THEN "OBJECT_END" ELSE "ARRAY_END"

CallsAfter(calls, want, type) ==
    IF Ending(calls, want, type) THEN Front(calls)
    ELSE IF want \in {"value", "item"} /\ type = "OBJECT_START" THEN Append(calls, "object")
    ELSE IF want \in {"value", "item"} /\ type = "ARRAY_START" THEN Append(calls, "array")
    ELSE calls

WantAfter(calls, want, type) ==
    IF Ending(calls, want, type) THEN Back(Front(calls))
    ELSE IF want \in {"value", "item"} THEN
        IF type = "OBJECT_START" THEN "key" ELSE IF type = "ARRAY_START" THEN "item" ELSE Back(calls)
    ELSE IF want = "key" /\ type = "STRING" THEN "colon"
    ELSE IF want = "colon" /\ type = "COLON" THEN "value"
    ELSE IF want = "separator" /\ type = "COMMA" THEN First(Last(calls))
    ELSE "ERROR_INVALID_INPUT"

CountsOf(type) ==
    Counts(IF type = "STRING" THEN 1 ELSE 0,
           IF type \in {"NUMBER", "BOOLEAN", "NULL"} THEN 1 ELSE 0,
           IF type \in {"OBJECT_START", "ARRAY_START"} THEN 1 ELSE 0)

Lexeme(type, val) == [type |-> type, value |-> val]

\* It stops when the value is read, or where there is no token.
Stopped(t, r) == r.want \in {"SUCCESS", "ERROR_INVALID_INPUT"} \/ Over(t, r.at)

Moved(t, r) ==
    Reader(TokenAt(t, r.at).next,
           CallsAfter(r.calls, r.want, TokenAt(t, r.at).type),
           WantAfter(r.calls, r.want, TokenAt(t, r.at).type),
           Added(r.counts, CountsOf(TokenAt(t, r.at).type)),
           Append(r.kept, Entry(t, r.at)))

Turn(t, r) == IF Stopped(t, r) THEN r ELSE Moved(t, r)

\* d is in every set that c is in and no turn leaves: turns lead from c to d.
Reaches(t, c, d) == \A S : (c \in S /\ \A r \in S : Turn(t, r) \in S) => d \in S

\* One turn leads to the next reader ...
LEMMA ReachNext == \A t, c : Reaches(t, c, Turn(t, c))
BY Zenon DEF Reaches

\* ... and some may follow others.
LEMMA ReachThen ==
    ASSUME NEW t, NEW c, NEW d, NEW e, Reaches(t, c, d), Reaches(t, d, e)
    PROVE  Reaches(t, c, e)
BY Zenon DEF Reaches

\* There is one way only: what is reached from a reader, and is not that
\* reader, is reached from the next one.
LEMMA ReachOn ==
    ASSUME NEW t, NEW c, NEW e, Reaches(t, c, e), c # e
    PROVE  Reaches(t, Turn(t, c), e)
<1> SUFFICES ASSUME NEW S, Turn(t, c) \in S, \A r \in S : Turn(t, r) \in S
             PROVE  e \in S
  BY Zenon DEF Reaches
<1>1. c \in S \cup {c} /\ \A r \in S \cup {c} : Turn(t, r) \in S \cup {c}
  BY Zenon
<1>2. e \in S \cup {c}
  BY Zenon, <1>1 DEF Reaches
<1> QED BY Zenon, <1>2

\* A reader that makes no turns reaches no other.
LEMMA ReachStopped ==
    ASSUME NEW t, NEW c, NEW e, Reaches(t, c, e), Turn(t, c) = c
    PROVE  c = e
<1>1. c \in {c} /\ \A r \in {c} : Turn(t, r) \in {c}
  BY Zenon
<1> QED BY Zenon, <1>1 DEF Reaches

\* The parts of a reader.
LEMMA ReaderIs ==
    ASSUME NEW p, NEW calls, NEW want, NEW counts, NEW kept, NEW r, r = Reader(p, calls, want, counts, kept)
    PROVE  /\ r.at = p /\ r.calls = calls /\ r.want = want /\ r.counts = counts /\ r.kept = kept
BY DEF Reader

\* The reader does what json_skip_token_value does.
LEMMA SkipIsTurn ==
    ASSUME JInv, json_skip_token_value, NEW type, type = TokenAt(text, position).type,
           type \notin {"EOF", "NONE"}
    PROVE  stack' = CallsAfter(stack, pc, type) /\ pc' = WantAfter(stack, pc, type)
<1>1. \/ pc = "value" /\ SkipValue(type)
      \/ pc = "item" /\ SkipItem(type)
      \/ pc = "key" /\ SkipKey(type)
      \/ pc = "colon" /\ SkipColon(type)
      \/ pc = "separator" /\ SkipSeparator(type)
  BY Zenon DEF json_skip_token_value, json_parse_token
<1>2. CASE pc = "value" /\ SkipValue(type)
  BY <1>2 DEF SkipValue, Return, CallsAfter, WantAfter, Ending, Back
<1>3. CASE pc = "item" /\ SkipItem(type)
  <2>1. CASE type = "ARRAY_END"
    BY <1>3, <2>1 DEF SkipItem, Return, CallsAfter, WantAfter, Ending, Back
  <2>2. CASE type # "ARRAY_END"
    BY <1>3, <2>2 DEF SkipItem, SkipValue, Return, CallsAfter, WantAfter, Ending, Back
  <2> QED BY Zenon, <2>1, <2>2
<1>4. CASE pc = "key" /\ SkipKey(type)
  BY <1>4 DEF SkipKey, Return, Fail, CallsAfter, WantAfter, Ending, Back
<1>5. CASE pc = "colon" /\ SkipColon(type)
  BY <1>5 DEF SkipColon, Fail, CallsAfter, WantAfter, Ending, Back
<1>6. CASE pc = "separator" /\ SkipSeparator(type)
  BY <1>6 DEF SkipSeparator, Closes, Return, Fail, CallsAfter, WantAfter, Ending, Back, First
<1> QED BY Zenon, <1>1, <1>2, <1>3, <1>4, <1>5, <1>6

-----------------------------------------------------------------------------
(***************************************************************************)
(* Passing from one place of a text to another                             *)
(***************************************************************************)
CountSet == [strings : Nat, others : Nat, containers : Nat]
Lexemes == [type : TokenTypes, value : Seq(Alphabet)]

\* Counts can be added in any order.
LEMMA AddedIs ==
    ASSUME NEW a \in CountSet, NEW b \in CountSet
    PROVE  /\ Added(a, b) \in CountSet
           /\ Added(a, NoStats) = a
           /\ Added(NoStats, a) = a
BY DEF Added, Counts, NoStats, CountSet

LEMMA AddedThen ==
    ASSUME NEW a \in CountSet, NEW b \in CountSet, NEW c \in CountSet
    PROVE  Added(Added(a, b), c) = Added(a, Added(b, c))
BY DEF Added, Counts, CountSet

\* A token counts as something.
LEMMA CountsOfIs == \A type : CountsOf(type) \in CountSet
BY DEF CountsOf, Counts, CountSet

\* Whatever has been counted and kept before, a reader at p with these calls
\* gets to q, counting n and keeping toks on the way.
Passes(t, p, calls, want, q, calls2, want2, n, toks) ==
    \A counts \in CountSet, kept \in Seq(Lexemes) :
        Reaches(t, Reader(p, calls, want, counts, kept),
                   Reader(q, calls2, want2, Added(counts, n), kept \o toks))

\* Two passages make one.
LEMMA PassesThen ==
    ASSUME NEW t, NEW p, NEW calls, NEW want, NEW q, NEW calls2, NEW want2, NEW n \in CountSet,
           NEW a \in Seq(Lexemes), Passes(t, p, calls, want, q, calls2, want2, n, a),
           NEW r, NEW calls3, NEW want3, NEW m \in CountSet,
           NEW b \in Seq(Lexemes), Passes(t, q, calls2, want2, r, calls3, want3, m, b)
    PROVE  Passes(t, p, calls, want, r, calls3, want3, Added(n, m), a \o b)
<1> SUFFICES ASSUME NEW counts \in CountSet, NEW kept \in Seq(Lexemes)
             PROVE  Reaches(t, Reader(p, calls, want, counts, kept),
                               Reader(r, calls3, want3, Added(counts, Added(n, m)), kept \o (a \o b)))
  BY Zenon DEF Passes
<1>0. Added(counts, n) \in CountSet
  BY Zenon, AddedIs
<1>1. Added(Added(counts, n), m) = Added(counts, Added(n, m))
  BY Zenon, AddedThen
<1>2. kept \o a \in Seq(Lexemes)
  BY Zenon, ConcatProperties
<1>3. (kept \o a) \o b = kept \o (a \o b)
  BY SMTT(30), ConcatAssociative
<1>4. Reaches(t, Reader(p, calls, want, counts, kept),
                 Reader(q, calls2, want2, Added(counts, n), kept \o a))
  BY Zenon DEF Passes
<1>5. Reaches(t, Reader(q, calls2, want2, Added(counts, n), kept \o a),
                 Reader(r, calls3, want3, Added(Added(counts, n), m), (kept \o a) \o b))
  BY Zenon, <1>0, <1>2 DEF Passes
<1> QED BY Zenon, <1>1, <1>3, <1>4, <1>5, ReachThen

\* What a token does to the calls and to what is wanted
Turns(calls, want, type, calls2, want2) ==
    calls2 = CallsAfter(calls, want, type) /\ want2 = WantAfter(calls, want, type)

\* One token is passed in one turn.
LEMMA PassesToken ==
    ASSUME NEW t \in Seq(Alphabet), NEW p, NEW type \in TokenTypes, NEW val \in Seq(Alphabet), NEW q,
           TokenAt(t, p) = Token(type, val, q), type \notin {"EOF", "NONE"},
           NEW calls, NEW want, want \notin {"SUCCESS", "ERROR_INVALID_INPUT"},
           NEW calls2, NEW want2, Turns(calls, want, type, calls2, want2)
    PROVE  Passes(t, p, calls, want, q, calls2, want2, CountsOf(type), <<Lexeme(type, val)>>)
<1>0. TokenAt(t, p).type = type /\ TokenAt(t, p).value = val /\ TokenAt(t, p).next = q
  BY DEF Token
<1>1. Entry(t, p) = Lexeme(type, val) /\ Lexeme(type, val) \in Lexemes /\ ~Over(t, p)
  BY <1>0 DEF Entry, Lexeme, Lexemes, Over
<1> SUFFICES ASSUME NEW counts \in CountSet, NEW kept \in Seq(Lexemes)
             PROVE  Reaches(t, Reader(p, calls, want, counts, kept),
                               Reader(q, calls2, want2, Added(counts, CountsOf(type)), kept \o <<Lexeme(type, val)>>))
  BY Zenon DEF Passes
<1> DEFINE c == Reader(p, calls, want, counts, kept)
<1>2. c.at = p /\ c.calls = calls /\ c.want = want /\ c.counts = counts /\ c.kept = kept
  BY DEF Reader
<1>3. Append(kept, Lexeme(type, val)) = kept \o <<Lexeme(type, val)>>
  BY Zenon, <1>1, AppendIsConcat
<1> HIDE DEF c
<1>4. ~Stopped(t, c)
  BY Zenon, <1>1, <1>2 DEF Stopped
<1>5. Moved(t, c) = Reader(q, calls2, want2, Added(counts, CountsOf(type)), kept \o <<Lexeme(type, val)>>)
  BY Zenon, <1>0, <1>1, <1>2, <1>3 DEF Moved, Turns
<1>6. Turn(t, c) = Moved(t, c)
  BY Zenon, <1>4 DEF Turn
<1> QED BY Zenon, <1>5, <1>6, ReachNext DEF c

\* A reader may as well start in front of white space.
LEMMA PassesGap ==
    ASSUME NEW t, NEW p, NEW g, TokenAt(t, p) = TokenAt(t, g),
           NEW calls, NEW want, NEW q, q # g, NEW calls2, NEW want2, NEW n, NEW toks,
           Passes(t, g, calls, want, q, calls2, want2, n, toks)
    PROVE  Passes(t, p, calls, want, q, calls2, want2, n, toks)
<1> SUFFICES ASSUME NEW counts \in CountSet, NEW kept \in Seq(Lexemes)
             PROVE  Reaches(t, Reader(p, calls, want, counts, kept),
                               Reader(q, calls2, want2, Added(counts, n), kept \o toks))
  BY Zenon DEF Passes
<1> DEFINE c == Reader(p, calls, want, counts, kept)
           d == Reader(g, calls, want, counts, kept)
           e == Reader(q, calls2, want2, Added(counts, n), kept \o toks)
<1>1. c.at = p /\ c.calls = calls /\ c.want = want /\ c.counts = counts /\ c.kept = kept
  BY DEF Reader
<1>2. d.at = g /\ d.calls = calls /\ d.want = want /\ d.counts = counts /\ d.kept = kept
  BY DEF Reader
<1>3. e.at = q
  BY DEF Reader
<1>4. Reaches(t, d, e)
  BY Zenon DEF Passes
<1> HIDE DEF c, d, e
<1>5. d # e
  BY Zenon, <1>2, <1>3
<1>6. ~Stopped(t, d)
  BY Zenon, <1>4, <1>5, ReachStopped DEF Turn
<1>7. Moved(t, c) = Moved(t, d)
  BY Zenon, <1>1, <1>2 DEF Moved, Entry
<1>8. ~Stopped(t, c)
  BY Zenon, <1>1, <1>2, <1>6 DEF Stopped, Over
<1>9. Turn(t, c) = Turn(t, d)
  BY Zenon, <1>6, <1>7, <1>8 DEF Turn
<1>10. Reaches(t, Turn(t, d), e)
  BY Zenon, <1>4, <1>5, ReachOn
<1>11. Reaches(t, c, e)
  BY Zenon, <1>9, <1>10, ReachNext, ReachThen
<1> QED BY <1>11 DEF c, e

-----------------------------------------------------------------------------
(***************************************************************************)
(* What the tokens of a value do to the calls                              *)
(***************************************************************************)
Begins == [object |-> "OBJECT_START", array |-> "ARRAY_START"]
Ends == [object |-> "OBJECT_END", array |-> "ARRAY_END"]

\* A call that has been made last is the last, and the others are in front of it.
LEMMA CallIs ==
    ASSUME NEW s \in Seq(Kinds), NEW kind \in Kinds
    PROVE  /\ Append(s, kind) \in Seq(Kinds)
           /\ Append(s, kind) # <<>>
           /\ Last(Append(s, kind)) = kind
           /\ Front(Append(s, kind)) = s
<1>1. /\ Append(s, kind) \in Seq(Kinds)
      /\ Append(s, kind) # <<>>
      /\ Last(Append(s, kind)) = kind
  BY DEF Last
<1>2. Front(Append(s, kind)) = s
  BY DEF Front
<1> QED BY Zenon, <1>1, <1>2

\* A value that is no container.
LEMMA TurnsScalar ==
    ASSUME NEW s, NEW want \in {"value", "item"}, NEW type \in {"STRING", "NUMBER", "BOOLEAN", "NULL"}
    PROVE  Turns(s, want, type, s, Back(s))
BY DEF Turns, CallsAfter, WantAfter, Ending

\* An opening bracket.
LEMMA TurnsOpen ==
    ASSUME NEW s, NEW want \in {"value", "item"}, NEW kind \in Kinds
    PROVE  Turns(s, want, Begins[kind], Append(s, kind), First(kind))
BY DEF Turns, CallsAfter, WantAfter, Ending, Begins, First, Kinds

\* A closing bracket, behind the opening one or behind a member.
LEMMA TurnsClose ==
    ASSUME NEW s \in Seq(Kinds), NEW kind \in Kinds, NEW want \in {First(kind), "separator"}
    PROVE  Turns(Append(s, kind), want, Ends[kind], s, Back(s))
<1>1. Last(Append(s, kind)) = kind /\ Front(Append(s, kind)) = s
  BY Zenon, CallIs
<1>2. Ending(Append(s, kind), want, Ends[kind])
  BY <1>1 DEF Ending, Ends, First, Kinds
<1> QED BY Zenon, <1>1, <1>2 DEF Turns, CallsAfter, WantAfter

\* A comma.
LEMMA TurnsComma ==
    ASSUME NEW s \in Seq(Kinds), NEW kind \in Kinds
    PROVE  Turns(Append(s, kind), "separator", "COMMA", Append(s, kind), First(kind))
<1>1. Last(Append(s, kind)) = kind
  BY Zenon, CallIs
<1>2. ~Ending(Append(s, kind), "separator", "COMMA")
  BY DEF Ending
<1> QED BY <1>1, <1>2 DEF Turns, CallsAfter, WantAfter

\* A key ...
LEMMA TurnsKey == \A s : Turns(s, "key", "STRING", s, "colon")
BY DEF Turns, CallsAfter, WantAfter, Ending

\* ... and a colon.
LEMMA TurnsColon == \A s : Turns(s, "colon", "COLON", s, "value")
BY DEF Turns, CallsAfter, WantAfter, Ending

-----------------------------------------------------------------------------
(***************************************************************************)
(* Tokens anywhere in a text                                               *)
(***************************************************************************)

\* u is in t, from position p on.
Here(t, p, u) ==
    /\ p \in 1 .. Len(t) + 1
    /\ p + Len(u) <= Len(t) + 1
    /\ \A i \in 1 .. Len(u) : t[p + i - 1] = u[i]

\* What is made of two texts is here where the one is here and the other
\* behind it.
LEMMA HereJoin ==
    ASSUME NEW t \in Seq(Alphabet), NEW p, NEW a \in Seq(Alphabet), NEW b \in Seq(Alphabet),
           NEW c, c = a \o b, Here(t, p, c)
    PROVE  /\ Here(t, p, a)
           /\ Here(t, p + Len(a), b)
<1>1. /\ Len(c) = Len(a) + Len(b)
      /\ \A i \in 1 .. Len(a) : c[i] = a[i]
      /\ \A i \in 1 .. Len(b) : c[Len(a) + i] = b[i]
  BY JoinIs
<1>2. /\ p \in 1 .. Len(t) + 1
      /\ p + Len(c) <= Len(t) + 1
      /\ \A i \in 1 .. Len(c) : t[p + i - 1] = c[i]
  BY Zenon DEF Here
<1>3. Len(a) \in Nat /\ Len(b) \in Nat /\ Len(t) \in Nat
  OBVIOUS
<1>4. Here(t, p, a)
  BY <1>1, <1>2, <1>3 DEF Here
<1>5. ASSUME NEW i \in 1 .. Len(b) PROVE t[p + Len(a) + i - 1] = b[i]
  <2>1. Len(a) + i \in 1 .. Len(c) /\ p + (Len(a) + i) - 1 = p + Len(a) + i - 1
    BY <1>1, <1>2, <1>3
  <2> QED BY <1>1, <1>2, <2>1
<1>6. p + Len(a) \in 1 .. Len(t) + 1 /\ p + Len(a) + Len(b) <= Len(t) + 1
  BY <1>1, <1>2, <1>3
<1>7. Here(t, p + Len(a), b)
  BY Zenon, <1>5, <1>6 DEF Here
<1> QED BY <1>4, <1>7

\* Lengths add up.
LEMMA JoinLen ==
    ASSUME NEW a \in Seq(Alphabet), NEW b \in Seq(Alphabet)
    PROVE  Len(a \o b) = Len(a) + Len(b) /\ Len(a) \in Nat /\ Len(b) \in Nat
BY JoinIs

\* The only place where a scan can end.
LEMMA PastAt ==
    ASSUME NEW t \in Seq(Alphabet), NEW p \in 1 .. Len(t) + 1, NEW class, NEW q \in p .. Len(t) + 1,
           \A r \in p .. q - 1 : t[r] \in class, q <= Len(t) => t[q] \notin class
    PROVE  Past(t, p, class) = q
<1> DEFINE x == Past(t, p, class)
<1>1. x \in p .. Len(t) + 1 /\ (x <= Len(t) => t[x] \notin class) /\ \A r \in p .. x - 1 : t[r] \in class
  BY PastIs
<1>2. Len(t) \in Nat
  OBVIOUS
<1> HIDE DEF x
<1>3. ~(x < q)
  BY <1>1, <1>2
<1>4. ~(q < x)
  BY <1>1, <1>2
<1> QED BY <1>1, <1>2, <1>3, <1>4 DEF x

\* A token is looked for behind white space.
LEMMA TokenPastGap ==
    ASSUME NEW t \in Seq(Alphabet), NEW p, NEW g \in Seq(Spaces), Here(t, p, g)
    PROVE  TokenAt(t, p) = TokenAt(t, p + Len(g))
<1> DEFINE q == p + Len(g)
           x == Past(t, q, Spaces)
<1>1. /\ p \in 1 .. Len(t) + 1 /\ q \in 1 .. Len(t) + 1 /\ p <= q /\ Len(t) \in Nat /\ Len(g) \in Nat
      /\ \A i \in 1 .. Len(g) : t[p + i - 1] = g[i]
  BY DEF Here
<1>2. \A r \in p .. q - 1 : t[r] \in Spaces
  <2> SUFFICES ASSUME NEW r \in p .. q - 1 PROVE t[r] \in Spaces
    OBVIOUS
  <2>1. r - p + 1 \in 1 .. Len(g) /\ p + (r - p + 1) - 1 = r
    BY <1>1
  <2>2. g[r - p + 1] \in Spaces
    BY <2>1
  <2> QED BY <1>1, <2>1, <2>2
<1>3. x \in q .. Len(t) + 1 /\ (x <= Len(t) => t[x] \notin Spaces) /\ \A r \in q .. x - 1 : t[r] \in Spaces
  BY <1>1, PastIs
<1> HIDE DEF x, q
<1>4. x \in p .. Len(t) + 1 /\ \A r \in p .. x - 1 : t[r] \in Spaces
  BY <1>1, <1>2, <1>3
<1>5. Past(t, p, Spaces) = x
  BY Zenon, <1>1, <1>3, <1>4, PastAt
<1> QED BY Zenon, <1>5 DEF TokenAt, x, q

\* There is no white space to pass in front of anything else.
LEMMA NoGap ==
    ASSUME NEW t \in Seq(Alphabet), NEW p \in 1 .. Len(t), t[p] \notin Spaces
    PROVE  Past(t, p, Spaces) = p /\ ~(p > Len(t))
<1>1. p \in 1 .. Len(t) + 1 /\ p \in p .. Len(t) + 1 /\ (\A r \in p .. p - 1 : t[r] \in Spaces) /\ ~(p > Len(t))
  OBVIOUS
<1> QED BY Zenon, <1>1, PastAt

\* A bracket, a colon or a comma.
LEMMA PunctuationAt ==
    ASSUME NEW t \in Seq(Alphabet), NEW p \in 1 .. Len(t), t[p] \in DOMAIN Punctuation
    PROVE  TokenAt(t, p) = Token(Punctuation[t[p]], <<>>, p + 1)
<1>1. t[p] \notin Spaces
  BY DEF Punctuation, Spaces
<1> QED BY Zenon, <1>1, NoGap DEF TokenAt

\* A word.
LEMMA WordAt ==
    ASSUME NEW t \in Seq(Alphabet), NEW p \in 1 .. Len(t), t[p] \in Words
    PROVE  TokenAt(t, p) = Token(IF t[p] = "null" THEN "NULL" ELSE "BOOLEAN", <<t[p]>>, p + 1)
<1>1. t[p] \notin Spaces /\ t[p] \notin DOMAIN Punctuation /\ t[p] # Quote
  BY DEF Punctuation, Spaces, Words, Quote
<1> QED BY Zenon, <1>1, NoGap DEF TokenAt

\* What comes behind a value
Delimiters == Spaces \cup {",", "]", "}"}

Delimited(t, q) == q <= Len(t) => t[q] \in Delimiters

\* What is between two positions of a text.
LEMMA BetweenIs ==
    ASSUME NEW t \in Seq(Alphabet), NEW p, NEW u \in Seq(Alphabet), Here(t, p, u),
           NEW q, q = p + Len(u)
    PROVE  SubSeq(t, p, q - 1) = u
<1> DEFINE x == SubSeq(t, p, q - 1)
<1>1. /\ p \in 1 .. Len(t) + 1 /\ p + Len(u) <= Len(t) + 1 /\ Len(t) \in Nat /\ Len(u) \in Nat
      /\ \A i \in 1 .. Len(u) : t[p + i - 1] = u[i]
  BY DEF Here
<1>2. x \in Seq(Alphabet) /\ Len(x) = Len(u) /\ \A i \in 1 .. Len(u) : x[i] = t[p + i - 1]
  BY <1>1
<1> HIDE DEF x
<1>3. x = u
  BY <1>1, <1>2, SeqEqual
<1> QED BY <1>3 DEF x

\* The end of a number as it is printed.
LEMMA NumberEndAt ==
    ASSUME NEW t \in Seq(Alphabet), NEW p, NEW n \in Seq(Alphabet), Here(t, p, n), IsNumber(n),
           Delimited(t, p + Len(n))
    PROVE  NumberEnd(t, p) = p + Len(n) /\ p \in 1 .. Len(t) /\ t[p] \in Digits \cup {"-"}
<1>0. PICK sign \in {0, 1} : \E int \in sign + 1 .. Len(n) :
          /\ sign = 1 => n[1] = "-"
          /\ \A i \in sign + 1 .. int : n[i] \in Digits
          /\ \/ int = Len(n)
             \/ /\ int + 2 <= Len(n)
                /\ n[int + 1] = "."
                /\ \A i \in int + 2 .. Len(n) : n[i] \in Digits
  BY Zenon DEF IsNumber
<1>1. PICK int \in sign + 1 .. Len(n) :
          /\ sign = 1 => n[1] = "-"
          /\ \A i \in sign + 1 .. int : n[i] \in Digits
          /\ \/ int = Len(n)
             \/ /\ int + 2 <= Len(n)
                /\ n[int + 1] = "."
                /\ \A i \in int + 2 .. Len(n) : n[i] \in Digits
  BY Zenon, <1>0
<1> DEFINE N == Len(n)
           e == p + N
<1>2. /\ p \in 1 .. Len(t) + 1 /\ e <= Len(t) + 1 /\ Len(t) \in Nat /\ N \in Nat
      /\ \A i \in 1 .. N : t[p + i - 1] = n[i]
      /\ sign \in Nat /\ int \in Nat /\ sign <= 1 /\ sign + 1 <= int /\ int <= N
  BY <1>1 DEF Here
<1>3. e <= Len(t) => t[e] \notin Digits \cup {".", "e"}
  BY DEF Delimited, Delimiters, Spaces, Digits
<1>4. \A r \in p .. e - 1 : r - p + 1 \in 1 .. N /\ t[r] = n[r - p + 1]
  <2> SUFFICES ASSUME NEW r \in p .. e - 1 PROVE r - p + 1 \in 1 .. N /\ t[r] = n[r - p + 1]
    OBVIOUS
  <2>1. r - p + 1 \in 1 .. N /\ p + (r - p + 1) - 1 = r
    BY <1>2
  <2> QED BY <1>2, <2>1
<1> HIDE DEF N
<1>5. Optional(t, p, {"-"}) = p + sign
  <2>1. CASE sign = 1
    <3>1. t[p] = n[1]
      BY <1>2, <1>4
    <3> QED BY <1>1, <1>2, <2>1, <3>1 DEF Optional
  <2>2. CASE sign = 0
    <3>1. t[p] = n[1] /\ n[1] \in Digits
      BY <1>1, <1>2, <1>4, <2>2
    <3>2. t[p] # "-"
      BY <3>1 DEF Digits
    <3> QED BY <1>2, <2>2, <3>2 DEF Optional
  <2> QED BY <1>1, <2>1, <2>2
<1>6. Past(t, p + sign, Digits) = p + int
  <2>1. p + sign \in 1 .. Len(t) + 1 /\ p + int \in p + sign .. Len(t) + 1
    BY <1>2
  <2>2. \A r \in p + sign .. p + int - 1 : t[r] \in Digits
    <3> SUFFICES ASSUME NEW r \in p + sign .. p + int - 1 PROVE t[r] \in Digits
      OBVIOUS
    <3>1. r \in p .. e - 1 /\ r - p + 1 \in sign + 1 .. int
      BY <1>2
    <3> QED BY <1>1, <1>4, <3>1
  <2>3. p + int <= Len(t) => t[p + int] \notin Digits
    <3>1. CASE int = N
      BY <1>3, <3>1
    <3>2. CASE int # N
      <4>1. int + 2 <= N /\ n[int + 1] = "."
        BY <1>1, <3>2 DEF N
      <4>2. p + int \in p .. e - 1 /\ (p + int) - p + 1 = int + 1
        BY <1>2, <4>1
      <4>3. t[p + int] = "."
        BY <1>4, <4>1, <4>2
      <4> QED BY <4>3 DEF Digits
    <3> QED BY <3>1, <3>2
  <2>4. \A r \in p + sign .. (p + int) - 1 : t[r] \in Digits
    BY <1>2, <2>2
  <2> QED BY Zenon, <2>1, <2>3, <2>4, PastAt
<1> DEFINE dec == IF Optional(t, p + int, {"."}) = p + int THEN p + int ELSE Past(t, p + int + 1, Digits)
<1>7. dec = e
  <2>1. CASE int = N
    <3>1. Optional(t, p + int, {"."}) = p + int
      BY <1>2, <1>3, <2>1 DEF Optional
    <3> QED BY <2>1, <3>1
  <2>2. CASE int # N
    <3>1. int + 2 <= N /\ n[int + 1] = "." /\ \A i \in int + 2 .. N : n[i] \in Digits
      BY <1>1, <2>2 DEF N
    <3>2. p + int \in p .. e - 1 /\ (p + int) - p + 1 = int + 1
      BY <1>2, <3>1
    <3>3. t[p + int] = "."
      BY <1>4, <3>1, <3>2
    <3>4. Optional(t, p + int, {"."}) = p + int + 1
      BY <1>2, <3>2, <3>3 DEF Optional
    <3>5. p + int + 1 \in 1 .. Len(t) + 1 /\ e \in p + int + 1 .. Len(t) + 1 /\ p + int + 1 # p + int
      BY <1>2, <3>1
    <3>6. \A r \in p + int + 1 .. e - 1 : t[r] \in Digits
      <4> SUFFICES ASSUME NEW r \in p + int + 1 .. e - 1 PROVE t[r] \in Digits
        OBVIOUS
      <4>1. r \in p .. e - 1 /\ r - p + 1 \in int + 2 .. N
        BY <1>2, <3>1
      <4> QED BY <1>4, <3>1, <4>1
    <3>7. Past(t, p + int + 1, Digits) = e
      BY Zenon, <1>3, <3>5, <3>6, PastAt
    <3> QED BY <3>4, <3>5, <3>7
  <2> QED BY <2>1, <2>2
<1>8. Optional(t, e, {"e"}) = e
  BY <1>2, <1>3 DEF Optional
<1> HIDE DEF e
<1>9. NumberEnd(t, p) = e
  <2>1. NumberEnd(t, p) = IF Optional(t, dec, {"e"}) = dec THEN dec
                          ELSE Past(t, Optional(t, dec + 1, {"+", "-"}), Digits)
    BY Zenon, <1>5, <1>6 DEF NumberEnd
  <2> HIDE DEF dec
  <2> QED BY Zenon, <1>7, <1>8, <2>1
<1>10. t[p] \in Digits \cup {"-"} /\ p \in 1 .. Len(t)
  <2>1. t[p] = n[1] /\ p \in 1 .. Len(t)
    BY <1>2, <1>4 DEF e
  <2>2. n[1] \in Digits \cup {"-"}
    BY <1>1, <1>2
  <2> QED BY <2>1, <2>2
<1> QED BY <1>9, <1>10 DEF e, N

\* A number.
LEMMA NumberAt ==
    ASSUME NEW t \in Seq(Alphabet), NEW p, NEW n \in Seq(Alphabet), Here(t, p, n), IsNumber(n),
           Delimited(t, p + Len(n))
    PROVE  TokenAt(t, p) = Token("NUMBER", n, p + Len(n))
<1>1. NumberEnd(t, p) = p + Len(n) /\ p \in 1 .. Len(t) /\ t[p] \in Digits \cup {"-"}
  BY Zenon, NumberEndAt
<1>2. t[p] \notin Spaces /\ t[p] \notin DOMAIN Punctuation /\ t[p] # Quote /\ t[p] \notin Words
  BY <1>1 DEF Punctuation, Spaces, Words, Quote, Digits
<1>3. \A q : q = p + Len(n) => SubSeq(t, p, q - 1) = n
  BY Zenon, BetweenIs
<1>4. Past(t, p, Spaces) = p /\ ~(p > Len(t))
  BY Zenon, <1>1, <1>2, NoGap
<1>5. TokenAt(t, p) = Token("NUMBER", SubSeq(t, p, NumberEnd(t, p) - 1), NumberEnd(t, p))
  BY Zenon, <1>1, <1>2, <1>4 DEF TokenAt
<1> QED BY Zenon, <1>1, <1>3, <1>5

\* Backslashes are counted alike where the texts are alike.
LEMMA OddShift ==
    ASSUME NEW t, NEW a \in Nat, NEW u, NEW b \in Nat, NEW n \in Nat,
           \A i \in 0 .. n - 1 : t[a + i] = u[b + i]
    PROVE  \A d \in 0 .. n : Odd(t, a, a + d) <=> Odd(u, b, b + d)
<1> DEFINE wrong == {d \in 0 .. n : ~(Odd(t, a, a + d) <=> Odd(u, b, b + d))}
<1>1. SUFFICES ASSUME wrong # {} PROVE FALSE
  OBVIOUS
<1>2. wrong \subseteq Nat
  OBVIOUS
<1>3. PICK d \in wrong : \A x \in wrong : d <= x
  BY <1>1, <1>2, LeastNat
<1>4. d \in 0 .. n /\ d \in Nat /\ ~(Odd(t, a, a + d) <=> Odd(u, b, b + d))
  BY <1>2
<1>5. /\ Odd(t, a, a + d) <=> (a + d > a /\ t[a + d - 1] = Backslash /\ ~Odd(t, a, a + d - 1))
      /\ Odd(u, b, b + d) <=> (b + d > b /\ u[b + d - 1] = Backslash /\ ~Odd(u, b, b + d - 1))
  BY <1>4, OddIs
<1>6. CASE d = 0
  BY <1>4, <1>5, <1>6
<1>7. CASE d # 0
  <2>1. d - 1 \in 0 .. n /\ d - 1 \in 0 .. n - 1 /\ ~(d <= d - 1)
    BY <1>4, <1>7
  <2>2. Odd(t, a, a + (d - 1)) <=> Odd(u, b, b + (d - 1))
    BY Zenon, <1>3, <2>1
  <2>3. t[a + (d - 1)] = u[b + (d - 1)]
    BY <2>1
  <2>4. a + (d - 1) = a + d - 1 /\ b + (d - 1) = b + d - 1 /\ a + d > a /\ b + d > b
    BY <1>4, <1>7
  <2> HIDE DEF wrong
  <2> QED BY <1>4, <1>5, <2>2, <2>3, <2>4
<1> QED BY <1>6, <1>7

\* What is written between the quotes of a string
Spelled(w) == \E src \in Seq(Alphabet) : \E f : Written(src, f) /\ w = f[Len(src)]

Quoted(w) == <<Quote>> \o w \o <<Quote>>

\* json_serialize_append_string writes such a text.
LEMMA StringIsQuoted ==
    ASSUME NEW src \in Seq(Alphabet)
    PROVE  \E w \in Seq(Alphabet) : Spelled(w) /\ json_serialize_append_string(src) = Quoted(w)
<1>1. PICK f : Written(src, f)
  BY Zenon, WrittenExists
<1>2. json_serialize_append_string(src) = Quoted(f[Len(src)])
  BY Zenon, <1>1, EscapeIs DEF json_serialize_append_string, Quoted
<1>3. f[Len(src)] \in Seq(Alphabet)
  <2>1. Len(src) \in 0 .. Len(src)
    OBVIOUS
  <2> QED BY Zenon, <1>1, <2>1 DEF Written, WrittenTo
<1> QED BY Zenon, <1>1, <1>2, <1>3 DEF Spelled

\* Its symbols.
LEMMA QuotedIs ==
    ASSUME NEW w \in Seq(Alphabet)
    PROVE  /\ Quoted(w) \in Seq(Alphabet)
           /\ Len(Quoted(w)) = Len(w) + 2
           /\ Quoted(w)[1] = Quote
           /\ Quoted(w)[Len(w) + 2] = Quote
           /\ \A i \in 1 .. Len(w) : Quoted(w)[i + 1] = w[i]
<1> DEFINE q == Quote
<1>1. q \in Alphabet
  BY DEF Alphabet, Escapes
<1> HIDE DEF q
<1>2. ASSUME NEW u, u = <<q>> \o w \o <<q>>
      PROVE  /\ u \in Seq(Alphabet)
             /\ Len(u) = Len(w) + 2
             /\ u[1] = q
             /\ u[Len(w) + 2] = q
             /\ \A i \in 1 .. Len(w) : u[i + 1] = w[i]
  BY <1>1, <1>2
<1> QED BY Zenon, <1>2 DEF Quoted, q

\* Where a string is in a text, the escaped flag of the reader is set at each
\* quote in it and clear at the closing one.
FlagsAt(t, p, w) ==
    /\ t[p] = Quote
    /\ t[p + 1 + Len(w)] = Quote
    /\ \A i \in 1 .. Len(w) : t[p + i] = w[i]
    /\ ~Odd(t, p + 1, p + 1 + Len(w))
    /\ \A i \in 0 .. Len(w) - 1 : t[p + 1 + i] = Quote => Odd(t, p + 1, p + 1 + i)

LEMMA StringFlags ==
    ASSUME NEW t \in Seq(Alphabet), NEW p, NEW w \in Seq(Alphabet), Spelled(w), Here(t, p, Quoted(w))
    PROVE  /\ p \in 1 .. Len(t)
           /\ p + 1 + Len(w) <= Len(t)
           /\ FlagsAt(t, p, w)
<1> DEFINE u == Quoted(w)
           N == Len(w)
<1>1. /\ u \in Seq(Alphabet)
      /\ Len(u) = N + 2
      /\ u[1] = Quote
      /\ u[N + 2] = Quote
      /\ \A i \in 1 .. N : u[i + 1] = w[i]
  BY Zenon, QuotedIs
<1>0. PICK src \in Seq(Alphabet) : \E f : Written(src, f) /\ w = f[Len(src)]
  BY Zenon DEF Spelled
<1>2. PICK f : Written(src, f) /\ w = f[Len(src)]
  BY Zenon, <1>0
<1>3. Flagged(u, w)
  <2>1. Quotes(u, f[Len(src)])
    BY Zenon, <1>1, <1>2 DEF Quotes
  <2>2. Len(src) \in 0 .. Len(src)
    OBVIOUS
  <2> HIDE DEF u
  <2>3. \A k \in 0 .. Len(src) : Flagged(u, f[k])
    BY Zenon, <1>1, <1>2, <2>1, FlagsRight
  <2> QED BY Zenon, <1>2, <2>2, <2>3
<1>4. N \in Nat /\ Len(t) \in Nat
  OBVIOUS
<1>5. /\ p \in 1 .. Len(t) + 1 /\ p + Len(u) <= Len(t) + 1
      /\ \A i \in 1 .. Len(u) : t[p + i - 1] = u[i]
  BY DEF Here
<1>6. /\ ~Odd(u, 2, N + 2)
      /\ \A q \in 2 .. N + 1 : u[q] = Quote => Odd(u, 2, q)
  BY Zenon, <1>3 DEF Flagged
<1> HIDE DEF u, N
<1>7. \A i \in 0 .. N + 1 : t[p + i] = u[i + 1]
  <2> SUFFICES ASSUME NEW i \in 0 .. N + 1 PROVE t[p + i] = u[i + 1]
    OBVIOUS
  <2>1. i + 1 \in 1 .. Len(u) /\ p + (i + 1) - 1 = p + i
    BY <1>1, <1>4, <1>5
  <2> QED BY <1>5, <2>1
<1>8. /\ p \in 1 .. Len(t) /\ p + 1 + N <= Len(t)
      /\ t[p] = Quote /\ t[p + 1 + N] = Quote
  <2>1. p \in 1 .. Len(t) /\ p + 1 + N <= Len(t)
    BY <1>1, <1>4, <1>5
  <2>2. 0 \in 0 .. N + 1 /\ N + 1 \in 0 .. N + 1 /\ p + 0 = p /\ p + (N + 1) = p + 1 + N
        /\ 0 + 1 = 1 /\ N + 1 + 1 = N + 2
    BY <1>4, <1>5
  <2> QED BY <1>1, <1>7, <2>1, <2>2
<1>9. \A i \in 1 .. N : t[p + i] = w[i]
  BY <1>1, <1>4, <1>7
<1>10. \A i \in 0 .. N - 1 : t[p + 1 + i] = u[2 + i]
  <2> SUFFICES ASSUME NEW i \in 0 .. N - 1 PROVE t[p + 1 + i] = u[2 + i]
    OBVIOUS
  <2>1. i + 1 \in 0 .. N + 1 /\ p + (i + 1) = p + 1 + i /\ (i + 1) + 1 = 2 + i
    BY <1>4, <1>5
  <2> QED BY <1>7, <2>1
<1>11. \A d \in 0 .. N : Odd(t, p + 1, p + 1 + d) <=> Odd(u, 2, 2 + d)
  <2>1. p + 1 \in Nat /\ 2 \in Nat
    BY <1>5
  <2> QED BY ZenonT(60), <1>4, <1>10, <2>1, OddShift
<1>12. ~Odd(t, p + 1, p + 1 + N)
  <2>1. N \in 0 .. N /\ 2 + N = N + 2
    BY <1>4
  <2> QED BY <1>6, <1>11, <2>1
<1>13. ASSUME NEW i \in 0 .. N - 1, t[p + 1 + i] = Quote PROVE Odd(t, p + 1, p + 1 + i)
  <2>1. 2 + i \in 2 .. N + 1 /\ i \in 0 .. N
    BY <1>4
  <2>2. u[2 + i] = Quote
    BY Zenon, <1>10, <1>13
  <2> QED BY Zenon, <1>6, <1>11, <2>1, <2>2
<1>14. FlagsAt(t, p, w)
  BY Zenon, <1>8, <1>9, <1>12, <1>13 DEF FlagsAt, N
<1> QED BY <1>8, <1>14 DEF N

\* A string.
LEMMA StringAt ==
    ASSUME NEW t \in Seq(Alphabet), NEW p, NEW w \in Seq(Alphabet), Spelled(w), Here(t, p, Quoted(w))
    PROVE  TokenAt(t, p) = Token("STRING", w, p + Len(Quoted(w)))
<1> DEFINE end == p + 1 + Len(w)
<1>1. p \in 1 .. Len(t) /\ end <= Len(t) /\ FlagsAt(t, p, w)
  BY Zenon, StringFlags
<1>2. Len(w) \in Nat /\ Len(t) \in Nat /\ Len(Quoted(w)) = Len(w) + 2
  BY QuotedIs
<1>3. /\ t[p] = Quote /\ t[end] = Quote
      /\ \A i \in 1 .. Len(w) : t[p + i] = w[i]
      /\ ~Odd(t, p + 1, end)
      /\ \A i \in 0 .. Len(w) - 1 : t[p + 1 + i] = Quote => Odd(t, p + 1, p + 1 + i)
  BY Zenon, <1>1 DEF FlagsAt
<1>4. StringEnd(t, p + 1) = end
  <2> DEFINE quotes == {q \in p + 1 .. Len(t) : t[q] = Quote /\ ~Odd(t, p + 1, q)}
  <2>1. p + 1 \in Nat
    BY <1>1
  <2>2. StringEnd(t, p + 1) = IF quotes = {} THEN Len(t) + 1 ELSE Min(quotes)
    BY <2>1, StringEndIs
  <2>3. end \in quotes
    <3>1. end \in p + 1 .. Len(t)
      BY <1>1, <1>2
    <3> HIDE DEF end
    <3> QED BY Zenon, <1>3, <3>1
  <2>4. ASSUME NEW q \in quotes PROVE q \in Nat /\ end <= q
    <3>1. q \in p + 1 .. Len(t) /\ t[q] = Quote /\ ~Odd(t, p + 1, q)
      OBVIOUS
    <3>2. CASE q < end
      <4>1. q - (p + 1) \in 0 .. Len(w) - 1 /\ p + 1 + (q - (p + 1)) = q
        BY <1>1, <1>2, <3>1, <3>2
      <4> QED BY <1>3, <3>1, <4>1
    <3> QED BY <1>1, <1>2, <3>1, <3>2
  <2>5. Min(quotes) \in quotes /\ \A y \in quotes : Min(quotes) <= y
    <3> HIDE DEF quotes
    <3>1. quotes \subseteq Nat /\ quotes # {}
      BY <2>3, <2>4
    <3> QED BY <3>1, MinIs
  <2> DEFINE m == Min(quotes)
  <2> HIDE DEF quotes
  <2>6. m \in Nat /\ end <= m /\ m <= end
    BY <2>3, <2>4, <2>5
  <2>7. StringEnd(t, p + 1) = m
    BY <2>2, <2>3
  <2> HIDE DEF m
  <2> QED BY <1>1, <1>2, <2>6, <2>7
<1>5. t[p] \notin Spaces /\ t[p] \notin DOMAIN Punctuation
  BY <1>3 DEF Punctuation, Spaces, Quote
<1>6. SubSeq(t, p + 1, end - 1) = w
  <2>1. Here(t, p + 1, w)
    <3>1. p + 1 \in 1 .. Len(t) + 1 /\ p + 1 + Len(w) <= Len(t) + 1
      BY <1>1, <1>2
    <3>2. \A i \in 1 .. Len(w) : t[p + 1 + i - 1] = w[i]
      BY <1>1, <1>2, <1>3
    <3> QED BY Zenon, <3>1, <3>2 DEF Here
  <2>2. end = (p + 1) + Len(w)
    OBVIOUS
  <2> HIDE DEF end
  <2> QED BY <2>1, <2>2, BetweenIs
<1>7. ~(end > Len(t)) /\ end + 1 = p + Len(Quoted(w))
  BY <1>1, <1>2
<1> HIDE DEF end
<1>8. TokenAt(t, p) = Token("STRING", SubSeq(t, p + 1, end - 1), end + 1)
  BY Zenon, <1>1, <1>3, <1>4, <1>5, <1>7, NoGap DEF TokenAt
<1> QED BY Zenon, <1>6, <1>7, <1>8

-----------------------------------------------------------------------------
(***************************************************************************)
(* Texts that are read as a value, as a member of a container, or as what  *)
(* is left of one                                                          *)
(***************************************************************************)
ReadsValue(u, n, toks) ==
    \A t \in Seq(Alphabet), s \in Seq(Kinds), want \in {"value", "item"} : \A p :
        Here(t, p, u) /\ Delimited(t, p + Len(u)) =>
            Passes(t, p, s, want, p + Len(u), s, Back(s), n, toks)

ReadsMember(u, kind, n, toks) ==
    \A t \in Seq(Alphabet), s \in Seq(Kinds) : \A p :
        Here(t, p, u) /\ Delimited(t, p + Len(u)) =>
            Passes(t, p, Append(s, kind), First(kind), p + Len(u), Append(s, kind), "separator", n, toks)

ReadsRest(u, kind, n, toks) ==
    \A t \in Seq(Alphabet), s \in Seq(Kinds) : \A p :
        Here(t, p, u) /\ Delimited(t, p + Len(u)) =>
            Passes(t, p, Append(s, kind), "separator", p + Len(u), s, Back(s), n, toks)

\* A value is a member of an array.
LEMMA ValueIsMember ==
    ASSUME NEW u, NEW n, NEW toks, ReadsValue(u, n, toks)
    PROVE  ReadsMember(u, "array", n, toks)
<1> SUFFICES ASSUME NEW t \in Seq(Alphabet), NEW s \in Seq(Kinds), NEW p,
                    Here(t, p, u), Delimited(t, p + Len(u))
             PROVE  Passes(t, p, Append(s, "array"), First("array"), p + Len(u), Append(s, "array"), "separator", n, toks)
  BY Zenon DEF ReadsMember
<1>1. "array" \in Kinds /\ First("array") = "item"
  BY DEF Kinds, First
<1>2. Append(s, "array") \in Seq(Kinds) /\ Append(s, "array") # <<>>
  BY Zenon, <1>1, CallIs
<1>3. Back(Append(s, "array")) = "separator"
  BY Zenon, <1>2 DEF Back
<1>4. "item" \in {"value", "item"}
  OBVIOUS
<1> QED BY Zenon, <1>1, <1>2, <1>3, <1>4 DEF ReadsValue

\* A string ...
LEMMA ReadsString ==
    ASSUME NEW w \in Seq(Alphabet), Spelled(w)
    PROVE  ReadsValue(Quoted(w), Counts(1, 0, 0), <<Lexeme("STRING", w)>>)
<1> SUFFICES ASSUME NEW t \in Seq(Alphabet), NEW s \in Seq(Kinds), NEW want \in {"value", "item"}, NEW p,
                    Here(t, p, Quoted(w))
             PROVE  Passes(t, p, s, want, p + Len(Quoted(w)), s, Back(s), Counts(1, 0, 0), <<Lexeme("STRING", w)>>)
  BY Zenon DEF ReadsValue
<1>1. TokenAt(t, p) = Token("STRING", w, p + Len(Quoted(w)))
  BY Zenon, StringAt
<1>2. /\ "STRING" \in {"STRING", "NUMBER", "BOOLEAN", "NULL"} /\ "STRING" \in TokenTypes
      /\ "STRING" \notin {"EOF", "NONE"} /\ want \notin {"SUCCESS", "ERROR_INVALID_INPUT"}
      /\ CountsOf("STRING") = Counts(1, 0, 0)
  BY DEF TokenTypes, CountsOf
<1>3. Turns(s, want, "STRING", s, Back(s))
  BY Zenon, <1>2, TurnsScalar
<1>4. Passes(t, p, s, want, p + Len(Quoted(w)), s, Back(s), CountsOf("STRING"), <<Lexeme("STRING", w)>>)
  BY Zenon, <1>1, <1>2, <1>3, PassesToken
<1> QED BY Zenon, <1>2, <1>4

\* ... a number ...
LEMMA ReadsNumber ==
    ASSUME NEW u \in Seq(Alphabet), IsNumber(u)
    PROVE  ReadsValue(u, Counts(0, 1, 0), <<Lexeme("NUMBER", u)>>)
<1> SUFFICES ASSUME NEW t \in Seq(Alphabet), NEW s \in Seq(Kinds), NEW want \in {"value", "item"}, NEW p,
                    Here(t, p, u), Delimited(t, p + Len(u))
             PROVE  Passes(t, p, s, want, p + Len(u), s, Back(s), Counts(0, 1, 0), <<Lexeme("NUMBER", u)>>)
  BY Zenon DEF ReadsValue
<1>1. TokenAt(t, p) = Token("NUMBER", u, p + Len(u))
  BY Zenon, NumberAt
<1>2. /\ "NUMBER" \in {"STRING", "NUMBER", "BOOLEAN", "NULL"} /\ "NUMBER" \in TokenTypes
      /\ "NUMBER" \notin {"EOF", "NONE"} /\ want \notin {"SUCCESS", "ERROR_INVALID_INPUT"}
      /\ CountsOf("NUMBER") = Counts(0, 1, 0)
  BY DEF TokenTypes, CountsOf
<1>3. Turns(s, want, "NUMBER", s, Back(s))
  BY Zenon, <1>2, TurnsScalar
<1>4. Passes(t, p, s, want, p + Len(u), s, Back(s), CountsOf("NUMBER"), <<Lexeme("NUMBER", u)>>)
  BY Zenon, <1>1, <1>2, <1>3, PassesToken
<1> QED BY Zenon, <1>2, <1>4

\* A text of one symbol is where that symbol is.
LEMMA HereOne ==
    ASSUME NEW t \in Seq(Alphabet), NEW p, NEW c, Here(t, p, <<c>>)
    PROVE  p \in 1 .. Len(t) /\ t[p] = c /\ p + Len(<<c>>) = p + 1
<1>1. /\ p \in 1 .. Len(t) + 1 /\ p + 1 <= Len(t) + 1 /\ Len(<<c>>) = 1
      /\ \A i \in 1 .. 1 : t[p + i - 1] = c
  BY DEF Here
<1>2. t[p + 1 - 1] = c /\ p + 1 - 1 = p
  BY <1>1
<1> QED BY <1>1, <1>2

\* ... and a word.
LEMMA ReadsWord ==
    ASSUME NEW c \in Words
    PROVE  ReadsValue(<<c>>, Counts(0, 1, 0), <<Lexeme(IF c = "null" THEN "NULL" ELSE "BOOLEAN", <<c>>)>>)
<1> DEFINE type == IF c = "null" THEN "NULL" ELSE "BOOLEAN"
<1>1. /\ type \in {"STRING", "NUMBER", "BOOLEAN", "NULL"} /\ type \in TokenTypes /\ type \notin {"EOF", "NONE"}
      /\ CountsOf(type) = Counts(0, 1, 0)
  BY DEF TokenTypes, CountsOf
<1>0. <<c>> \in Seq(Alphabet)
  <2>1. c \in Alphabet
    BY DEF Alphabet
  <2> QED BY Zenon, <2>1, OneIs
<1> SUFFICES ASSUME NEW t \in Seq(Alphabet), NEW s \in Seq(Kinds), NEW want \in {"value", "item"}, NEW p,
                    Here(t, p, <<c>>)
             PROVE  Passes(t, p, s, want, p + Len(<<c>>), s, Back(s), Counts(0, 1, 0), <<Lexeme(type, <<c>>)>>)
  BY Zenon DEF ReadsValue
<1>2. p \in 1 .. Len(t) /\ t[p] = c /\ p + Len(<<c>>) = p + 1
  BY Zenon, HereOne
<1>3. TokenAt(t, p) = Token(type, <<c>>, p + 1)
  BY Zenon, <1>2, WordAt
<1> HIDE DEF type
<1>4. want \notin {"SUCCESS", "ERROR_INVALID_INPUT"}
  OBVIOUS
<1>5. Turns(s, want, type, s, Back(s))
  BY Zenon, <1>1, TurnsScalar
<1>6. Passes(t, p, s, want, p + 1, s, Back(s), CountsOf(type), <<Lexeme(type, <<c>>)>>)
  BY Zenon, <1>0, <1>1, <1>3, <1>4, <1>5, PassesToken
<1> QED BY Zenon, <1>1, <1>2, <1>6

\* The types of brackets, colons and commas.
LEMMA PunctuationTypes ==
    \A c \in DOMAIN Punctuation : Punctuation[c] \in TokenTypes /\ Punctuation[c] \notin {"EOF", "NONE"}
BY DEF Punctuation, TokenTypes

\* A bracket, a colon or a comma.
LEMMA PassesSymbol ==
    ASSUME NEW t \in Seq(Alphabet), NEW p, NEW c, Here(t, p, <<c>>), c \in DOMAIN Punctuation,
           NEW type, type = Punctuation[c],
           NEW calls, NEW want, want \notin {"SUCCESS", "ERROR_INVALID_INPUT"},
           NEW calls2, NEW want2, Turns(calls, want, type, calls2, want2)
    PROVE  Passes(t, p, calls, want, p + Len(<<c>>), calls2, want2, CountsOf(type), <<Lexeme(type, <<>>)>>)
<1>1. p \in 1 .. Len(t) /\ t[p] = c /\ p + Len(<<c>>) = p + 1
  BY Zenon, HereOne
<1>2. TokenAt(t, p) = Token(type, <<>>, p + 1)
  BY Zenon, <1>1, PunctuationAt
<1>3. type \in TokenTypes /\ type \notin {"EOF", "NONE"} /\ <<>> \in Seq(Alphabet)
  <2>1. <<>> \in Seq(Alphabet)
    OBVIOUS
  <2> QED BY Zenon, <2>1, PunctuationTypes
<1>4. Passes(t, p, calls, want, p + 1, calls2, want2, CountsOf(type), <<Lexeme(type, <<>>)>>)
  BY Zenon, <1>2, <1>3, PassesToken
<1> QED BY Zenon, <1>1, <1>4

LEMMA LenOne == \A c : Len(<<c>>) = 1
OBVIOUS

\* White space is a text.
LEMMA GapIsText == \A g \in Seq(Spaces) : g \in Seq(Alphabet) /\ Len(g) \in Nat
<1>1. Spaces \subseteq Alphabet
  BY DEF Alphabet
<1> QED BY <1>1

LEMMA PunctuationIs ==
    /\ {"{", "}", "[", "]", ":", ","} = DOMAIN Punctuation
    /\ Punctuation["{"] = "OBJECT_START" /\ Punctuation["}"] = "OBJECT_END"
    /\ Punctuation["["] = "ARRAY_START" /\ Punctuation["]"] = "ARRAY_END"
    /\ Punctuation[":"] = "COLON" /\ Punctuation[","] = "COMMA"
BY DEF Punctuation

\* The brackets of a container.
LEMMA BracketIs ==
    ASSUME NEW kind \in Kinds
    PROVE  /\ Opening[kind] \in DOMAIN Punctuation /\ Punctuation[Opening[kind]] = Begins[kind]
           /\ Closing[kind] \in DOMAIN Punctuation /\ Punctuation[Closing[kind]] = Ends[kind]
<1>1. CASE kind = "object"
  <2>1. Opening[kind] = "{" /\ Closing[kind] = "}" /\ Begins[kind] = "OBJECT_START" /\ Ends[kind] = "OBJECT_END"
    BY <1>1 DEF Opening, Closing, Begins, Ends
  <2> QED BY <2>1, PunctuationIs
<1>2. CASE kind = "array"
  <2>1. Opening[kind] = "[" /\ Closing[kind] = "]" /\ Begins[kind] = "ARRAY_START" /\ Ends[kind] = "ARRAY_END"
    BY <1>2 DEF Opening, Closing, Begins, Ends
  <2> QED BY <2>1, PunctuationIs
<1> QED BY <1>1, <1>2 DEF Kinds

\* Brackets are symbols.
LEMMA BracketSymbol == \A kind \in Kinds : Opening[kind] \in Alphabet /\ Closing[kind] \in Alphabet
<1>1. {"{", "}", "[", "]"} \subseteq Alphabet
  BY DEF Alphabet
<1>2. /\ Opening["object"] = "{" /\ Closing["object"] = "}"
      /\ Opening["array"] = "[" /\ Closing["array"] = "]"
  BY DEF Opening, Closing
<1> QED BY <1>1, <1>2 DEF Kinds

\* What the tokens between values count as.
LEMMA BracketCounts ==
    \A kind \in Kinds :
        /\ CountsOf(Begins[kind]) = Counts(0, 0, 1)
        /\ CountsOf(Ends[kind]) = NoStats
        /\ First(kind) \notin {"SUCCESS", "ERROR_INVALID_INPUT"}
BY DEF Kinds, Begins, Ends, CountsOf, NoStats, First

\* A comma and a colon.
LEMMA CommaIs ==
    /\ "," \in DOMAIN Punctuation /\ Punctuation[","] = "COMMA" /\ CountsOf("COMMA") = NoStats
    /\ ":" \in DOMAIN Punctuation /\ Punctuation[":"] = "COLON" /\ CountsOf("COLON") = NoStats
BY PunctuationIs DEF CountsOf, NoStats

\* The tokens of brackets, commas and colons.
Mark(type) == <<Lexeme(type, <<>>)>>

LEMMA MarkIs ==
    /\ \A kind \in Kinds : Mark(Begins[kind]) \in Seq(Lexemes) /\ Mark(Ends[kind]) \in Seq(Lexemes)
    /\ Mark("COMMA") \in Seq(Lexemes) /\ Mark("COLON") \in Seq(Lexemes)
<1>1. \A kind \in Kinds : Begins[kind] \in TokenTypes /\ Ends[kind] \in TokenTypes
  BY DEF Kinds, Begins, Ends, TokenTypes
<1>2. "COMMA" \in TokenTypes /\ "COLON" \in TokenTypes
  BY DEF TokenTypes
<1>3. \A type \in TokenTypes : Mark(type) \in Seq(Lexemes)
  <2>1. <<>> \in Seq(Alphabet)
    OBVIOUS
  <2>2. \A type \in TokenTypes : Lexeme(type, <<>>) \in Lexemes
    BY <2>1 DEF Lexeme, Lexemes
  <2> QED BY <2>2 DEF Mark
<1> QED BY Zenon, <1>1, <1>2, <1>3

\* The end of a container.
LEMMA PassesEnd ==
    ASSUME NEW t \in Seq(Alphabet), NEW p, NEW g \in Seq(Spaces), NEW kind \in Kinds,
           Here(t, p, g \o <<Closing[kind]>>),
           NEW s \in Seq(Kinds), NEW want \in {First(kind), "separator"}
    PROVE  Passes(t, p, Append(s, kind), want, p + Len(g \o <<Closing[kind]>>), s, Back(s), NoStats, Mark(Ends[kind]))
<1> DEFINE c == Closing[kind]
           r == p + Len(g)
           q == p + Len(g \o <<c>>)
<1>1. g \in Seq(Alphabet) /\ Len(g) \in Nat /\ <<c>> \in Seq(Alphabet) /\ Len(<<c>>) = 1
  <2>1. c \in Alphabet
    BY Zenon, BracketSymbol
  <2> HIDE DEF c
  <2> QED BY Zenon, <2>1, GapIsText, OneIs, LenOne
<1>2. Here(t, p, g) /\ Here(t, r, <<c>>) /\ q = r + Len(<<c>>)
  <2>0. Here(t, p, g \o <<c>>)
    OBVIOUS
  <2> HIDE DEF c
  <2>1. Here(t, p, g) /\ Here(t, r, <<c>>)
    BY Zenon, <1>1, <2>0, HereJoin
  <2>2. q = r + Len(<<c>>)
    <3>1. Len(g \o <<c>>) = Len(g) + Len(<<c>>)
      BY Zenon, <1>1, JoinLen
    <3> QED BY <1>1, <2>1, <3>1 DEF Here
  <2> QED BY Zenon, <2>1, <2>2
<1>3. Turns(Append(s, kind), want, Ends[kind], s, Back(s))
  BY Zenon, TurnsClose
<1>4. /\ c \in DOMAIN Punctuation /\ Ends[kind] = Punctuation[c]
      /\ CountsOf(Ends[kind]) = NoStats /\ want \notin {"SUCCESS", "ERROR_INVALID_INPUT"}
  <2>1. "separator" \notin {"SUCCESS", "ERROR_INVALID_INPUT"}
    OBVIOUS
  <2> QED BY Zenon, <2>1, BracketIs, BracketCounts
<1> HIDE DEF c
<1>5. Passes(t, r, Append(s, kind), want, r + Len(<<c>>), s, Back(s), NoStats, Mark(Ends[kind]))
  BY Zenon, <1>2, <1>3, <1>4, PassesSymbol DEF Mark
<1>6. TokenAt(t, p) = TokenAt(t, r)
  BY Zenon, <1>2, TokenPastGap
<1>7. q # r
  BY <1>1, <1>2 DEF Here
<1> HIDE DEF q, r
<1>8. Passes(t, p, Append(s, kind), want, q, s, Back(s), NoStats, Mark(Ends[kind]))
  BY Zenon, <1>2, <1>5, <1>6, <1>7, PassesGap
<1> QED BY <1>8 DEF q, c

\* What follows a value in a container
StartsDelimited(u) == u # <<>> /\ u[1] \in Delimiters

LEMMA DelimitedBy ==
    ASSUME NEW t \in Seq(Alphabet), NEW p, NEW u \in Seq(Alphabet), Here(t, p, u), StartsDelimited(u)
    PROVE  Delimited(t, p)
<1>1. /\ p \in 1 .. Len(t) + 1 /\ 1 \in 1 .. Len(u) /\ p + 1 - 1 = p
      /\ \A i \in 1 .. Len(u) : t[p + i - 1] = u[i]
  BY DEF Here, StartsDelimited
<1>2. t[p] = u[1]
  BY <1>1
<1> QED BY <1>2 DEF Delimited, StartsDelimited

\* A member, and what is left of its container.
LEMMA PassesMember ==
    ASSUME NEW t \in Seq(Alphabet), NEW p, NEW g \in Seq(Spaces), NEW kind \in Kinds, NEW s \in Seq(Kinds),
           NEW x \in Seq(Alphabet), x # <<>>, NEW n \in CountSet, NEW a \in Seq(Lexemes), ReadsMember(x, kind, n, a),
           NEW y \in Seq(Alphabet), StartsDelimited(y), NEW m \in CountSet, NEW b \in Seq(Lexemes), ReadsRest(y, kind, m, b),
           Here(t, p, g \o x \o y), Delimited(t, p + Len(g \o x \o y))
    PROVE  Passes(t, p, Append(s, kind), First(kind), p + Len(g \o x \o y), s, Back(s), Added(n, m), a \o b)
<1> DEFINE r == p + Len(g)
           q == p + Len(g \o x)
           e == p + Len(g \o x \o y)
           sk == Append(s, kind)
<1>1. g \in Seq(Alphabet) /\ g \o x \in Seq(Alphabet)
  BY Zenon, GapIsText, JoinIs
<1>2. Here(t, p, g \o x) /\ Here(t, q, y)
  BY Zenon, <1>1, HereJoin
<1>3. Here(t, p, g) /\ Here(t, r, x)
  BY Zenon, <1>1, <1>2, HereJoin
<1>11. e = q + Len(y) /\ q = r + Len(x)
  <2>1. /\ Len((g \o x) \o y) = Len(g \o x) + Len(y) /\ Len(g \o x) = Len(g) + Len(x)
        /\ Len(g) \in Nat /\ Len(x) \in Nat /\ Len(y) \in Nat
    BY Zenon, <1>1, JoinLen
  <2>2. p \in Nat
    BY <1>3 DEF Here
  <2> QED BY <2>1, <2>2
<1>4. Delimited(t, q)
  BY Zenon, <1>2, DelimitedBy
<1>5. Passes(t, r, sk, First(kind), q, sk, "separator", n, a)
  BY Zenon, <1>3, <1>4, <1>11 DEF ReadsMember
<1>6. Passes(t, q, sk, "separator", e, s, Back(s), m, b)
  BY Zenon, <1>2, <1>11 DEF ReadsRest
<1>7. TokenAt(t, p) = TokenAt(t, r)
  BY Zenon, <1>3, TokenPastGap
<1>8. q # r
  BY <1>3, <1>11 DEF Here
<1> HIDE DEF q, r, e, sk
<1>9. Passes(t, p, sk, First(kind), q, sk, "separator", n, a)
  BY Zenon, <1>5, <1>7, <1>8, PassesGap
<1>10. Passes(t, p, sk, First(kind), e, s, Back(s), Added(n, m), a \o b)
  BY Zenon, <1>6, <1>9, PassesThen
<1> QED BY <1>10 DEF e, sk

\* What is in a container, with its end
ReadsBody(z, kind, n, toks) ==
    \A t \in Seq(Alphabet), s \in Seq(Kinds) : \A p :
        Here(t, p, z) /\ Delimited(t, p + Len(z)) =>
            Passes(t, p, Append(s, kind), First(kind), p + Len(z), s, Back(s), n, toks)

\* Nothing, ...
LEMMA BodyEnds ==
    ASSUME NEW kind \in Kinds, NEW g \in Seq(Spaces)
    PROVE  ReadsBody(g \o <<Closing[kind]>>, kind, NoStats, Mark(Ends[kind]))
<1> SUFFICES ASSUME NEW t \in Seq(Alphabet), NEW s \in Seq(Kinds), NEW p, Here(t, p, g \o <<Closing[kind]>>)
             PROVE  Passes(t, p, Append(s, kind), First(kind), p + Len(g \o <<Closing[kind]>>), s, Back(s),
                           NoStats, Mark(Ends[kind]))
  BY Zenon DEF ReadsBody
<1>1. First(kind) \in {First(kind), "separator"}
  OBVIOUS
<1> QED BY Zenon, <1>1, PassesEnd

\* ... or a member and what is left.
LEMMA BodyMember ==
    ASSUME NEW kind \in Kinds, NEW g \in Seq(Spaces),
           NEW x \in Seq(Alphabet), x # <<>>, NEW n \in CountSet, NEW a \in Seq(Lexemes), ReadsMember(x, kind, n, a),
           NEW y \in Seq(Alphabet), StartsDelimited(y), NEW m \in CountSet, NEW b \in Seq(Lexemes), ReadsRest(y, kind, m, b)
    PROVE  ReadsBody(g \o x \o y, kind, Added(n, m), a \o b)
<1> SUFFICES ASSUME NEW t \in Seq(Alphabet), NEW s \in Seq(Kinds), NEW p,
                    Here(t, p, g \o x \o y), Delimited(t, p + Len(g \o x \o y))
             PROVE  Passes(t, p, Append(s, kind), First(kind), p + Len(g \o x \o y), s, Back(s), Added(n, m), a \o b)
  BY Zenon DEF ReadsBody
<1> QED BY Zenon, PassesMember

\* A symbol in front of a text.
LEMMA HereBehind ==
    ASSUME NEW t \in Seq(Alphabet), NEW p, NEW c \in Alphabet, NEW z \in Seq(Alphabet), Here(t, p, <<c>> \o z)
    PROVE  Here(t, p, <<c>>) /\ Here(t, p + Len(<<c>>), z) /\ p + Len(<<c>> \o z) = p + Len(<<c>>) + Len(z)
<1>1. <<c>> \in Seq(Alphabet)
  BY Zenon, OneIs
<1>2. Here(t, p, <<c>>) /\ Here(t, p + Len(<<c>>), z)
  BY Zenon, <1>1, HereJoin
<1>3. /\ Len(<<c>> \o z) = Len(<<c>>) + Len(z) /\ Len(<<c>>) \in Nat /\ Len(z) \in Nat
      /\ p \in Nat
  BY <1>1, <1>2, JoinLen DEF Here
<1> QED BY <1>2, <1>3

\* A container ...
LEMMA ReadsContainer ==
    ASSUME NEW kind \in Kinds, NEW z \in Seq(Alphabet), NEW n \in CountSet, NEW toks \in Seq(Lexemes),
           ReadsBody(z, kind, n, toks)
    PROVE  ReadsValue(<<Opening[kind]>> \o z, Added(Counts(0, 0, 1), n), Mark(Begins[kind]) \o toks)
<1> DEFINE c == Opening[kind]
<1> SUFFICES ASSUME NEW t \in Seq(Alphabet), NEW s \in Seq(Kinds), NEW want \in {"value", "item"}, NEW p,
                    Here(t, p, <<c>> \o z), Delimited(t, p + Len(<<c>> \o z))
             PROVE  Passes(t, p, s, want, p + Len(<<c>> \o z), s, Back(s),
                           Added(Counts(0, 0, 1), n), Mark(Begins[kind]) \o toks)
  BY Zenon DEF ReadsValue
<1> DEFINE q == p + Len(<<c>>)
<1>0. c \in Alphabet
  BY Zenon, BracketSymbol
<1>1. /\ c \in DOMAIN Punctuation /\ Begins[kind] = Punctuation[c]
      /\ CountsOf(Begins[kind]) = Counts(0, 0, 1) /\ Counts(0, 0, 1) \in CountSet
      /\ Mark(Begins[kind]) \in Seq(Lexemes)
      /\ want \notin {"SUCCESS", "ERROR_INVALID_INPUT"}
  BY Zenon, BracketIs, BracketCounts, MarkIs, CountsOfIs
<1> HIDE DEF c
<1>2. Here(t, p, <<c>>) /\ Here(t, q, z) /\ p + Len(<<c>> \o z) = q + Len(z)
  BY Zenon, <1>0, HereBehind
<1>3. Turns(s, want, Begins[kind], Append(s, kind), First(kind))
  BY Zenon, TurnsOpen
<1>4. Passes(t, p, s, want, q, Append(s, kind), First(kind), Counts(0, 0, 1), Mark(Begins[kind]))
  BY Zenon, <1>1, <1>2, <1>3, PassesSymbol DEF Mark
<1>5. Passes(t, q, Append(s, kind), First(kind), q + Len(z), s, Back(s), n, toks)
  BY Zenon, <1>2 DEF ReadsBody
<1> HIDE DEF q
<1>6. Passes(t, p, s, want, q + Len(z), s, Back(s), Added(Counts(0, 0, 1), n), Mark(Begins[kind]) \o toks)
  BY Zenon, <1>1, <1>4, <1>5, PassesThen
<1> QED BY Zenon, <1>2, <1>6

\* ... and what is left of one behind a member: its end ...
LEMMA ReadsEnd ==
    ASSUME NEW kind \in Kinds, NEW g \in Seq(Spaces)
    PROVE  ReadsRest(g \o <<Closing[kind]>>, kind, NoStats, Mark(Ends[kind]))
<1> SUFFICES ASSUME NEW t \in Seq(Alphabet), NEW s \in Seq(Kinds), NEW p, Here(t, p, g \o <<Closing[kind]>>)
             PROVE  Passes(t, p, Append(s, kind), "separator", p + Len(g \o <<Closing[kind]>>), s, Back(s),
                           NoStats, Mark(Ends[kind]))
  BY Zenon DEF ReadsRest
<1>1. "separator" \in {First(kind), "separator"}
  OBVIOUS
<1> QED BY Zenon, <1>1, PassesEnd

\* ... or a comma and more.
LEMMA ReadsMore ==
    ASSUME NEW kind \in Kinds, NEW z \in Seq(Alphabet), NEW n \in CountSet, NEW toks \in Seq(Lexemes),
           ReadsBody(z, kind, n, toks), NEW c, c = ","
    PROVE  ReadsRest(<<c>> \o z, kind, Added(NoStats, n), Mark("COMMA") \o toks)
<1> SUFFICES ASSUME NEW t \in Seq(Alphabet), NEW s \in Seq(Kinds), NEW p,
                    Here(t, p, <<c>> \o z), Delimited(t, p + Len(<<c>> \o z))
             PROVE  Passes(t, p, Append(s, kind), "separator", p + Len(<<c>> \o z), s, Back(s),
                           Added(NoStats, n), Mark("COMMA") \o toks)
  BY Zenon DEF ReadsRest
<1> DEFINE q == p + Len(<<c>>)
<1>0. c \in Alphabet
  BY DEF Alphabet
<1>1. /\ c \in DOMAIN Punctuation /\ "COMMA" = Punctuation[c]
      /\ CountsOf("COMMA") = NoStats /\ NoStats \in CountSet
      /\ Mark("COMMA") \in Seq(Lexemes)
      /\ "separator" \notin {"SUCCESS", "ERROR_INVALID_INPUT"}
  <2>1. "separator" \notin {"SUCCESS", "ERROR_INVALID_INPUT"}
    OBVIOUS
  <2> QED BY Zenon, <2>1, CommaIs, MarkIs, CountsOfIs
<1>2. Here(t, p, <<c>>) /\ Here(t, q, z) /\ p + Len(<<c>> \o z) = q + Len(z)
  BY ZenonT(60), <1>0, HereBehind
<1>3. Turns(Append(s, kind), "separator", "COMMA", Append(s, kind), First(kind))
  BY Zenon, TurnsComma
<1>4. Passes(t, p, Append(s, kind), "separator", q, Append(s, kind), First(kind), NoStats, Mark("COMMA"))
  BY Zenon, <1>1, <1>2, <1>3, PassesSymbol DEF Mark
<1>5. Passes(t, q, Append(s, kind), First(kind), q + Len(z), s, Back(s), n, toks)
  BY Zenon, <1>2 DEF ReadsBody
<1> HIDE DEF q
<1>6. Passes(t, p, Append(s, kind), "separator", q + Len(z), s, Back(s), Added(NoStats, n), Mark("COMMA") \o toks)
  BY Zenon, <1>1, <1>4, <1>5, PassesThen
<1> QED BY Zenon, <1>2, <1>6

\* What is left of a container starts with something that ends the member
\* before it.
LEMMA StartsIs ==
    /\ \A kind \in Kinds : \A g \in Seq(Spaces) : StartsDelimited(g \o <<Closing[kind]>>)
    /\ \A z \in Seq(Alphabet) : StartsDelimited(<<",">> \o z)
<1>1. ASSUME NEW kind \in Kinds, NEW g \in Seq(Spaces) PROVE StartsDelimited(g \o <<Closing[kind]>>)
  <2> DEFINE c == Closing[kind]
  <2>1. c \in {"]", "}"} /\ c \in Alphabet
    <3>1. Closing["object"] = "}" /\ Closing["array"] = "]"
      BY DEF Closing
    <3>2. c \in {"]", "}"}
      BY <3>1 DEF Kinds
    <3>3. c \in Alphabet
      BY Zenon, BracketSymbol
    <3> QED BY Zenon, <3>2, <3>3
  <2> HIDE DEF c
  <2>2. Spaces \subseteq Delimiters /\ c \in Delimiters
    BY <2>1 DEF Delimiters
  <2>3. g \o <<c>> # <<>> /\ (g \o <<c>>)[1] \in Spaces \cup {c}
    <3>1. CASE g = <<>>
      BY <3>1
    <3>2. CASE g # <<>>
      <4>1. g \in Seq(Alphabet) /\ <<c>> \in Seq(Alphabet)
        BY Zenon, <2>1, GapIsText, OneIs
      <4>2. 1 \in 1 .. Len(g) /\ g[1] \in Spaces
        BY <3>2
      <4>3. (g \o <<c>>)[1] = g[1] /\ Len(g \o <<c>>) = Len(g) + Len(<<c>>)
        BY <4>1, <4>2, JoinIs
      <4> QED BY <4>1, <4>2, <4>3
    <3> QED BY <3>1, <3>2
  <2>4. StartsDelimited(g \o <<c>>)
    BY Zenon, <2>2, <2>3 DEF StartsDelimited
  <2> QED BY <2>4 DEF c
<1>2. ASSUME NEW z \in Seq(Alphabet), NEW c \in Alphabet PROVE <<c>> \o z # <<>> /\ (<<c>> \o z)[1] = c
  OBVIOUS
<1>3. "," \in Alphabet /\ "," \in Delimiters
  BY DEF Alphabet, Delimiters
<1>4. ASSUME NEW z \in Seq(Alphabet) PROVE StartsDelimited(<<",">> \o z)
  BY Zenon, <1>2, <1>3 DEF StartsDelimited
<1> QED BY Zenon, <1>1, <1>4

\* A key, a colon and a value.
LEMMA ReadsPair ==
    ASSUME NEW w \in Seq(Alphabet), Spelled(w), NEW c, c = ":", NEW g \in Seq(Spaces),
           NEW x \in Seq(Alphabet), x # <<>>, NEW n \in CountSet, NEW a \in Seq(Lexemes), ReadsValue(x, n, a)
    PROVE  ReadsMember(Quoted(w) \o (<<c>> \o (g \o x)), "object",
                       Added(Counts(1, 0, 0), Added(NoStats, n)), <<Lexeme("STRING", w)>> \o (Mark("COLON") \o a))
<1> DEFINE k == Quoted(w)
           u == k \o (<<c>> \o (g \o x))
           toks == <<Lexeme("STRING", w)>>
<1>1. "object" \in Kinds /\ First("object") = "key" /\ "value" \in {"value", "item"}
  BY DEF Kinds, First
<1> SUFFICES ASSUME NEW t \in Seq(Alphabet), NEW s \in Seq(Kinds), NEW p,
                    Here(t, p, u), Delimited(t, p + Len(u))
             PROVE  Passes(t, p, Append(s, "object"), "key", p + Len(u), Append(s, "object"), "separator",
                           Added(Counts(1, 0, 0), Added(NoStats, n)), toks \o (Mark("COLON") \o a))
  BY Zenon, <1>1 DEF ReadsMember
<1> DEFINE sk == Append(s, "object")
           o == p + Len(k)
           r == o + Len(<<c>>)
           v == r + Len(g)
           e == v + Len(x)
<1>2. c \in Alphabet /\ <<c>> \in Seq(Alphabet) /\ g \in Seq(Alphabet) /\ k \in Seq(Alphabet)
  <2>1. c \in Alphabet
    BY DEF Alphabet
  <2> QED BY Zenon, <2>1, OneIs, GapIsText, QuotedIs
<1>3. g \o x \in Seq(Alphabet) /\ <<c>> \o (g \o x) \in Seq(Alphabet)
  BY Zenon, <1>2, JoinIs
<1>4. Here(t, p, k) /\ Here(t, o, <<c>> \o (g \o x))
  BY Zenon, <1>2, <1>3, HereJoin
<1>5. Here(t, o, <<c>>) /\ Here(t, r, g \o x)
  BY Zenon, <1>2, <1>3, <1>4, HereBehind
<1>6. Here(t, r, g) /\ Here(t, v, x)
  BY Zenon, <1>2, <1>5, HereJoin
<1>7. p + Len(u) = e
  <2>1. /\ Len(k \o (<<c>> \o (g \o x))) = Len(k) + Len(<<c>> \o (g \o x))
        /\ Len(<<c>> \o (g \o x)) = Len(<<c>>) + Len(g \o x)
        /\ Len(g \o x) = Len(g) + Len(x)
        /\ Len(k) \in Nat /\ Len(<<c>>) \in Nat /\ Len(g) \in Nat /\ Len(x) \in Nat
    BY Zenon, <1>2, <1>3, JoinLen
  <2>2. p \in Nat
    BY <1>4 DEF Here
  <2> QED BY <2>1, <2>2
<1>8. e # v
  <2>1. v \in Nat /\ Len(x) \in Nat /\ Len(x) # 0
    BY <1>2, <1>6 DEF Here
  <2> HIDE DEF v
  <2> QED BY <2>1
<1>9. Delimited(t, e)
  BY Zenon, <1>7
<1> HIDE DEF u
<1>10. sk \in Seq(Kinds) /\ sk # <<>>
  BY Zenon, <1>1, CallIs
<1>11. Back(sk) = "separator"
  BY Zenon, <1>10 DEF Back
<1>12. "key" \notin {"SUCCESS", "ERROR_INVALID_INPUT"} /\ "colon" \notin {"SUCCESS", "ERROR_INVALID_INPUT"}
       /\ "STRING" \in TokenTypes /\ "STRING" \notin {"EOF", "NONE"}
       /\ CountsOf("STRING") = Counts(1, 0, 0)
  BY DEF TokenTypes, CountsOf
<1>13. TokenAt(t, p) = Token("STRING", w, o)
  BY Zenon, <1>4, StringAt
<1> HIDE DEF sk
<1>14. Turns(sk, "key", "STRING", sk, "colon") /\ Turns(sk, "colon", "COLON", sk, "value")
  BY Zenon, TurnsKey, TurnsColon
<1>15. Passes(t, p, sk, "key", o, sk, "colon", Counts(1, 0, 0), toks)
  BY Zenon, <1>12, <1>13, <1>14, PassesToken
<1>16. /\ c \in DOMAIN Punctuation /\ "COLON" = Punctuation[c]
       /\ CountsOf("COLON") = NoStats /\ NoStats \in CountSet
  BY Zenon, CommaIs, CountsOfIs
<1>17. Passes(t, o, sk, "colon", r, sk, "value", NoStats, Mark("COLON"))
  BY Zenon, <1>5, <1>12, <1>14, <1>16, PassesSymbol DEF Mark
<1>18. Passes(t, v, sk, "value", e, sk, "separator", n, a)
  BY Zenon, <1>1, <1>6, <1>9, <1>10, <1>11 DEF ReadsValue
<1>19. TokenAt(t, r) = TokenAt(t, v)
  BY Zenon, <1>6, TokenPastGap
<1> HIDE DEF o, r, v, e
<1>20. Passes(t, r, sk, "value", e, sk, "separator", n, a)
  BY Zenon, <1>8, <1>18, <1>19, PassesGap
<1>21. Mark("COLON") \in Seq(Lexemes) /\ Mark("COLON") \o a \in Seq(Lexemes)
  BY Zenon, MarkIs, ConcatProperties
<1>22. Passes(t, o, sk, "colon", e, sk, "separator", Added(NoStats, n), Mark("COLON") \o a)
  BY Zenon, <1>16, <1>17, <1>20, <1>21, PassesThen
<1>23. Added(NoStats, n) \in CountSet /\ Counts(1, 0, 0) \in CountSet
  <2>1. Added(NoStats, n) \in CountSet
    BY Zenon, <1>16, AddedIs
  <2>2. Counts(1, 0, 0) \in CountSet
    BY Zenon, <1>12, CountsOfIs
  <2> QED BY Zenon, <2>1, <2>2
<1>24. toks \in Seq(Lexemes)
  <2>1. Lexeme("STRING", w) \in Lexemes
    BY <1>12 DEF Lexeme, Lexemes
  <2> QED BY <2>1
<1> HIDE DEF toks
<1>25. Passes(t, p, sk, "key", e, sk, "separator", Added(Counts(1, 0, 0), Added(NoStats, n)), toks \o (Mark("COLON") \o a))
  BY Zenon, <1>15, <1>21, <1>22, <1>23, <1>24, PassesThen
<1> QED BY Zenon, <1>7, <1>25 DEF sk, toks

-----------------------------------------------------------------------------
(***************************************************************************)
(* json_compress                                                           *)
(***************************************************************************)

\* Its variables
Compressions == [out : Seq(Alphabet), in_string : BOOLEAN, escaped : BOOLEAN]

\* Between tokens, with this written
Outside(o) == [out |-> o, in_string |-> FALSE, escaped |-> FALSE]

\* What they are after 0, 1, ... m symbols of t
CompressedTo(t, m, L) ==
    /\ L \in [0 .. m -> Compressions]
    /\ L[0] = Outside(<<>>)
    /\ \A k \in 1 .. m : L[k] = Minified(L[k - 1], t[k])

Compressed(t, L) == CompressedTo(t, Len(t), L)

\* One more turn can be made ...
LEMMA MinifiedIs ==
    ASSUME NEW s \in Compressions, NEW c \in Alphabet
    PROVE  Minified(s, c) \in Compressions
<1>1. Append(s.out, c) \in Seq(Alphabet)
  BY DEF Compressions
<1>2. /\ (c = Quote) \in BOOLEAN
      /\ (s.escaped \/ c # Quote) \in BOOLEAN
      /\ (c = Backslash /\ ~s.escaped) \in BOOLEAN
      /\ s.escaped \in BOOLEAN
  BY DEF Compressions
<1> HIDE DEF Backslash
<1> QED BY Zenon, <1>1, <1>2 DEF Minified, Compressions

LEMMA CompressMore ==
    ASSUME NEW t \in Seq(Alphabet), NEW m \in 1 .. Len(t), NEW L, CompressedTo(t, m - 1, L)
    PROVE  \E M : CompressedTo(t, m, M)
<1> DEFINE next == Minified(L[m - 1], t[m])
           M == [k \in 0 .. m |-> IF k = m THEN next ELSE L[k]]
<1>0. m \in Nat /\ m - 1 \in Nat /\ m >= 1 /\ t[m] \in Alphabet
  OBVIOUS
<1>1. L \in [0 .. m - 1 -> Compressions]
  BY DEF CompressedTo
<1>2. next \in Compressions
  <2>1. L[m - 1] \in Compressions
    BY <1>0, <1>1
  <2> QED BY Zenon, <1>0, <2>1, MinifiedIs
<1> HIDE DEF next
<1>3. \A k \in 0 .. m - 1 : M[k] = L[k]
  BY <1>0
<1>4. M[m] = next
  BY <1>0
<1>5. M \in [0 .. m -> Compressions]
  <2>1. ASSUME NEW k \in 0 .. m PROVE (IF k = m THEN next ELSE L[k]) \in Compressions
    <3>1. k # m => k \in 0 .. m - 1
      BY <1>0
    <3>2. k # m => L[k] \in Compressions
      BY <1>1, <3>1
    <3> QED BY <1>2, <3>2
  <2> QED BY <2>1
<1> HIDE DEF M
<1>6. M[0] = Outside(<<>>)
  <2>1. L[0] = Outside(<<>>)
    BY DEF CompressedTo
  <2> QED BY <1>0, <1>3, <2>1
<1>7. ASSUME NEW k \in 1 .. m PROVE M[k] = Minified(M[k - 1], t[k])
  <2>1. k - 1 \in 0 .. m - 1 /\ M[k - 1] = L[k - 1]
    BY <1>0, <1>3
  <2>2. CASE k = m
    BY Zenon, <1>4, <2>1, <2>2 DEF next
  <2>3. CASE k # m
    <3>1. k \in 1 .. m - 1 /\ k \in 0 .. m - 1
      BY <1>0, <2>3
    <3>2. L[k] = Minified(L[k - 1], t[k])
      BY Zenon, <3>1 DEF CompressedTo
    <3>3. M[k] = L[k]
      BY <1>3, <3>1
    <3> QED BY Zenon, <2>1, <3>2, <3>3
  <2> QED BY Zenon, <2>2, <2>3
<1>8. CompressedTo(t, m, M)
  BY Zenon, <1>5, <1>6, <1>7 DEF CompressedTo
<1> QED BY <1>8

\* ... as often as there are symbols.
LEMMA CompressExists ==
    ASSUME NEW t \in Seq(Alphabet)
    PROVE  \E L : Compressed(t, L)
<1> DEFINE n == Len(t)
           missing == {m \in 0 .. n : ~(\E L : CompressedTo(t, m, L))}
<1>0. n \in Nat
  OBVIOUS
<1>1. ASSUME missing # {} PROVE FALSE
  <2>1. \A m \in missing : m \in 0 .. n /\ ~(\E L : CompressedTo(t, m, L))
    BY Zenon
  <2>2. \A m \in 0 .. n : m \notin missing => \E L : CompressedTo(t, m, L)
    BY Zenon
  <2> HIDE DEF missing
  <2>3. missing \subseteq Nat
    BY <1>0, <2>1
  <2>4. PICK m \in missing : \A x \in missing : m <= x
    BY <1>1, <2>3, LeastNat
  <2>5. m \in 0 .. n /\ m \in Nat /\ m <= n
    BY <1>0, <2>1
  <2>6. CASE m = 0
    <3> DEFINE first == Outside(<<>>)
               z == [k \in 0 .. 0 |-> first]
    <3>1. first \in Compressions
      BY DEF Outside, Compressions
    <3> HIDE DEF first
    <3>2. z[0] = first /\ z \in [0 .. 0 -> Compressions]
      BY <3>1
    <3>3. \A k \in 1 .. 0 : FALSE
      OBVIOUS
    <3> HIDE DEF z
    <3>4. CompressedTo(t, 0, z)
      BY Zenon, <3>2, <3>3 DEF CompressedTo, first
    <3> QED BY Zenon, <2>1, <2>6, <3>4
  <2>7. CASE m # 0
    <3>1. m - 1 \in 0 .. n /\ m \in 1 .. n /\ ~(m <= m - 1)
      BY <1>0, <2>5, <2>7
    <3>2. m - 1 \notin missing
      BY <2>4, <3>1
    <3>3. PICK L : CompressedTo(t, m - 1, L)
      BY Zenon, <2>2, <3>1, <3>2
    <3>4. \E M : CompressedTo(t, m, M)
      BY Zenon, <3>1, <3>3, CompressMore
    <3> QED BY Zenon, <2>1, <3>4
  <2> QED BY <2>6, <2>7
<1>2. n \in 0 .. n
  BY <1>0
<1> QED BY Zenon, <1>1, <1>2 DEF Compressed

\* They are what json_compress makes them.
LEMMA CompressIs ==
    ASSUME NEW t \in Seq(Alphabet), NEW L, Compressed(t, L)
    PROVE  json_compress(t) = L[Len(t)].out
<1> DEFINE n == Len(t)
           Next(k, s) == IF k = 0 THEN [out |-> <<>>, in_string |-> FALSE, escaped |-> FALSE]
                         ELSE Minified(s, t[k])
           F(g) == [k \in 0 .. n |-> Next(k, g[k - 1])]
           Loop == CHOOSE g : g = F(g)
<1>0. n \in Nat /\ n = Len(t)
  OBVIOUS
<1>1. json_compress(t) = Loop[Len(t)].out
  BY Zenon DEF json_compress
<1>2. ASSUME NEW k \in 0 .. n PROVE Next(k, L[k - 1]) = L[k]
  <2>1. CASE k = 0
    <3>1. L[0] = [out |-> <<>>, in_string |-> FALSE, escaped |-> FALSE]
      BY Zenon DEF Compressed, CompressedTo, Outside
    <3> QED BY Zenon, <2>1, <3>1
  <2>2. CASE k # 0
    <3>1. k \in 1 .. Len(t)
      BY <1>0, <2>2
    <3> QED BY Zenon, <2>2, <3>1 DEF Compressed, CompressedTo
  <2> QED BY Zenon, <2>1, <2>2
<1> HIDE DEF Next
<1>3. L = F(L)
  <2>1. L = [k \in 0 .. n |-> L[k]]
    BY Zenon DEF Compressed, CompressedTo
  <2> QED BY <1>2, <2>1
<1>4. Loop = F(Loop)
  <2> HIDE DEF F
  <2> QED BY Zenon, <1>3
<1> HIDE DEF Loop
<1>5. \A k \in 0 .. n : Loop[k] = Next(k, Loop[k - 1])
  BY <1>4
<1>6. \A k \in 0 .. n : Loop[k] = L[k]
  <2> DEFINE wrong == {k \in 0 .. n : Loop[k] # L[k]}
  <2>1. SUFFICES ASSUME wrong # {} PROVE FALSE
    OBVIOUS
  <2>2. wrong \subseteq Nat
    BY <1>0
  <2>3. PICK k \in wrong : \A x \in wrong : k <= x
    BY <2>1, <2>2, LeastNat
  <2>4. k \in 0 .. n /\ k \in Nat
    BY <1>0
  <2>5. CASE k = 0
    <3>1. Next(0, Loop[k - 1]) = Next(0, L[k - 1])
      BY Zenon DEF Next
    <3> QED BY Zenon, <1>2, <1>5, <2>3, <2>4, <2>5, <3>1
  <2>6. CASE k # 0
    <3>1. k - 1 \in 0 .. n /\ ~(k <= k - 1)
      BY <1>0, <2>4, <2>6
    <3>2. Loop[k - 1] = L[k - 1]
      BY Zenon, <2>3, <3>1
    <3> QED BY Zenon, <1>2, <1>5, <2>3, <2>4, <3>2
  <2> QED BY <2>5, <2>6
<1>7. n \in 0 .. n
  BY <1>0
<1> QED BY Zenon, <1>0, <1>1, <1>6, <1>7

\* In front of p it is between tokens, and o is written.
Clear(L, p, o) == L[p - 1] = Outside(o)

\* Where a text is in another, the turns for it are those of any run of turns
\* over it that starts alike.
LEMMA CompressRun ==
    ASSUME NEW t \in Seq(Alphabet), NEW L, Compressed(t, L), NEW p, NEW u \in Seq(Alphabet), Here(t, p, u),
           NEW R, \A i \in 1 .. Len(u) : R[i] = Minified(R[i - 1], u[i]),
           NEW o, R[0] = Outside(o), Clear(L, p, o), NEW x, R[Len(u)] = Outside(x)
    PROVE  Clear(L, p + Len(u), x)
<1> DEFINE n == Len(u)
           wrong == {i \in 0 .. n : L[(p + i) - 1] # R[i]}
<1>0. /\ n \in Nat /\ Len(t) \in Nat /\ p \in 1 .. Len(t) + 1 /\ p + n <= Len(t) + 1
      /\ \A i \in 1 .. n : t[p + i - 1] = u[i]
  BY DEF Here
<1>1. ASSUME wrong # {} PROVE FALSE
  <2>1. wrong \subseteq Nat
    BY <1>0
  <2>2. PICK i \in wrong : \A y \in wrong : i <= y
    BY <1>1, <2>1, LeastNat
  <2>3. i \in 0 .. n /\ i \in Nat /\ L[(p + i) - 1] # R[i]
    BY <1>0
  <2>4. \A y \in 0 .. n : y \notin wrong => L[(p + y) - 1] = R[y]
    OBVIOUS
  <2> HIDE DEF wrong, n
  <2>5. CASE i = 0
    <3>1. (p + 0) - 1 = p - 1
      BY <1>0
    <3> QED BY <2>3, <2>5, <3>1 DEF Clear
  <2>6. CASE i # 0
    <3>1. i - 1 \in 0 .. n /\ ~(i <= i - 1) /\ i \in 1 .. n
      BY <1>0, <2>3, <2>6
    <3> DEFINE k == (p + i) - 1
               h == (p + (i - 1)) - 1
    <3>2. L[h] = R[i - 1]
      BY <2>2, <2>4, <3>1
    <3>3. k \in 1 .. Len(t) /\ h = k - 1
      BY <1>0, <3>1
    <3>4. t[k] = u[i]
      BY <1>0, <3>1
    <3>5. L[k] # R[i]
      BY <2>3
    <3> HIDE DEF k, h
    <3>6. L[k] = Minified(L[k - 1], t[k])
      BY Zenon, <3>3 DEF Compressed, CompressedTo
    <3>7. R[i] = Minified(R[i - 1], u[i])
      BY Zenon, <3>1 DEF n
    <3> QED BY Zenon, <3>2, <3>3, <3>4, <3>5, <3>6, <3>7
  <2> QED BY <2>5, <2>6
<1>2. n \in 0 .. n
  BY <1>0
<1>3. L[(p + n) - 1] = R[n]
  BY <1>1, <1>2
<1> QED BY <1>3 DEF Clear

\* Between tokens, json_compress makes m of u.
Compresses(u, m) ==
    \A t \in Seq(Alphabet), o \in Seq(Alphabet) : \A L, p :
        (Compressed(t, L) /\ Here(t, p, u) /\ Clear(L, p, o)) => Clear(L, p + Len(u), o \o m)

\* It can be told from a run of turns over u alone.
LEMMA CompressesRun ==
    ASSUME NEW u \in Seq(Alphabet), NEW m \in Seq(Alphabet),
           \A o \in Seq(Alphabet) : \E R :
               /\ R[0] = Outside(o) /\ R[Len(u)] = Outside(o \o m)
               /\ \A i \in 1 .. Len(u) : R[i] = Minified(R[i - 1], u[i])
    PROVE  Compresses(u, m)
<1> SUFFICES ASSUME NEW t \in Seq(Alphabet), NEW o \in Seq(Alphabet), NEW L, NEW p,
                    Compressed(t, L), Here(t, p, u), Clear(L, p, o)
             PROVE  Clear(L, p + Len(u), o \o m)
  BY Zenon DEF Compresses
<1>1. PICK R : /\ R[0] = Outside(o) /\ R[Len(u)] = Outside(o \o m)
               /\ \A i \in 1 .. Len(u) : R[i] = Minified(R[i - 1], u[i])
  BY Zenon
<1> QED BY Zenon, <1>1, CompressRun

\* White space is dropped ...
LEMMA CompressesGap == \A g \in Seq(Spaces) : Compresses(g, <<>>)
<1> SUFFICES ASSUME NEW g \in Seq(Spaces) PROVE Compresses(g, <<>>)
  OBVIOUS
<1>1. g \in Seq(Alphabet) /\ Len(g) \in Nat /\ <<>> \in Seq(Alphabet)
  <2>1. <<>> \in Seq(Alphabet)
    OBVIOUS
  <2> QED BY Zenon, <2>1, GapIsText
<1>2. ASSUME NEW o \in Seq(Alphabet)
      PROVE  \E R : /\ R[0] = Outside(o) /\ R[Len(g)] = Outside(o \o <<>>)
                    /\ \A i \in 1 .. Len(g) : R[i] = Minified(R[i - 1], g[i])
  <2> DEFINE x == Outside(o)
             R == [i \in 0 .. Len(g) |-> x]
  <2>1. o \o <<>> = o
    OBVIOUS
  <2>2. ~x.in_string
    BY DEF Outside
  <2> HIDE DEF x
  <2>3. \A i \in 0 .. Len(g) : R[i] = x
    BY Zenon
  <2>4. 0 \in 0 .. Len(g) /\ Len(g) \in 0 .. Len(g)
    BY <1>1
  <2>5. \A i \in 1 .. Len(g) : i \in 0 .. Len(g) /\ i - 1 \in 0 .. Len(g) /\ g[i] \in Spaces
    BY <1>1
  <2> HIDE DEF R
  <2>6. \A i \in 1 .. Len(g) : R[i] = Minified(R[i - 1], g[i])
    BY Zenon, <2>2, <2>3, <2>5 DEF Minified
  <2> QED BY Zenon, <2>1, <2>3, <2>4, <2>6 DEF x
<1> QED BY Zenon, <1>1, <1>2, CompressesRun

\* Texts can be joined in any order.
LEMMA JoinThen ==
    ASSUME NEW a \in Seq(Alphabet), NEW b \in Seq(Alphabet), NEW c \in Seq(Alphabet)
    PROVE  (a \o b) \o c = a \o (b \o c)
BY ConcatAssociative

\* One symbol more.
LEMMA PrefixMore ==
    ASSUME NEW o \in Seq(Alphabet), NEW u \in Seq(Alphabet)
    PROVE  /\ o \o SubSeq(u, 1, 0) = o
           /\ o \o SubSeq(u, 1, Len(u)) = o \o u
           /\ \A i \in 1 .. Len(u) : Append(o \o SubSeq(u, 1, i - 1), u[i]) = o \o SubSeq(u, 1, i)
<1>1. o \o SubSeq(u, 1, 0) = o
  OBVIOUS
<1>2. SubSeq(u, 1, Len(u)) = u
  OBVIOUS
<1>3. ASSUME NEW i \in 1 .. Len(u) PROVE Append(o \o SubSeq(u, 1, i - 1), u[i]) = o \o SubSeq(u, 1, i)
  <2> DEFINE a == SubSeq(u, 1, i - 1)
             b == SubSeq(u, 1, i)
  <2>1. a \in Seq(Alphabet) /\ b \in Seq(Alphabet) /\ u[i] \in Alphabet
    OBVIOUS
  <2>2. b = Append(a, u[i])
    OBVIOUS
  <2> HIDE DEF a, b
  <2>3. Append(o \o a, u[i]) = o \o Append(a, u[i])
    <3> DEFINE c == <<u[i]>>
    <3>1. o \o a \in Seq(Alphabet) /\ c \in Seq(Alphabet)
      BY Zenon, <2>1, JoinIs, OneIs
    <3>2. Append(o \o a, u[i]) = (o \o a) \o c /\ Append(a, u[i]) = a \o c
      BY Zenon, <2>1, <3>1, AppendIsConcat
    <3> HIDE DEF c
    <3>3. (o \o a) \o c = o \o (a \o c)
      BY ZenonT(60), <2>1, <3>1, JoinThen
    <3> QED BY Zenon, <3>2, <3>3
  <2> QED BY <2>2, <2>3 DEF a, b
<1> QED BY <1>1, <1>2, <1>3

\* ... and a text without quotes and white space stays as it is, ...
LEMMA CompressesPlain ==
    ASSUME NEW u \in Seq(Alphabet), \A i \in 1 .. Len(u) : u[i] \notin Spaces /\ u[i] # Quote
    PROVE  Compresses(u, u)
<1>1. Len(u) \in Nat
  OBVIOUS
<1>2. ASSUME NEW o \in Seq(Alphabet)
      PROVE  \E R : /\ R[0] = Outside(o) /\ R[Len(u)] = Outside(o \o u)
                    /\ \A i \in 1 .. Len(u) : R[i] = Minified(R[i - 1], u[i])
  <2> DEFINE R == [i \in 0 .. Len(u) |-> Outside(o \o SubSeq(u, 1, i))]
  <2>1. \A i \in 0 .. Len(u) : R[i] = Outside(o \o SubSeq(u, 1, i))
    BY Zenon
  <2>2. 0 \in 0 .. Len(u) /\ Len(u) \in 0 .. Len(u)
    BY <1>1
  <2> HIDE DEF R
  <2>3. ASSUME NEW i \in 1 .. Len(u) PROVE R[i] = Minified(R[i - 1], u[i])
    <3> DEFINE x == o \o SubSeq(u, 1, i - 1)
               c == u[i]
    <3>1. i \in 0 .. Len(u) /\ i - 1 \in 0 .. Len(u)
      BY <1>1
    <3>2. R[i - 1] = Outside(x) /\ R[i] = Outside(Append(x, c))
      BY ZenonT(60), <2>1, <3>1, PrefixMore
    <3>3. c \notin Spaces /\ c # Quote
      OBVIOUS
    <3> HIDE DEF x, c
    <3>4. Minified(Outside(x), c) = Outside(Append(x, c))
      BY <3>3 DEF Minified, Outside
    <3> QED BY Zenon, <3>2, <3>4 DEF c
  <2> QED BY Zenon, <2>1, <2>2, <2>3, PrefixMore
<1> QED BY Zenon, <1>2, CompressesRun

\* ... and so does what is made of two such texts.
LEMMA CompressesJoin ==
    ASSUME NEW a \in Seq(Alphabet), NEW m \in Seq(Alphabet), Compresses(a, m),
           NEW b \in Seq(Alphabet), NEW n \in Seq(Alphabet), Compresses(b, n)
    PROVE  Compresses(a \o b, m \o n)
<1> SUFFICES ASSUME NEW t \in Seq(Alphabet), NEW o \in Seq(Alphabet), NEW L, NEW p,
                    Compressed(t, L), Here(t, p, a \o b), Clear(L, p, o)
             PROVE  Clear(L, p + Len(a \o b), o \o (m \o n))
  BY Zenon DEF Compresses
<1> DEFINE q == p + Len(a)
<1>1. Here(t, p, a) /\ Here(t, q, b)
  BY Zenon, HereJoin
<1>2. Clear(L, q, o \o m)
  BY Zenon, <1>1 DEF Compresses
<1>3. o \o m \in Seq(Alphabet)
  BY Zenon, JoinIs
<1>4. p + Len(a \o b) = q + Len(b)
  <2>1. Len(a \o b) = Len(a) + Len(b) /\ Len(a) \in Nat /\ Len(b) \in Nat
    BY Zenon, JoinLen
  <2>2. p \in Nat
    BY <1>1 DEF Here
  <2> QED BY <2>1, <2>2
<1> HIDE DEF q
<1>5. Clear(L, q + Len(b), (o \o m) \o n)
  BY Zenon, <1>1, <1>2, <1>3 DEF Compresses
<1>6. (o \o m) \o n = o \o (m \o n)
  BY ZenonT(60), JoinThen
<1> QED BY Zenon, <1>4, <1>5, <1>6

\* A turn within a string.
LEMMA MinifiedInside ==
    ASSUME NEW x, NEW e \in BOOLEAN, NEW c
    PROVE  Minified([out |-> x, in_string |-> TRUE, escaped |-> e], c)
             = [out |-> Append(x, c), in_string |-> e \/ c # Quote, escaped |-> c = Backslash /\ ~e]
BY DEF Minified

\* A string stays as it is, with the quotes and white space in it: the escaped
\* flag tells the quotes in it from its end.
LEMMA CompressesString ==
    ASSUME NEW w \in Seq(Alphabet), Spelled(w)
    PROVE  Compresses(Quoted(w), Quoted(w))
<1> DEFINE u == Quoted(w)
           N == Len(w)
<1>1. u \in Seq(Alphabet) /\ Len(u) = N + 2
  BY Zenon, QuotedIs
<1>2. N \in Nat
  OBVIOUS
<1>3. Here(u, 1, u)
  <2> HIDE DEF u
  <2>1. \A i \in 1 .. Len(u) : u[1 + i - 1] = u[i]
    BY <1>1, <1>2
  <2> QED BY <1>1, <1>2, <2>1 DEF Here
<1>4. /\ u[1] = Quote /\ u[N + 2] = Quote
      /\ ~Odd(u, 2, N + 2)
      /\ \A i \in 2 .. N + 1 : u[i] = Quote => Odd(u, 2, i)
  <2>1. FlagsAt(u, 1, w)
    BY Zenon, <1>1, <1>3, StringFlags
  <2>2. /\ u[1] = Quote
        /\ u[1 + 1 + Len(w)] = Quote
        /\ ~Odd(u, 1 + 1, 1 + 1 + Len(w))
        /\ \A i \in 0 .. Len(w) - 1 : u[1 + 1 + i] = Quote => Odd(u, 1 + 1, 1 + 1 + i)
    BY Zenon, <2>1 DEF FlagsAt
  <2> HIDE DEF u
  <2>3. 1 + 1 = 2 /\ 2 + N = N + 2
    BY <1>2
  <2>4. ASSUME NEW i \in 2 .. N + 1, u[i] = Quote PROVE Odd(u, 2, i)
    <3>1. i - 2 \in 0 .. Len(w) - 1 /\ 1 + 1 + (i - 2) = i
      BY <1>2
    <3> QED BY <2>2, <2>3, <2>4, <3>1
  <2> QED BY <2>2, <2>3, <2>4
<1>5. ASSUME NEW i \in 2 .. N + 2
      PROVE  Odd(u, 2, i + 1) <=> (u[i] = Backslash /\ ~Odd(u, 2, i))
  <2>1. i + 1 \in Nat /\ i + 1 >= 2 /\ i + 1 > 2 /\ (i + 1) - 1 = i /\ 2 \in Nat
    BY <1>2
  <2>2. Odd(u, 2, i + 1) <=> (i + 1 > 2 /\ u[i + 1 - 1] = Backslash /\ ~Odd(u, 2, i + 1 - 1))
    BY <2>1, OddIs
  <2> QED BY <2>1, <2>2
<1>6. ~Odd(u, 2, 2)
  <2>1. 2 \in Nat /\ 2 >= 2 /\ ~(2 > 2)
    OBVIOUS
  <2> QED BY Zenon, <2>1, OddIs
<1> HIDE DEF u, N
<1>7. ASSUME NEW o \in Seq(Alphabet)
      PROVE  \E R : /\ R[0] = Outside(o) /\ R[Len(u)] = Outside(o \o u)
                    /\ \A i \in 1 .. Len(u) : R[i] = Minified(R[i - 1], u[i])
  <2> DEFINE Out(i) == o \o SubSeq(u, 1, i)
             Inside(i) == [out |-> Out(i), in_string |-> TRUE, escaped |-> Odd(u, 2, i + 1)]
             R == [i \in 0 .. N + 2 |-> IF i \in {0, N + 2} THEN Outside(Out(i)) ELSE Inside(i)]
  <2>1. \A i \in 0 .. N + 2 : R[i] = IF i \in {0, N + 2} THEN Outside(Out(i)) ELSE Inside(i)
    BY Zenon
  <2>2. 0 \in 0 .. N + 2 /\ N + 2 \in 0 .. N + 2
    BY <1>2
  <2>3. Out(0) = o /\ Out(N + 2) = o \o u
    <3>1. o \o SubSeq(u, 1, 0) = o /\ o \o SubSeq(u, 1, Len(u)) = o \o u
      BY Zenon, <1>1, PrefixMore
    <3> QED BY <1>1, <3>1
  <2>4. \A i \in 1 .. N + 2 : Append(Out(i - 1), u[i]) = Out(i)
    <3>1. \A i \in 1 .. Len(u) : Append(o \o SubSeq(u, 1, i - 1), u[i]) = o \o SubSeq(u, 1, i)
      BY Zenon, <1>1, PrefixMore
    <3> QED BY <1>1, <3>1
  <2> HIDE DEF R, Out
  <2>5. ASSUME NEW i \in 1 .. N + 2 PROVE R[i] = Minified(R[i - 1], u[i])
    <3>0. i \in 0 .. N + 2 /\ i - 1 \in 0 .. N + 2 /\ i # 0 /\ i - 1 # N + 2
      BY <1>2
    <3>1. Append(Out(i - 1), u[i]) = Out(i)
      BY Zenon, <2>4
    <3> DEFINE c == u[i]
               x == Out(i - 1)
               y == Out(i)
    <3>2. CASE i = 1
      <4>1. R[i - 1] = Outside(x)
        <5>1. i - 1 \in {0, N + 2}
          BY <3>2
        <5> QED BY Zenon, <2>1, <3>0, <5>1
      <4>2. R[i] = Inside(i)
        BY <1>2, <2>1, <3>0, <3>2
      <4>3. ~Odd(u, 2, i + 1) /\ c = Quote
        BY <1>4, <1>6, <3>2
      <4>4. Append(x, c) = y
        BY <3>1
      <4> DEFINE odd == Odd(u, 2, i + 1)
      <4>5. odd = FALSE
        BY Zenon, <4>3 DEF Odd
      <4> HIDE DEF c, x, y
      <4>6. Minified(Outside(x), c) = [out |-> y, in_string |-> TRUE, escaped |-> FALSE]
        BY <4>3, <4>4 DEF Minified, Outside, Quote, Spaces
      <4> HIDE DEF odd
      <4>7. R[i] = [out |-> y, in_string |-> TRUE, escaped |-> odd]
        BY Zenon, <4>2 DEF odd, y
      <4> QED BY Zenon, <4>1, <4>5, <4>6, <4>7 DEF c
    <3>3. CASE i # 1
      <4>1. R[i - 1] = Inside(i - 1) /\ i \in 2 .. N + 2 /\ i - 1 + 1 = i
        BY <1>2, <2>1, <3>0, <3>3
      <4> DEFINE e == Odd(u, 2, i)
                 odd == Odd(u, 2, i + 1)
      <4>2. odd <=> (c = Backslash /\ ~e)
        BY Zenon, <1>5, <4>1
      <4>3. e \in BOOLEAN /\ odd \in BOOLEAN
        BY Zenon DEF Odd
      <4>4. R[i - 1] = [out |-> x, in_string |-> TRUE, escaped |-> e]
        <5>1. Inside(i - 1) = [out |-> Out(i - 1), in_string |-> TRUE, escaped |-> Odd(u, 2, i)]
          BY <4>1
        <5> QED BY Zenon, <4>1, <5>1
      <4>5. Append(x, c) = y
        BY <3>1
      <4>6. i # N + 2 => i \in 2 .. N + 1
        BY <1>2, <4>1
      <4>7. i # N + 2 => (c = Quote => e)
        BY Zenon, <1>4, <4>6
      <4>8. i = N + 2 => c = Quote /\ ~e
        BY Zenon, <1>4
      <4>9. i # N + 2 => R[i] = [out |-> y, in_string |-> TRUE, escaped |-> odd]
        BY Zenon, <2>1, <3>0
      <4>10. i = N + 2 => R[i] = Outside(y)
        BY Zenon, <2>1, <3>0
      <4> DEFINE new == [out |-> Append(x, c), in_string |-> e \/ c # Quote, escaped |-> c = Backslash /\ ~e]
      <4> HIDE DEF e, odd, c, x, y
      <4>11. Minified(R[i - 1], c) = new
        <5> DEFINE r == [out |-> x, in_string |-> TRUE, escaped |-> e]
        <5>1. Minified(r, c) = new
          BY <4>3, MinifiedInside
        <5>2. R[i - 1] = r
          BY Zenon, <4>4
        <5> HIDE DEF r, new
        <5> QED BY Zenon, <5>1, <5>2
      <4>12. CASE i # N + 2
        <5>1. (e \/ c # Quote) = TRUE
          BY Zenon, <4>7, <4>12
        <5>2. (c = Backslash /\ ~e) = odd
          BY Zenon, <4>2, <4>3
        <5> QED BY Zenon, <4>5, <4>9, <4>11, <4>12, <5>1, <5>2 DEF c
      <4>13. CASE i = N + 2
        <5>1. (e \/ c # Quote) = FALSE
          BY Zenon, <4>8, <4>13
        <5>2. (c = Backslash /\ ~e) = FALSE
          BY <4>8, <4>13 DEF Quote, Backslash
        <5> QED BY Zenon, <4>5, <4>10, <4>11, <4>13, <5>1, <5>2 DEF c, Outside
      <4> QED BY Zenon, <4>12, <4>13
    <3> QED BY Zenon, <3>2, <3>3
  <2> QED BY Zenon, <1>1, <2>1, <2>2, <2>3, <2>5
<1> QED BY Zenon, <1>1, <1>7, CompressesRun DEF u

-----------------------------------------------------------------------------
(***************************************************************************)
(* Everything that is printed is read as what it is                        *)
(***************************************************************************)

\* A text is read as its kind says.
ReadsAs(u, kind, n, toks) ==
    /\ u # <<>>
    /\ kind \in ValueKinds => ReadsValue(u, n, toks)
    /\ kind = "pair" => ReadsMember(u, "object", n, toks)
    /\ \A k \in Kinds : kind = Rest[k] => ReadsRest(u, k, n, toks) /\ StartsDelimited(u)

\* What is printed is read with these tokens and the counts it should have,
\* and so is m, which is what json_compress makes of it.
ReadsLike(v, m, toks) ==
    /\ m \in Seq(Alphabet)
    /\ toks \in Seq(Lexemes)
    /\ ReadsAs(v.text, v.kind, v.stats, toks)
    /\ ReadsAs(m, v.kind, v.stats, toks)
    /\ Compresses(v.text, m)

Reads(v) == v.stats \in CountSet /\ \E m, toks : ReadsLike(v, m, toks)

\* The kinds are told apart.
LEMMA KindsDiffer ==
    /\ "pair" \notin ValueKinds
    /\ \A k \in Kinds : k \in ValueKinds /\ Rest[k] \notin ValueKinds /\ Rest[k] # "pair"
    /\ \A k, l \in Kinds : Rest[k] = Rest[l] => k = l
<1>1. Rest["object"] = "members" /\ Rest["array"] = "items"
  BY DEF Rest
<1>2. "pair" \notin ValueKinds /\ "members" \notin ValueKinds /\ "items" \notin ValueKinds
      /\ "object" \in ValueKinds /\ "array" \in ValueKinds
  BY DEF ValueKinds
<1> QED BY <1>1, <1>2 DEF Kinds

LEMMA AsValue ==
    ASSUME NEW u, u # <<>>, NEW kind \in ValueKinds, NEW n, NEW toks, ReadsValue(u, n, toks)
    PROVE  ReadsAs(u, kind, n, toks)
BY Zenon, KindsDiffer DEF ReadsAs

LEMMA AsPair ==
    ASSUME NEW u, u # <<>>, NEW n, NEW toks, ReadsMember(u, "object", n, toks)
    PROVE  ReadsAs(u, "pair", n, toks)
BY Zenon, KindsDiffer DEF ReadsAs

LEMMA AsRest ==
    ASSUME NEW u, u # <<>>, NEW k \in Kinds, NEW n, NEW toks, ReadsRest(u, k, n, toks), StartsDelimited(u)
    PROVE  ReadsAs(u, Rest[k], n, toks)
BY Zenon, KindsDiffer DEF ReadsAs

\* A text that json_compress leaves as it is.
LEMMA ReadsSame ==
    ASSUME NEW v, v.kind \in ValueKinds, v.text \in Seq(Alphabet), v.text # <<>>, v.stats \in CountSet,
           NEW toks \in Seq(Lexemes), ReadsValue(v.text, v.stats, toks), Compresses(v.text, v.text)
    PROVE  Reads(v)
<1>1. ReadsAs(v.text, v.kind, v.stats, toks)
  BY Zenon, AsValue
<1>2. ReadsLike(v, v.text, toks)
  BY Zenon, <1>1 DEF ReadsLike
<1> QED BY Zenon, <1>2 DEF Reads

\* One token is a sequence of them.
LEMMA LexemeIs ==
    \A type \in TokenTypes, val \in Seq(Alphabet) : <<Lexeme(type, val)>> \in Seq(Lexemes)
<1> SUFFICES ASSUME NEW type \in TokenTypes, NEW val \in Seq(Alphabet) PROVE <<Lexeme(type, val)>> \in Seq(Lexemes)
  OBVIOUS
<1>1. Lexeme(type, val) \in Lexemes
  BY DEF Lexeme, Lexemes
<1> HIDE DEF Lexemes
<1> QED BY <1>1

\* A number has no quote and no white space in it.
LEMMA NumberIsPlain ==
    ASSUME NEW u \in Seq(Alphabet), IsNumber(u)
    PROVE  u # <<>> /\ \A i \in 1 .. Len(u) : u[i] \notin Spaces /\ u[i] # Quote
<1>0. PICK sign \in {0, 1} : \E int \in sign + 1 .. Len(u) :
          /\ sign = 1 => u[1] = "-"
          /\ \A i \in sign + 1 .. int : u[i] \in Digits
          /\ \/ int = Len(u)
             \/ /\ int + 2 <= Len(u)
                /\ u[int + 1] = "."
                /\ \A i \in int + 2 .. Len(u) : u[i] \in Digits
  BY Zenon DEF IsNumber
<1>1. PICK int \in sign + 1 .. Len(u) :
          /\ sign = 1 => u[1] = "-"
          /\ \A i \in sign + 1 .. int : u[i] \in Digits
          /\ \/ int = Len(u)
             \/ /\ int + 2 <= Len(u)
                /\ u[int + 1] = "."
                /\ \A i \in int + 2 .. Len(u) : u[i] \in Digits
  BY Zenon, <1>0
<1>2. Len(u) \in Nat /\ Len(u) > 0
  BY <1>1
<1>3. ASSUME NEW i \in 1 .. Len(u) PROVE u[i] \in Digits \cup {"-", "."}
  <2>1. CASE i <= sign
    BY <1>1, <2>1
  <2>2. CASE i > sign /\ i <= int
    BY <1>1, <2>2
  <2>3. CASE i > int
    BY <1>1, <2>3
  <2> QED BY <1>1, <1>2, <2>1, <2>2, <2>3
<1>4. \A c \in Digits \cup {"-", "."} : c \notin Spaces /\ c # Quote
  BY DEF Digits, Spaces, Quote
<1>5. u # <<>>
  BY <1>2
<1> QED BY Zenon, <1>3, <1>4, <1>5

\* A field.
LEMMA ReadsScalar ==
    ASSUME NEW v, v.text \in Seq(Alphabet), json_serialize_field_value(v)
    PROVE  Reads(v)
<1>0. /\ Counts(1, 0, 0) \in CountSet /\ Counts(0, 1, 0) \in CountSet
      /\ {"string", "number", "word"} \subseteq ValueKinds
      /\ {"STRING", "NUMBER", "BOOLEAN", "NULL"} \subseteq TokenTypes
  BY DEF Counts, CountSet, ValueKinds, TokenTypes
<1>1. CASE v.kind = "string" /\ v.source \in Seq(Alphabet) /\ v.text = json_serialize_append_string(v.source)
           /\ v.stats = Counts(1, 0, 0)
  <2>1. PICK w \in Seq(Alphabet) : Spelled(w) /\ v.text = Quoted(w)
    BY Zenon, <1>1, StringIsQuoted
  <2>2. v.text # <<>>
    <3>1. Len(Quoted(w)) = Len(w) + 2 /\ Len(w) \in Nat
      BY QuotedIs
    <3> QED BY <2>1, <3>1
  <2>3. ReadsValue(v.text, v.stats, <<Lexeme("STRING", w)>>)
    BY Zenon, <1>1, <2>1, ReadsString
  <2>4. Compresses(v.text, v.text)
    BY Zenon, <2>1, CompressesString
  <2>5. <<Lexeme("STRING", w)>> \in Seq(Lexemes)
    BY Zenon, <1>0, LexemeIs
  <2>6. v.kind \in ValueKinds /\ v.stats \in CountSet
    BY <1>0, <1>1
  <2> QED BY Zenon, <2>2, <2>3, <2>4, <2>5, <2>6, ReadsSame
<1>2. CASE v.kind = "number" /\ IsNumber(v.text) /\ v.stats = Counts(0, 1, 0)
  <2>1. ReadsValue(v.text, v.stats, <<Lexeme("NUMBER", v.text)>>)
    BY Zenon, <1>2, ReadsNumber
  <2>2. v.text # <<>> /\ Compresses(v.text, v.text)
    BY Zenon, <1>2, NumberIsPlain, CompressesPlain
  <2>3. "NUMBER" \in TokenTypes
    BY <1>0
  <2>4. <<Lexeme("NUMBER", v.text)>> \in Seq(Lexemes)
    BY Zenon, <2>3, LexemeIs
  <2>5. v.kind \in ValueKinds /\ v.stats \in CountSet
    BY <1>0, <1>2
  <2> QED BY Zenon, <2>1, <2>2, <2>4, <2>5, ReadsSame
<1>3. CASE v.kind = "word" /\ v.text \in {<<w>> : w \in Words} /\ v.stats = Counts(0, 1, 0)
  <2>1. PICK c \in Words : v.text = <<c>>
    BY Zenon, <1>3
  <2> DEFINE type == IF c = "null" THEN "NULL" ELSE "BOOLEAN"
  <2>2. ReadsValue(v.text, v.stats, <<Lexeme(type, v.text)>>)
    BY Zenon, <1>3, <2>1, ReadsWord
  <2>3. type \in TokenTypes
    BY <1>0
  <2> HIDE DEF type
  <2>4. <<Lexeme(type, v.text)>> \in Seq(Lexemes)
    BY Zenon, <2>3, LexemeIs
  <2>5. c \notin Spaces /\ c # Quote
    BY DEF Words, Spaces, Quote
  <2>6. v.text # <<>> /\ \A i \in 1 .. Len(v.text) : v.text[i] \notin Spaces /\ v.text[i] # Quote
    BY <2>1, <2>5
  <2>7. Compresses(v.text, v.text)
    BY Zenon, <2>6, CompressesPlain
  <2>8. v.kind \in ValueKinds /\ v.stats \in CountSet
    BY <1>0, <1>3
  <2> QED BY Zenon, <2>2, <2>4, <2>6, <2>7, <2>8, ReadsSame
<1> QED BY Zenon, <1>1, <1>2, <1>3 DEF json_serialize_field_value

\* No white space is white space.
LEMMA NoGapIsGap == <<>> \in Seq(Spaces) /\ <<>> \in Seq(Alphabet)
OBVIOUS

\* Behind white space json_compress goes on as without it.
LEMMA CompressesBehindGap ==
    ASSUME NEW g \in Seq(Spaces), NEW x \in Seq(Alphabet), NEW m \in Seq(Alphabet), Compresses(x, m)
    PROVE  /\ g \o x \in Seq(Alphabet) /\ <<>> \o m \in Seq(Alphabet)
           /\ Compresses(g \o x, <<>> \o m)
<1>1. g \in Seq(Alphabet) /\ Compresses(g, <<>>)
  BY Zenon, GapIsText, CompressesGap
<1> QED BY Zenon, <1>1, NoGapIsGap, CompressesJoin, JoinIs

\* Behind a bracket, a colon or a comma too.
LEMMA CompressesBehindSymbol ==
    ASSUME NEW c \in DOMAIN Punctuation, NEW z \in Seq(Alphabet), NEW m \in Seq(Alphabet), Compresses(z, m)
    PROVE  /\ <<c>> \o z \in Seq(Alphabet) /\ <<c>> \o m \in Seq(Alphabet)
           /\ Compresses(<<c>> \o z, <<c>> \o m)
<1>1. c \in Alphabet /\ c \notin Spaces /\ c # Quote
  BY DEF Punctuation, Alphabet, Spaces, Quote
<1>2. <<c>> \in Seq(Alphabet) /\ \A i \in 1 .. Len(<<c>>) : <<c>>[i] \notin Spaces /\ <<c>>[i] # Quote
  BY <1>1
<1>3. Compresses(<<c>>, <<c>>)
  BY Zenon, <1>2, CompressesPlain
<1> QED BY Zenon, <1>2, <1>3, CompressesJoin, JoinIs

\* What is behind a symbol is not empty with it.
LEMMA BehindSymbol == \A c : \A z \in Seq(Alphabet) : c \in Alphabet => <<c>> \o z # <<>>
OBVIOUS

LEMMA PunctuationSymbol == \A c \in DOMAIN Punctuation : c \in Alphabet
BY DEF Punctuation, Alphabet

\* A key and a value.
LEMMA ReadsKeyAndValue ==
    ASSUME NEW v, KeyAndValue(v), NEW x, x = v.parts[1], x.text \in Seq(Alphabet), Reads(x)
    PROVE  Reads(v)
<1> DEFINE c == ":"
<1>1. PICK w \in Seq(Alphabet) : Spelled(w) /\ json_serialize_append_string(v.source) = Quoted(w)
  BY Zenon, StringIsQuoted DEF KeyAndValue
<1>2. PICK g \in Gaps : v.text = Quoted(w) \o <<c>> \o g \o x.text
  BY Zenon, <1>1 DEF KeyAndValue
<1>3. g \in Seq(Spaces) /\ c \in DOMAIN Punctuation /\ c = ":"
  BY Zenon, TextConstants, CommaIs
<1>4. PICK m, a : ReadsLike(x, m, a)
  BY Zenon DEF Reads
<1>5. /\ m \in Seq(Alphabet) /\ a \in Seq(Lexemes) /\ x.stats \in CountSet
      /\ ReadsAs(x.text, x.kind, x.stats, a) /\ ReadsAs(m, x.kind, x.stats, a) /\ Compresses(x.text, m)
  BY Zenon, <1>4 DEF ReadsLike, Reads
<1>6. x.kind \in ValueKinds /\ v.kind = "pair" /\ v.stats = Added(Counts(1, 0, 0), x.stats)
  BY Zenon DEF KeyAndValue
<1>7. /\ x.text # <<>> /\ ReadsValue(x.text, x.stats, a)
      /\ m # <<>> /\ ReadsValue(m, x.stats, a)
  BY Zenon, <1>5, <1>6 DEF ReadsAs
<1>8. v.stats = Added(Counts(1, 0, 0), Added(NoStats, x.stats)) /\ v.stats \in CountSet
  <2>1. Added(NoStats, x.stats) = x.stats
    BY Zenon, <1>5, AddedIs
  <2>2. Counts(1, 0, 0) \in CountSet
    BY DEF Counts, CountSet
  <2>3. Added(Counts(1, 0, 0), x.stats) \in CountSet
    BY Zenon, <1>5, <2>2, AddedIs
  <2> QED BY Zenon, <1>6, <2>1, <2>3
<1> HIDE DEF c
<1> DEFINE k == Quoted(w)
           y == <<c>> \o (g \o x.text)
           n == <<c>> \o (<<>> \o m)
           toks == <<Lexeme("STRING", w)>> \o (Mark("COLON") \o a)
<1>9. k \in Seq(Alphabet) /\ Len(k) = Len(w) + 2 /\ Len(w) \in Nat
  BY Zenon, QuotedIs, JoinLen
<1>10. /\ y \in Seq(Alphabet) /\ n \in Seq(Alphabet) /\ Compresses(y, n)
  BY Zenon, <1>3, <1>5, CompressesBehindGap, CompressesBehindSymbol
<1>11. Compresses(k \o y, k \o n) /\ k \o y \in Seq(Alphabet) /\ k \o n \in Seq(Alphabet)
  BY Zenon, <1>1, <1>9, <1>10, CompressesString, CompressesJoin, JoinIs
<1>12. v.text = k \o y
  <2>1. c \in Alphabet
    BY Zenon, <1>3, PunctuationSymbol
  <2>2. <<c>> \in Seq(Alphabet) /\ g \in Seq(Alphabet)
    BY Zenon, <1>3, <2>1, OneIs, GapIsText
  <2> HIDE DEF k
  <2>3. g \o x.text \in Seq(Alphabet) /\ <<c>> \o g \in Seq(Alphabet)
    BY Zenon, <2>2, JoinIs
  <2>4. (k \o <<c>>) \o g = k \o (<<c>> \o g)
    BY ZenonT(60), <1>9, <2>2, JoinThen
  <2>5. (k \o (<<c>> \o g)) \o x.text = k \o ((<<c>> \o g) \o x.text)
    BY ZenonT(60), <1>9, <2>3, JoinThen
  <2>6. (<<c>> \o g) \o x.text = <<c>> \o (g \o x.text)
    BY ZenonT(60), <2>2, JoinThen
  <2>7. v.text = ((k \o <<c>>) \o g) \o x.text
    BY Zenon, <1>2 DEF k
  <2> QED BY Zenon, <2>4, <2>5, <2>6, <2>7
<1>13. k \o y # <<>> /\ k \o n # <<>>
  <2>1. Len(k \o y) = Len(k) + Len(y) /\ Len(y) \in Nat
    BY Zenon, <1>9, <1>10, JoinLen
  <2>2. Len(k \o n) = Len(k) + Len(n) /\ Len(n) \in Nat
    BY Zenon, <1>9, <1>10, JoinLen
  <2> HIDE DEF k, y, n
  <2> QED BY <1>9, <1>11, <2>1, <2>2
<1>14. ReadsMember(k \o y, "object", v.stats, toks)
  BY Zenon, <1>1, <1>3, <1>5, <1>7, <1>8, ReadsPair
<1>15. ReadsMember(k \o n, "object", v.stats, toks)
  BY Zenon, <1>1, <1>3, <1>5, <1>7, <1>8, NoGapIsGap, ReadsPair
<1>16. toks \in Seq(Lexemes)
  <2>1. "STRING" \in TokenTypes
    BY DEF TokenTypes
  <2>2. <<Lexeme("STRING", w)>> \in Seq(Lexemes) /\ Mark("COLON") \in Seq(Lexemes)
    BY Zenon, <2>1, LexemeIs, MarkIs
  <2> QED BY Zenon, <1>5, <2>2, ConcatProperties
<1> HIDE DEF k, y, n, toks
<1>17. ReadsAs(v.text, v.kind, v.stats, toks) /\ ReadsAs(k \o n, v.kind, v.stats, toks)
  BY Zenon, <1>6, <1>12, <1>13, <1>14, <1>15, AsPair
<1>18. ReadsLike(v, k \o n, toks)
  BY Zenon, <1>11, <1>12, <1>16, <1>17 DEF ReadsLike
<1> QED BY Zenon, <1>8, <1>18 DEF Reads

\* What is in a container, with white space and without
ReadsInside(z, m, kind, n, toks) ==
    /\ z \in Seq(Alphabet) /\ m \in Seq(Alphabet) /\ n \in CountSet /\ toks \in Seq(Lexemes)
    /\ ReadsBody(z, kind, n, toks) /\ ReadsBody(m, kind, n, toks)
    /\ Compresses(z, m)

\* Nothing.
LEMMA InsideEnds ==
    ASSUME NEW kind \in Kinds, NEW g \in Seq(Spaces)
    PROVE  ReadsInside(g \o <<Closing[kind]>>, <<>> \o <<Closing[kind]>>, kind, NoStats, Mark(Ends[kind]))
<1> DEFINE c == Closing[kind]
<1>1. c \in DOMAIN Punctuation
  BY Zenon, BracketIs
<1>2. ReadsBody(g \o <<c>>, kind, NoStats, Mark(Ends[kind])) /\ ReadsBody(<<>> \o <<c>>, kind, NoStats, Mark(Ends[kind]))
  BY Zenon, NoGapIsGap, BodyEnds
<1> HIDE DEF c
<1>3. <<c>> \in Seq(Alphabet) /\ Compresses(<<c>>, <<c>>)
  <2>1. c \in Alphabet /\ c \notin Spaces /\ c # Quote
    BY <1>1 DEF Punctuation, Alphabet, Spaces, Quote
  <2>2. <<c>> \in Seq(Alphabet) /\ \A i \in 1 .. Len(<<c>>) : <<c>>[i] \notin Spaces /\ <<c>>[i] # Quote
    BY <2>1
  <2> QED BY Zenon, <2>2, CompressesPlain
<1>4. /\ g \o <<c>> \in Seq(Alphabet) /\ <<>> \o <<c>> \in Seq(Alphabet)
      /\ Compresses(g \o <<c>>, <<>> \o <<c>>)
  BY Zenon, <1>3, CompressesBehindGap
<1>5. NoStats \in CountSet /\ Mark(Ends[kind]) \in Seq(Lexemes)
  BY Zenon, MarkIs, BracketCounts, CountsOfIs
<1> QED BY Zenon, <1>2, <1>4, <1>5 DEF ReadsInside, c

\* A member and what is left.
LEMMA InsideMember ==
    ASSUME NEW kind \in Kinds, NEW g \in Seq(Spaces),
           NEW x, x.text \in Seq(Alphabet), Reads(x), Member(x, kind),
           NEW y, y.text \in Seq(Alphabet), Reads(y), y.kind = Rest[kind]
    PROVE  \E m, toks : ReadsInside(g \o x.text \o y.text, m, kind, Added(x.stats, y.stats), toks)
<1>1. PICK p, a : ReadsLike(x, p, a)
  BY Zenon DEF Reads
<1>2. PICK q, b : ReadsLike(y, q, b)
  BY Zenon DEF Reads
<1>3. /\ p \in Seq(Alphabet) /\ a \in Seq(Lexemes) /\ x.stats \in CountSet
      /\ ReadsAs(x.text, x.kind, x.stats, a) /\ ReadsAs(p, x.kind, x.stats, a) /\ Compresses(x.text, p)
  BY Zenon, <1>1 DEF ReadsLike, Reads
<1>4. /\ q \in Seq(Alphabet) /\ b \in Seq(Lexemes) /\ y.stats \in CountSet
      /\ ReadsAs(y.text, y.kind, y.stats, b) /\ ReadsAs(q, y.kind, y.stats, b) /\ Compresses(y.text, q)
  BY Zenon, <1>2 DEF ReadsLike, Reads
<1>5. \A u : ReadsAs(u, x.kind, x.stats, a) => u # <<>> /\ ReadsMember(u, kind, x.stats, a)
  <2> SUFFICES ASSUME NEW u, ReadsAs(u, x.kind, x.stats, a)
               PROVE  u # <<>> /\ ReadsMember(u, kind, x.stats, a)
    BY Zenon
  <2>1. CASE kind = "object"
    BY Zenon, <2>1 DEF Member, ReadsAs
  <2>2. CASE kind = "array"
    <3>1. kind # "object"
      BY <2>2
    <3>2. ReadsValue(u, x.stats, a) /\ u # <<>>
      BY Zenon, <3>1 DEF Member, ReadsAs
    <3> QED BY Zenon, <2>2, <3>2, ValueIsMember
  <2> QED BY <2>1, <2>2 DEF Kinds
<1>6. \A u : ReadsAs(u, y.kind, y.stats, b) => ReadsRest(u, kind, y.stats, b) /\ StartsDelimited(u)
  BY Zenon DEF ReadsAs
<1> DEFINE n == Added(x.stats, y.stats)
<1>7. ReadsBody(g \o x.text \o y.text, kind, n, a \o b)
  BY Zenon, <1>3, <1>4, <1>5, <1>6, BodyMember
<1>8. ReadsBody(<<>> \o p \o q, kind, n, a \o b)
  BY Zenon, <1>3, <1>4, <1>5, <1>6, NoGapIsGap, BodyMember
<1>9. /\ g \o x.text \in Seq(Alphabet) /\ <<>> \o p \in Seq(Alphabet)
      /\ Compresses(g \o x.text, <<>> \o p)
  BY Zenon, <1>3, CompressesBehindGap
<1>10. /\ g \o x.text \o y.text \in Seq(Alphabet) /\ <<>> \o p \o q \in Seq(Alphabet)
       /\ Compresses(g \o x.text \o y.text, <<>> \o p \o q)
  BY Zenon, <1>4, <1>9, CompressesJoin, JoinIs
<1>11. n \in CountSet /\ a \o b \in Seq(Lexemes)
  BY Zenon, <1>3, <1>4, AddedIs, ConcatProperties
<1>12. ReadsInside(g \o x.text \o y.text, <<>> \o p \o q, kind, n, a \o b)
  BY Zenon, <1>7, <1>8, <1>10, <1>11 DEF ReadsInside
<1> QED BY Zenon, <1>12

\* A container and what is in it ...
LEMMA OpensInside ==
    ASSUME NEW kind \in Kinds, NEW z, NEW m, NEW n, NEW a, ReadsInside(z, m, kind, n, a),
           NEW v, v.kind = kind, v.text = <<Opening[kind]>> \o z, v.stats = Added(Counts(0, 0, 1), n)
    PROVE  Reads(v)
<1> DEFINE c == Opening[kind]
           toks == Mark(Begins[kind]) \o a
<1>1. /\ z \in Seq(Alphabet) /\ m \in Seq(Alphabet) /\ n \in CountSet /\ a \in Seq(Lexemes)
      /\ ReadsBody(z, kind, n, a) /\ ReadsBody(m, kind, n, a) /\ Compresses(z, m)
  BY Zenon DEF ReadsInside
<1>2. c \in DOMAIN Punctuation /\ c \in Alphabet
  BY Zenon, BracketIs, BracketSymbol
<1>3. kind \in ValueKinds
  BY Zenon, KindsDiffer
<1>4. ReadsValue(<<c>> \o z, v.stats, toks) /\ ReadsValue(<<c>> \o m, v.stats, toks)
  BY Zenon, <1>1, ReadsContainer
<1>5. toks \in Seq(Lexemes) /\ v.stats \in CountSet
  <2>1. Counts(0, 0, 1) \in CountSet
    BY DEF Counts, CountSet
  <2> QED BY Zenon, <1>1, <2>1, MarkIs, ConcatProperties, AddedIs
<1> HIDE DEF toks, c
<1>6. <<c>> \o z # <<>> /\ <<c>> \o m # <<>>
  BY Zenon, <1>1, <1>2, BehindSymbol
<1>7. <<c>> \o m \in Seq(Alphabet) /\ Compresses(<<c>> \o z, <<c>> \o m)
  BY Zenon, <1>1, <1>2, CompressesBehindSymbol
<1>8. v.text = <<c>> \o z
  BY Zenon DEF c
<1>9. ReadsAs(v.text, v.kind, v.stats, toks) /\ ReadsAs(<<c>> \o m, v.kind, v.stats, toks)
  BY Zenon, <1>3, <1>4, <1>6, <1>8, AsValue
<1>10. ReadsLike(v, <<c>> \o m, toks)
  BY Zenon, <1>5, <1>7, <1>8, <1>9 DEF ReadsLike
<1> QED BY Zenon, <1>5, <1>10 DEF Reads

\* ... a comma and what is behind it ...
LEMMA CommaInside ==
    ASSUME NEW kind \in Kinds, NEW z, NEW m, NEW n, NEW a, ReadsInside(z, m, kind, n, a), NEW c, c = ",",
           NEW v, v.kind = Rest[kind], v.text = <<c>> \o z, v.stats = Added(NoStats, n)
    PROVE  Reads(v)
<1> DEFINE toks == Mark("COMMA") \o a
<1>1. /\ z \in Seq(Alphabet) /\ m \in Seq(Alphabet) /\ n \in CountSet /\ a \in Seq(Lexemes)
      /\ ReadsBody(z, kind, n, a) /\ ReadsBody(m, kind, n, a) /\ Compresses(z, m)
  BY Zenon DEF ReadsInside
<1>2. c \in DOMAIN Punctuation /\ c \in Alphabet
  BY Zenon, CommaIs, PunctuationSymbol
<1>3. ReadsRest(<<c>> \o z, kind, v.stats, toks) /\ ReadsRest(<<c>> \o m, kind, v.stats, toks)
  BY Zenon, <1>1, ReadsMore
<1>4. StartsDelimited(<<c>> \o z) /\ StartsDelimited(<<c>> \o m)
  BY Zenon, <1>1, StartsIs
<1>5. toks \in Seq(Lexemes) /\ v.stats \in CountSet
  <2>1. NoStats \in CountSet
    BY DEF NoStats, Counts, CountSet
  <2> QED BY Zenon, <1>1, <2>1, MarkIs, ConcatProperties, AddedIs
<1> HIDE DEF toks
<1>6. <<c>> \o z # <<>> /\ <<c>> \o m # <<>>
  BY Zenon, <1>1, <1>2, BehindSymbol
<1>7. <<c>> \o m \in Seq(Alphabet) /\ Compresses(<<c>> \o z, <<c>> \o m)
  BY Zenon, <1>1, <1>2, CompressesBehindSymbol
<1>8. ReadsAs(v.text, v.kind, v.stats, toks) /\ ReadsAs(<<c>> \o m, v.kind, v.stats, toks)
  BY Zenon, <1>3, <1>4, <1>6, AsRest
<1>9. ReadsLike(v, <<c>> \o m, toks)
  BY Zenon, <1>5, <1>7, <1>8 DEF ReadsLike
<1> QED BY Zenon, <1>5, <1>9 DEF Reads

\* ... and the end.
LEMMA ReadsClosing ==
    ASSUME NEW kind \in Kinds, NEW g \in Seq(Spaces),
           NEW v, v.kind = Rest[kind], v.text = g \o <<Closing[kind]>>, v.stats = NoStats
    PROVE  Reads(v)
<1> DEFINE c == Closing[kind]
           m == <<>> \o <<c>>
           toks == Mark(Ends[kind])
<1>1. ReadsRest(g \o <<c>>, kind, NoStats, toks) /\ ReadsRest(m, kind, NoStats, toks)
  BY Zenon, NoGapIsGap, ReadsEnd
<1>2. StartsDelimited(g \o <<c>>) /\ StartsDelimited(m)
  BY Zenon, NoGapIsGap, StartsIs
<1>3. ReadsInside(g \o <<c>>, m, kind, NoStats, toks)
  BY Zenon, InsideEnds
<1> HIDE DEF c, m, toks
<1>4. v.text = g \o <<c>>
  BY Zenon DEF c
<1>5. ReadsAs(v.text, v.kind, v.stats, toks) /\ ReadsAs(m, v.kind, v.stats, toks)
  BY Zenon, <1>1, <1>2, <1>4, AsRest DEF StartsDelimited
<1>6. ReadsLike(v, m, toks)
  BY Zenon, <1>3, <1>4, <1>5 DEF ReadsLike, ReadsInside
<1>7. NoStats \in CountSet
  BY Zenon, <1>3 DEF ReadsInside
<1> QED BY Zenon, <1>6, <1>7 DEF Reads

\* What v is put together from is read as what it is.
PartsRead(v) == \A i \in 1 .. Len(v.parts) : v.parts[i].text \in Seq(Alphabet) /\ Reads(v.parts[i])

\* v is a symbol and what is in a container.
Holds(v, c, kind, counts) ==
    \E z, m, n, toks : ReadsInside(z, m, kind, n, toks) /\ v.text = <<c>> \o z /\ v.stats = Added(counts, n)

\* The text of a container that goes on.
LEMMA ContinuedInside ==
    ASSUME NEW kind \in Kinds, NEW c \in Alphabet, NEW counts, NEW v, Continued(v, c, kind, counts),
           PartsRead(v)
    PROVE  Holds(v, c, kind, counts)
<1> DEFINE x == v.parts[1]
           y == v.parts[2]
<1>0. x.text \in Seq(Alphabet) /\ Reads(x) /\ y.text \in Seq(Alphabet) /\ Reads(y)
  <2>1. Len(v.parts) = 2
    BY Zenon DEF Continued
  <2>2. 1 \in 1 .. Len(v.parts) /\ 2 \in 1 .. Len(v.parts)
    BY <2>1
  <2> QED BY Zenon, <2>2 DEF PartsRead
<1>1. /\ Member(x, kind) /\ y.kind = Rest[kind]
      /\ v.stats = Added(counts, Added(x.stats, y.stats))
      /\ \E g \in Gaps : v.text = <<c>> \o g \o x.text \o y.text
  BY Zenon DEF Continued
<1> HIDE DEF x, y
<1>2. PICK g \in Gaps : v.text = <<c>> \o g \o x.text \o y.text
  BY Zenon, <1>1
<1>3. g \in Seq(Spaces)
  BY Zenon, TextConstants
<1>4. PICK m, toks : ReadsInside(g \o x.text \o y.text, m, kind, Added(x.stats, y.stats), toks)
  BY Zenon, <1>0, <1>1, <1>3, InsideMember
<1>5. v.text = <<c>> \o (g \o x.text \o y.text)
  <2>1. <<c>> \in Seq(Alphabet) /\ g \in Seq(Alphabet)
    BY Zenon, <1>3, OneIs, GapIsText
  <2>2. g \o x.text \in Seq(Alphabet)
    BY Zenon, <1>0, <2>1, JoinIs
  <2>3. (<<c>> \o g) \o x.text = <<c>> \o (g \o x.text)
    BY ZenonT(60), <1>0, <2>1, JoinThen
  <2>4. (<<c>> \o (g \o x.text)) \o y.text = <<c>> \o ((g \o x.text) \o y.text)
    BY ZenonT(60), <1>0, <2>1, <2>2, JoinThen
  <2> QED BY Zenon, <1>2, <2>3, <2>4
<1> QED BY Zenon, <1>1, <1>4, <1>5 DEF Holds

\* A container.
LEMMA ReadsWhole ==
    ASSUME NEW kind \in Kinds, NEW v, Container(v, kind),
           \A c \in Alphabet : \A counts : Continued(v, c, kind, counts) => PartsRead(v)
    PROVE  Reads(v)
<1>1. v.kind = kind
  BY Zenon DEF Container
<1> DEFINE c == Opening[kind]
<1>2. c \in Alphabet
  BY Zenon, BracketSymbol
<1>3. CASE Closed(v, <<c>>, kind, Counts(0, 0, 1))
  <2>1. PICK g \in Gaps : v.text = <<c>> \o g \o <<Closing[kind]>>
    BY Zenon, <1>3 DEF Closed
  <2>2. g \in Seq(Spaces)
    BY Zenon, TextConstants
  <2> DEFINE d == Closing[kind]
  <2>3. d \in Alphabet
    BY Zenon, BracketSymbol
  <2>4. v.text = <<c>> \o g \o <<d>>
    BY Zenon, <2>1
  <2>5. ReadsInside(g \o <<d>>, <<>> \o <<d>>, kind, NoStats, Mark(Ends[kind]))
    BY Zenon, <2>2, InsideEnds
  <2> HIDE DEF c, d
  <2>6. <<c>> \in Seq(Alphabet) /\ g \in Seq(Alphabet) /\ <<d>> \in Seq(Alphabet)
    BY Zenon, <1>2, <2>2, <2>3, OneIs, GapIsText
  <2>7. v.text = <<c>> \o (g \o <<d>>)
    BY Zenon, <2>4, <2>6, JoinThen
  <2>8. v.stats = Added(Counts(0, 0, 1), NoStats)
    <3>1. v.stats = Counts(0, 0, 1)
      BY Zenon, <1>3 DEF Closed
    <3> QED BY <3>1 DEF Added, Counts, NoStats
  <2> QED BY Zenon, <1>1, <2>5, <2>7, <2>8, OpensInside DEF c
<1>4. CASE Continued(v, c, kind, Counts(0, 0, 1))
  <2> HIDE DEF c
  <2>2. PICK z, m, n, toks :
            ReadsInside(z, m, kind, n, toks) /\ v.text = <<c>> \o z /\ v.stats = Added(Counts(0, 0, 1), n)
    <3>1. Holds(v, c, kind, Counts(0, 0, 1))
      BY Zenon, <1>2, <1>4, ContinuedInside
    <3> QED BY Zenon, <3>1 DEF Holds
  <2> QED BY Zenon, <1>1, <2>2, OpensInside DEF c
<1> QED BY Zenon, <1>3, <1>4 DEF Container

\* What is left of one.
LEMMA ReadsRemainder ==
    ASSUME NEW kind \in Kinds, NEW v, Remainder(v, kind),
           \A c \in Alphabet : \A counts : Continued(v, c, kind, counts) => PartsRead(v)
    PROVE  Reads(v)
<1>1. v.kind = Rest[kind]
  BY Zenon DEF Remainder
<1>2. CASE Closed(v, <<>>, kind, NoStats)
  <2>1. PICK g \in Gaps : v.text = <<>> \o g \o <<Closing[kind]>>
    BY Zenon, <1>2 DEF Closed
  <2>2. g \in Seq(Spaces) /\ v.stats = NoStats
    BY Zenon, <1>2, TextConstants DEF Closed
  <2>3. <<>> \o g = g
    BY <2>2
  <2> QED BY Zenon, <1>1, <2>1, <2>2, <2>3, ReadsClosing
<1>3. CASE Continued(v, ",", kind, NoStats)
  <2>2. "," \in Alphabet
    BY DEF Alphabet
  <2>3. PICK z, m, n, toks :
            ReadsInside(z, m, kind, n, toks) /\ v.text = <<",">> \o z /\ v.stats = Added(NoStats, n)
    <3>1. Holds(v, ",", kind, NoStats)
      BY Zenon, <1>3, <2>2, ContinuedInside
    <3> QED BY Zenon, <3>1 DEF Holds
  <2> QED BY Zenon, <1>1, <2>3, CommaInside
<1> QED BY Zenon, <1>2, <1>3 DEF Remainder

\* What something is put together from is printed too, and shorter.
LEMMA PartIs ==
    ASSUME NEW v \in Printed, NEW i \in 1 .. Len(v.parts)
    PROVE  v.parts[i] \in Printed /\ v.parts[i].text \in Seq(Alphabet)
<1>1. v.parts[i] \in Parts(v)
  BY Zenon DEF Parts
<1>2. v.parts[i] \in Printed
  BY Zenon, <1>1, TextConstants
<1> QED BY Zenon, <1>2, TextConstants

LEMMA PairShorter ==
    ASSUME NEW v \in Printed, KeyAndValue(v)
    PROVE  /\ v.parts[1] \in Printed /\ v.parts[1].text \in Seq(Alphabet)
           /\ Len(v.parts[1].text) < Len(v.text)
<1> DEFINE x == v.parts[1].text
           k == json_serialize_append_string(v.source)
<1>1. Len(v.parts) = 1 /\ v.source \in Seq(Alphabet) /\ \E g \in Gaps : v.text = k \o <<":">> \o g \o x
  BY Zenon DEF KeyAndValue
<1>2. 1 \in 1 .. Len(v.parts)
  BY <1>1
<1>3. v.parts[1] \in Printed /\ x \in Seq(Alphabet)
  BY Zenon, <1>2, PartIs
<1>4. PICK w \in Seq(Alphabet) : k = Quoted(w)
  BY Zenon, <1>1, StringIsQuoted
<1>5. k \in Seq(Alphabet) /\ Len(k) = Len(w) + 2 /\ Len(w) \in Nat
  BY <1>4, QuotedIs
<1>6. PICK g \in Gaps : v.text = k \o <<":">> \o g \o x
  BY Zenon, <1>1
<1>7. g \in Seq(Alphabet) /\ ":" \in Alphabet
  <2>1. ":" \in Alphabet
    BY DEF Alphabet
  <2> QED BY Zenon, <2>1, TextConstants, GapIsText
<1> HIDE DEF x, k
<1>8. ASSUME NEW c \in Alphabet PROVE Len(x) < Len(k \o <<c>> \o g \o x)
  <2>1. /\ <<c>> \in Seq(Alphabet) /\ k \o <<c>> \in Seq(Alphabet) /\ k \o <<c>> \o g \in Seq(Alphabet)
    BY Zenon, <1>5, <1>7, OneIs, JoinIs
  <2>2. /\ Len(k \o <<c>>) = Len(k) + Len(<<c>>)
        /\ Len(k \o <<c>> \o g) = Len(k \o <<c>>) + Len(g)
        /\ Len(k \o <<c>> \o g \o x) = Len(k \o <<c>> \o g) + Len(x)
        /\ Len(k) \in Nat /\ Len(g) \in Nat /\ Len(x) \in Nat
    BY Zenon, <1>3, <1>5, <1>7, <2>1, JoinLen
  <2>3. Len(<<c>>) = 1
    BY Zenon, LenOne
  <2> QED BY <1>5, <2>2, <2>3
<1> QED BY Zenon, <1>3, <1>6, <1>7, <1>8 DEF x

LEMMA MembersShorter ==
    ASSUME NEW v \in Printed, NEW c \in Alphabet, NEW kind, NEW counts, Continued(v, c, kind, counts),
           NEW i \in 1 .. Len(v.parts)
    PROVE  /\ v.parts[i] \in Printed /\ v.parts[i].text \in Seq(Alphabet)
           /\ Len(v.parts[i].text) < Len(v.text)
<1> DEFINE x == v.parts[1].text
           y == v.parts[2].text
<1>1. Len(v.parts) = 2 /\ \E g \in Gaps : v.text = <<c>> \o g \o x \o y
  BY Zenon DEF Continued
<1>2. 1 \in 1 .. Len(v.parts) /\ 2 \in 1 .. Len(v.parts) /\ (i = 1 \/ i = 2)
  BY <1>1
<1>3. v.parts[i] \in Printed /\ v.parts[i].text \in Seq(Alphabet) /\ x \in Seq(Alphabet) /\ y \in Seq(Alphabet)
  BY Zenon, <1>2, PartIs
<1>4. PICK g \in Gaps : v.text = <<c>> \o g \o x \o y
  BY Zenon, <1>1
<1>5. g \in Seq(Alphabet)
  BY Zenon, TextConstants, GapIsText
<1> HIDE DEF x, y
<1>6. Len(x) < Len(<<c>> \o g \o x \o y) /\ Len(y) < Len(<<c>> \o g \o x \o y)
  <2>1. /\ <<c>> \in Seq(Alphabet) /\ <<c>> \o g \in Seq(Alphabet) /\ <<c>> \o g \o x \in Seq(Alphabet)
    BY Zenon, <1>3, <1>5, OneIs, JoinIs
  <2>2. /\ Len(<<c>> \o g) = Len(<<c>>) + Len(g)
        /\ Len(<<c>> \o g \o x) = Len(<<c>> \o g) + Len(x)
        /\ Len(<<c>> \o g \o x \o y) = Len(<<c>> \o g \o x) + Len(y)
        /\ Len(g) \in Nat /\ Len(x) \in Nat /\ Len(y) \in Nat
    BY Zenon, <1>3, <1>5, <2>1, JoinLen
  <2>3. Len(<<c>>) = 1
    BY Zenon, LenOne
  <2> QED BY <2>2, <2>3
<1>7. i = 1 => v.parts[i].text = x
  BY Zenon DEF x
<1>8. i = 2 => v.parts[i].text = y
  BY Zenon DEF y
<1> QED BY Zenon, <1>2, <1>3, <1>4, <1>6, <1>7, <1>8

\* Everything that is printed is read as what it is: there is no shortest
\* text that is not.
LEMMA PrintedReads == \A v \in Printed : Reads(v)
<1> DEFINE bad == {k \in Nat : \E v \in Printed : Len(v.text) = k /\ ~Reads(v)}
<1>1. ASSUME bad # {} PROVE FALSE
  <2>1. bad \subseteq Nat
    OBVIOUS
  <2>2. PICK k \in bad : \A x \in bad : k <= x
    BY <1>1, <2>1, LeastNat
  <2>3. k \in Nat /\ \E v \in Printed : Len(v.text) = k /\ ~Reads(v)
    BY Zenon
  <2>4. PICK v \in Printed : Len(v.text) = k /\ ~Reads(v)
    BY Zenon, <2>3
  <2>5. ASSUME NEW x \in Printed, x.text \in Seq(Alphabet), Len(x.text) < Len(v.text) PROVE Reads(x)
    <3>1. Len(x.text) \in Nat /\ ~(k <= Len(x.text))
      BY <2>3, <2>4, <2>5
    <3>2. Len(x.text) \notin bad
      BY Zenon, <2>2, <3>1
    <3> QED BY Zenon, <3>1, <3>2
  <2>6. ASSUME KeyAndValue(v) PROVE FALSE
    <3> DEFINE x == v.parts[1]
    <3>1. x.text \in Seq(Alphabet) /\ Reads(x)
      BY Zenon, <2>5, <2>6, PairShorter
    <3>2. x = v.parts[1]
      BY Zenon
    <3> HIDE DEF x
    <3> QED BY Zenon, <2>4, <2>6, <3>1, <3>2, ReadsKeyAndValue
  <2>7. ASSUME NEW c \in Alphabet, NEW kind, NEW counts, Continued(v, c, kind, counts) PROVE PartsRead(v)
    <3> SUFFICES ASSUME NEW i \in 1 .. Len(v.parts) PROVE v.parts[i].text \in Seq(Alphabet) /\ Reads(v.parts[i])
      BY Zenon DEF PartsRead
    <3> QED BY Zenon, <2>5, <2>7, MembersShorter
  <2>8. ASSUME NEW kind \in Kinds, Container(v, kind) \/ Remainder(v, kind) PROVE FALSE
    BY Zenon, <2>4, <2>7, <2>8, ReadsWhole, ReadsRemainder
  <2>9. v.text \in Seq(Alphabet)
    BY Zenon, TextConstants
  <2> QED BY Zenon, <2>4, <2>6, <2>8, <2>9, ReadsScalar, TextConstants DEF Kinds
<1>2. ASSUME NEW v \in Printed PROVE Reads(v)
  <2>1. v.text \in Seq(Alphabet)
    BY Zenon, TextConstants
  <2>2. Len(v.text) \in Nat
    BY <2>1
  <2> QED BY Zenon, <1>1, <2>2
<1> QED BY Zenon, <1>2

-----------------------------------------------------------------------------
(***************************************************************************)
(* The two loops                                                           *)
(***************************************************************************)
Rests == {<<>>, <<",">>, <<"}", "x">>}

\* A text was printed, with something behind it.
ValueInv == value.kind # "noise" => value \in Values /\ \E rest \in Rests : text = value.text \o rest

LEMMA ValueInit == JInit => ValueInv
<1> SUFFICES ASSUME JInit, value.kind # "noise"
             PROVE  value \in Values /\ \E rest \in Rests : text = value.text \o rest
  BY Zenon DEF ValueInv
<1>1. value # NoValue
  BY DEF NoValue
<1> QED BY Zenon, <1>1 DEF JInit, Rests

LEMMA ValueStep == ValueInv /\ [JNext]_jvars => ValueInv'
<1> SUFFICES ASSUME ValueInv, [JNext]_jvars PROVE ValueInv'
  OBVIOUS
<1>1. UNCHANGED <<value, text>>
  BY Zenon DEF JNext, json_skip_token_value, json_get_stats_string, Finished, jvars
<1> QED BY <1>1 DEF ValueInv

\* What is behind it is no white space, and in front of it a value ends.
Tails == {",", "}", "x"}
Stops == {",", "}"}

LEMMA RestSymbols ==
    ASSUME NEW rest \in Rests
    PROVE  /\ \A i \in 1 .. Len(rest) : rest[i] \in Tails
           /\ Len(rest) # 0 => rest[1] \in Stops
<1>0. "," \in Tails /\ "}" \in Tails /\ "x" \in Tails /\ "," \in Stops /\ "}" \in Stops
  BY DEF Tails, Stops
<1>1. CASE rest = <<>>
  <2>1. Len(rest) = 0
    BY <1>1
  <2> QED BY <2>1
<1>2. CASE rest = <<",">>
  <2>1. Len(rest) = 1 /\ rest[1] = ","
    BY <1>2
  <2>2. ASSUME NEW i \in 1 .. 1 PROVE i = 1
    OBVIOUS
  <2>3. \A i \in 1 .. 1 : rest[i] \in Tails
    BY Zenon, <1>0, <2>1, <2>2
  <2> QED BY Zenon, <1>0, <2>1, <2>3
<1>3. CASE rest = <<"}", "x">>
  <2>1. Len(rest) = 2 /\ rest[1] = "}" /\ rest[2] = "x"
    BY <1>3
  <2>2. ASSUME NEW i \in 1 .. 2 PROVE i = 1 \/ i = 2
    OBVIOUS
  <2>3. \A i \in 1 .. 2 : rest[i] \in Tails
    BY Zenon, <1>0, <2>1, <2>2
  <2> QED BY Zenon, <1>0, <2>1, <2>3
<1> QED BY Zenon, <1>1, <1>2, <1>3 DEF Rests

LEMMA TailAt ==
    ASSUME NEW t, NEW k \in Nat, NEW n \in Nat, Len(t) = k + n, NEW class,
           \A i \in 1 .. n : t[k + i] \in class
    PROVE  \A q \in k + 1 .. Len(t) : t[q] \in class
<1> SUFFICES ASSUME NEW q \in k + 1 .. Len(t) PROVE t[q] \in class
  OBVIOUS
<1>1. q - k \in 1 .. n /\ k + (q - k) = q
  OBVIOUS
<1> QED BY <1>1

\* Where the value ends.
LEMMA RestAt ==
    ASSUME NEW u \in Seq(Alphabet), NEW rest \in Rests, NEW t, t = u \o rest
    PROVE  /\ t \in Seq(Alphabet) /\ rest \in Seq(Alphabet)
           /\ Len(t) = Len(u) + Len(rest) /\ Len(u) \in Nat
           /\ Here(t, 1, u)
           /\ Here(t, 1 + Len(u), rest)
           /\ \A q \in Len(u) + 1 .. Len(t) : t[q] \in Tails
           /\ Delimited(t, 1 + Len(u))
<1>1. rest \in Seq(Alphabet)
  BY Zenon, RestIs DEF Rests
<1>2. t \in Seq(Alphabet) /\ Len(t) = Len(u) + Len(rest) /\ Len(u) \in Nat /\ Len(rest) \in Nat
  BY Zenon, <1>1, JoinIs, JoinLen
<1>3. Here(t, 1, t)
  BY <1>2 DEF Here
<1>4. Here(t, 1, u) /\ Here(t, 1 + Len(u), rest)
  BY Zenon, <1>1, <1>2, <1>3, HereJoin
<1>5. \A i \in 1 .. Len(rest) : rest[i] \in Tails /\ t[Len(u) + i] = rest[i]
  BY Zenon, <1>1, RestSymbols, JoinIs
<1>6. \A q \in Len(u) + 1 .. Len(t) : t[q] \in Tails
  <2>1. \A i \in 1 .. Len(rest) : t[Len(u) + i] \in Tails
    BY Zenon, <1>5
  <2> QED BY Zenon, <1>2, <2>1, TailAt
<1>7. Delimited(t, 1 + Len(u))
  <2> SUFFICES ASSUME 1 + Len(u) <= Len(t) PROVE t[1 + Len(u)] \in Delimiters
    BY Zenon DEF Delimited
  <2> DEFINE k == Len(u)
             n == Len(rest)
             at == t[1 + k]
  <2>1. k \in Nat /\ n \in Nat /\ Len(t) = k + n /\ 1 + k <= Len(t)
    BY Zenon, <1>2
  <2>2. n # 0 => rest[1] \in Stops
    BY Zenon, RestSymbols
  <2>3. \A i \in 1 .. n : t[k + i] = rest[i]
    BY Zenon, <1>5
  <2> HIDE DEF k, n
  <2>4. n # 0 /\ 1 \in 1 .. n /\ 1 + k = k + 1
    BY <2>1
  <2>5. at = rest[1]
    BY Zenon, <2>3, <2>4
  <2>6. at \in Stops
    BY Zenon, <2>2, <2>4, <2>5
  <2>7. Stops \subseteq Delimiters
    BY DEF Stops, Delimiters
  <2> QED BY Zenon, <2>6, <2>7 DEF k
<1> QED BY Zenon, <1>1, <1>2, <1>4, <1>6, <1>7

\* Where a reader of the text ends up
Final(toks) == Reader(Len(value.text) + 1, <<>>, "SUCCESS", value.stats, toks)

\* From the beginning it gets there.
LEMMA ReadsText ==
    ASSUME ValueInv, value.kind # "noise"
    PROVE  /\ value.stats \in CountSet
           /\ \E toks : Reaches(text, Reader(1, <<>>, "value", NoStats, <<>>), Final(toks))
<1>1. value \in Printed /\ value.kind \in ValueKinds /\ value.text \in Seq(Alphabet)
  BY Zenon, TextConstants DEF ValueInv, Values
<1>2. PICK rest \in Rests : text = value.text \o rest
  BY Zenon DEF ValueInv
<1>3. value.stats \in CountSet /\ \E m, toks : ReadsLike(value, m, toks)
  BY Zenon, <1>1, PrintedReads DEF Reads
<1>4. PICK m, toks : ReadsLike(value, m, toks)
  BY Zenon, <1>3
<1>5. toks \in Seq(Lexemes) /\ ReadsValue(value.text, value.stats, toks)
  BY Zenon, <1>1, <1>4 DEF ReadsLike, ReadsAs
<1>6. text \in Seq(Alphabet) /\ Here(text, 1, value.text) /\ Delimited(text, 1 + Len(value.text))
      /\ Len(value.text) \in Nat
  BY Zenon, <1>1, <1>2, RestAt
<1>7. <<>> \in Seq(Kinds) /\ "value" \in {"value", "item"} /\ Back(<<>>) = "SUCCESS" /\ <<>> \in Seq(Lexemes)
  BY DEF Back
<1>8. Passes(text, 1, <<>>, "value", 1 + Len(value.text), <<>>, "SUCCESS", value.stats, toks)
  BY Zenon, <1>5, <1>6, <1>7 DEF ReadsValue
<1>9. NoStats \in CountSet
  BY DEF NoStats, Counts, CountSet
<1>10. Reaches(text, Reader(1, <<>>, "value", NoStats, <<>>),
                     Reader(1 + Len(value.text), <<>>, "SUCCESS", Added(NoStats, value.stats), <<>> \o toks))
  BY Zenon, <1>7, <1>8, <1>9 DEF Passes
<1>11. Added(NoStats, value.stats) = value.stats
  BY Zenon, <1>3, AddedIs
<1>12. <<>> \o toks = toks
  BY <1>5
<1>13. 1 + Len(value.text) = Len(value.text) + 1
  BY <1>6
<1>14. Reaches(text, Reader(1, <<>>, "value", NoStats, <<>>), Final(toks))
  BY Zenon, <1>10, <1>11, <1>12, <1>13 DEF Final
<1> QED BY Zenon, <1>3, <1>14

\* A turn on the way there, by a reader that is not there.
LEMMA ReaderMoves ==
    ASSUME NEW p, NEW calls, NEW want, NEW counts, NEW kept, NEW toks,
           NEW c, c = Reader(p, calls, want, counts, kept), c # Final(toks), Reaches(text, c, Final(toks))
    PROVE  /\ want \notin {"SUCCESS", "ERROR_INVALID_INPUT"}
           /\ TokenAt(text, p).type \notin {"EOF", "NONE"}
           /\ Reaches(text,
                 Reader(TokenAt(text, p).next,
                        CallsAfter(calls, want, TokenAt(text, p).type),
                        WantAfter(calls, want, TokenAt(text, p).type),
                        Added(counts, CountsOf(TokenAt(text, p).type)),
                        Append(kept, Entry(text, p))), Final(toks))
<1>1. c.at = p /\ c.calls = calls /\ c.want = want /\ c.counts = counts /\ c.kept = kept
  BY ReaderIs
<1>2. ~Stopped(text, c)
  BY Zenon, ReachStopped DEF Turn
<1>3. Turn(text, c) = Moved(text, c)
  BY Zenon, <1>2 DEF Turn
<1>4. Reaches(text, Moved(text, c), Final(toks))
  BY Zenon, <1>3, ReachOn
<1>5. Moved(text, c) =
          Reader(TokenAt(text, p).next,
                 CallsAfter(calls, want, TokenAt(text, p).type),
                 WantAfter(calls, want, TokenAt(text, p).type),
                 Added(counts, CountsOf(TokenAt(text, p).type)),
                 Append(kept, Entry(text, p)))
  BY Zenon, <1>1 DEF Moved
<1>6. want \notin {"SUCCESS", "ERROR_INVALID_INPUT"} /\ TokenAt(text, p).type \notin {"EOF", "NONE"}
  BY Zenon, <1>1, <1>2 DEF Stopped, Over
<1> QED BY Zenon, <1>4, <1>5, <1>6

\* One that wants nothing is there.
LEMMA ReaderThere ==
    ASSUME NEW p, NEW calls, NEW want \in {"SUCCESS", "ERROR_INVALID_INPUT"}, NEW counts, NEW kept, NEW toks,
           Reaches(text, Reader(p, calls, want, counts, kept), Final(toks))
    PROVE  /\ p = Len(value.text) + 1
           /\ want = "SUCCESS"
           /\ counts = value.stats
<1> DEFINE c == Reader(p, calls, want, counts, kept)
<1>1. c.at = p /\ c.want = want /\ c.counts = counts
  BY DEF Reader
<1>2. Final(toks).at = Len(value.text) + 1 /\ Final(toks).want = "SUCCESS" /\ Final(toks).counts = value.stats
  BY DEF Reader, Final
<1>3. Reaches(text, c, Final(toks))
  BY Zenon
<1> HIDE DEF c
<1>4. Turn(text, c) = c
  BY Zenon, <1>1 DEF Turn, Stopped
<1>5. c = Final(toks)
  BY Zenon, <1>3, <1>4, ReachStopped
<1> QED BY Zenon, <1>1, <1>2, <1>5

\* json_skip_token_value is on the way to the end of the value.
SkipsInv ==
    (mode = "skip" /\ value.kind # "noise") =>
        \E counts, kept, toks : Reaches(text, Reader(position, stack, pc, counts, kept), Final(toks))

LEMMA SkipsInit == JInit => SkipsInv
<1> SUFFICES ASSUME JInit, mode = "skip", value.kind # "noise"
             PROVE  \E counts, kept, toks : Reaches(text, Reader(position, stack, pc, counts, kept), Final(toks))
  BY Zenon DEF SkipsInv
<1>1. position = 1 /\ stack = <<>> /\ pc = "value"
  BY Zenon DEF JInit
<1> QED BY Zenon, <1>1, ValueInit, ReadsText

LEMMA SkipsStep ==
    ASSUME JInv, ValueInv, SkipsInv, [JNext]_jvars
    PROVE  SkipsInv'
<1>1. CASE json_skip_token_value
  <2> SUFFICES ASSUME value.kind # "noise"
               PROVE  \E counts, kept, toks : Reaches(text', Reader(position', stack', pc', counts, kept), Final(toks)')
    BY Zenon, <1>1 DEF SkipsInv, json_skip_token_value
  <2>1. mode = "skip" /\ value' = value /\ text' = text /\ position' = TokenAt(text, position).next
        /\ pc \in {"value", "item", "key", "colon", "separator"}
    BY Zenon, <1>1 DEF json_skip_token_value, Advance, json_parse_token
  <2>2. PICK counts, kept, toks : Reaches(text, Reader(position, stack, pc, counts, kept), Final(toks))
    BY Zenon, <2>1 DEF SkipsInv
  <2>3. pc # "SUCCESS"
    BY <2>1
  <2> DEFINE c == Reader(position, stack, pc, counts, kept)
             type == TokenAt(text, position).type
  <2>4. c.want = pc /\ Final(toks).want = "SUCCESS"
    BY DEF Reader, Final
  <2>5. c = Reader(position, stack, pc, counts, kept) /\ Reaches(text, c, Final(toks))
    BY Zenon, <2>2
  <2>6. type = TokenAt(text, position).type
    BY Zenon
  <2> HIDE DEF c, type
  <2>7. c # Final(toks)
    BY Zenon, <2>3, <2>4
  <2>8. type \notin {"EOF", "NONE"}
    BY ZenonT(60), <2>5, <2>6, <2>7, ReaderMoves
  <2>9. stack' = CallsAfter(stack, pc, type) /\ pc' = WantAfter(stack, pc, type)
    BY Zenon, <1>1, <2>6, <2>8, SkipIsTurn
  <2>10. Reaches(text, Reader(position', stack', pc', Added(counts, CountsOf(type)), Append(kept, Entry(text, position))),
                 Final(toks))
    BY Zenon, <2>1, <2>5, <2>6, <2>7, <2>9, ReaderMoves
  <2>11. Final(toks)' = Final(toks)
    BY <2>1 DEF Final
  <2> QED BY Zenon, <2>1, <2>10, <2>11
<1>2. CASE json_get_stats_string
  <2>1. mode' = "stats"
    BY Zenon, <1>2 DEF json_get_stats_string
  <2> QED BY <2>1 DEF SkipsInv
<1>3. CASE UNCHANGED jvars
  BY <1>3 DEF SkipsInv, jvars, Final
<1> QED BY Zenon, <1>1, <1>2, <1>3 DEF JNext, Finished

\* json_skip_token_value, whatever value was printed, however deeply it is
\* nested and whatever follows it, accepts it and passes over exactly its text:
\* the loader goes on at what follows the metadata it does not know.
THEOREM ValuesSkipped == JSpec => []SkipsWholeValue
<1>1. JInit => JInv /\ ValueInv /\ SkipsInv
  BY Zenon, JInitInv, ValueInit, SkipsInit
<1>2. ASSUME JInv, ValueInv, SkipsInv, [JNext]_jvars PROVE ValueInv' /\ SkipsInv'
  BY Zenon, <1>2, ValueStep, SkipsStep
<1>3. ASSUME SkipsInv PROVE SkipsWholeValue
  <2> SUFFICES ASSUME mode = "skip", Done, value.kind # "noise"
               PROVE  pc = "SUCCESS" /\ position = Len(value.text) + 1
    BY Zenon DEF SkipsWholeValue
  <2>1. PICK counts, kept, toks : Reaches(text, Reader(position, stack, pc, counts, kept), Final(toks))
    BY Zenon, <1>3 DEF SkipsInv
  <2>2. pc \in {"SUCCESS", "ERROR_INVALID_INPUT"}
    BY Zenon DEF Done
  <2>3. pc = "SUCCESS" /\ position = Len(value.text) + 1
    BY Zenon, <2>1, <2>2, ReaderThere
  <2> QED BY <2>3
<1> QED BY <1>1, <1>2, <1>3, JsonReading, PTL DEF JSpec

-----------------------------------------------------------------------------
(***************************************************************************)
(* json_get_stats_string                                                   *)
(***************************************************************************)

\* What may come behind a value counts as nothing.
LEMMA TailToken ==
    ASSUME NEW t \in Seq(Alphabet), NEW p \in 1 .. Len(t) + 1, p <= Len(t) => t[p] \in Tails
    PROVE  CountsOf(TokenAt(t, p).type) = NoStats /\ TokenAt(t, p).next \in {p, p + 1}
<1>1. CASE p > Len(t)
  <2>1. p \in p .. Len(t) + 1 /\ (\A r \in p .. p - 1 : t[r] \in Spaces) /\ ~(p <= Len(t))
    BY <1>1
  <2>2. Past(t, p, Spaces) = p
    BY Zenon, <2>1, PastAt
  <2>3. TokenAt(t, p) = Token("EOF", <<>>, p)
    BY Zenon, <1>1, <2>2 DEF TokenAt
  <2>4. TokenAt(t, p).type = "EOF" /\ TokenAt(t, p).next = p
    BY <2>3 DEF Token
  <2>5. CountsOf("EOF") = NoStats
    BY DEF CountsOf, NoStats
  <2> QED BY Zenon, <2>4, <2>5
<1>2. CASE p <= Len(t) /\ t[p] # "x"
  <2>1. p \in 1 .. Len(t)
    BY <1>2
  <2>2. t[p] \in {",", "}"}
    BY Zenon, <1>2 DEF Tails
  <2>3. t[p] \in DOMAIN Punctuation /\ Punctuation[t[p]] \in {"COMMA", "OBJECT_END"}
    <3>1. "," \in DOMAIN Punctuation /\ "}" \in DOMAIN Punctuation
      BY Zenon, PunctuationIs
    <3> QED BY Zenon, <2>2, <3>1, PunctuationIs
  <2>4. TokenAt(t, p) = Token(Punctuation[t[p]], <<>>, p + 1)
    BY Zenon, <2>1, <2>3, PunctuationAt
  <2>5. TokenAt(t, p).type = Punctuation[t[p]] /\ TokenAt(t, p).next = p + 1
    BY <2>4 DEF Token
  <2>6. CountsOf("COMMA") = NoStats /\ CountsOf("OBJECT_END") = NoStats
    BY DEF CountsOf, NoStats
  <2> QED BY Zenon, <2>3, <2>5, <2>6
<1>3. CASE p <= Len(t) /\ t[p] = "x"
  <2>1. p \in 1 .. Len(t)
    BY <1>3
  <2>2. /\ "x" \notin Spaces /\ "x" \notin DOMAIN Punctuation /\ "x" # Quote
        /\ "x" \notin Words /\ "x" \notin Digits \cup {"-"}
    BY DEF Punctuation, Spaces, Words, Quote, Digits
  <2>3. Past(t, p, Spaces) = p /\ ~(p > Len(t))
    BY Zenon, <1>3, <2>1, <2>2, NoGap
  <2>4. TokenAt(t, p) = Token("NONE", <<>>, p)
    BY Zenon, <1>3, <2>2, <2>3 DEF TokenAt
  <2>5. TokenAt(t, p).type = "NONE" /\ TokenAt(t, p).next = p
    BY <2>4 DEF Token
  <2>6. CountsOf("NONE") = NoStats
    BY DEF CountsOf, NoStats
  <2> QED BY Zenon, <2>5, <2>6
<1>4. p > Len(t) \/ p <= Len(t)
  OBVIOUS
<1> QED BY Zenon, <1>1, <1>2, <1>3, <1>4

\* It has not passed the whole value, and counts on, ...
Counting ==
    pc = "count" /\ \E calls, want, kept, toks :
        /\ Reader(position, calls, want, stats, kept) # Final(toks)
        /\ Reaches(text, Reader(position, calls, want, stats, kept), Final(toks))

\* ... or it has, and nothing that counts is left.
CountedUp == stats = value.stats /\ \A q \in position .. Len(text) : text[q] \in Tails

CountsInv == (mode = "stats" /\ value.kind # "noise") => Counting \/ CountedUp

LEMMA CountsInit == JInit => CountsInv
<1> SUFFICES ASSUME JInit, mode = "stats", value.kind # "noise"
             PROVE  Counting
  BY Zenon DEF CountsInv
<1>1. position = 1 /\ pc = "count" /\ stats = NoStats
  BY DEF JInit
<1>2. PICK toks : Reaches(text, Reader(1, <<>>, "value", NoStats, <<>>), Final(toks))
  BY Zenon, ValueInit, ReadsText
<1>3. Reader(1, <<>>, "value", NoStats, <<>>) # Final(toks)
  BY DEF Reader, Final
<1> QED BY Zenon, <1>1, <1>2, <1>3 DEF Counting

\* One token more.
LEMMA CountedIs == \A type : Counted(type) = Added(stats, CountsOf(type))
BY DEF Counted, Added, Counts, CountsOf

LEMMA CountsStep ==
    ASSUME JInv, ValueInv, CountsInv, [JNext]_jvars
    PROVE  CountsInv'
<1>1. CASE json_get_stats_string
  <2> SUFFICES ASSUME value.kind # "noise" PROVE Counting' \/ CountedUp'
    BY Zenon, <1>1 DEF CountsInv, json_get_stats_string
  <2> DEFINE type == TokenAt(text, position).type
             next == TokenAt(text, position).next
             p == position
  <2>1. /\ mode = "stats" /\ pc = "count" /\ value' = value /\ text' = text /\ position' = next
        /\ type # "EOF" => pc' = pc
        /\ stats' = Added(stats, CountsOf(type))
    BY Zenon, <1>1, CountedIs DEF json_get_stats_string, Advance, json_parse_token
  <2>2. CASE Counting
    <3>1. PICK calls, want, kept, toks :
            /\ Reader(position, calls, want, stats, kept) # Final(toks)
            /\ Reaches(text, Reader(position, calls, want, stats, kept), Final(toks))
      BY Zenon, <2>2 DEF Counting
    <3> DEFINE calls2 == CallsAfter(calls, want, type)
               want2 == WantAfter(calls, want, type)
               kept2 == Append(kept, Entry(text, position))
               c == Reader(next, calls2, want2, stats', kept2)
    <3>2. type \notin {"EOF", "NONE"} /\ Reaches(text, c, Final(toks))
      BY ZenonT(60), <2>1, <3>1, ReaderMoves
    <3>3. pc' = "count"
      BY Zenon, <2>1, <3>2
    <3>4. Final(toks)' = Final(toks)
      BY <2>1 DEF Final
    <3>5. CASE c # Final(toks)
      BY Zenon, <2>1, <3>2, <3>3, <3>4, <3>5 DEF Counting
    <3>6. CASE c = Final(toks)
      <4>1. next = Len(value.text) + 1 /\ stats' = value.stats
        BY <3>6 DEF Reader, Final
      <4>2. \A q \in Len(value.text) + 1 .. Len(text) : text[q] \in Tails
        <5>1. value.text \in Seq(Alphabet)
          BY Zenon, TextConstants DEF ValueInv, Values
        <5>2. PICK rest \in Rests : text = value.text \o rest
          BY Zenon DEF ValueInv
        <5> QED BY Zenon, <5>1, <5>2, RestAt
      <4> QED BY Zenon, <2>1, <4>1, <4>2 DEF CountedUp
    <3> QED BY Zenon, <3>5, <3>6
  <2>3. CASE CountedUp
    <3>1. text \in Seq(Alphabet) /\ p \in 1 .. Len(text) + 1
      BY Zenon DEF JInv, JTypeOK
    <3>2. \A q \in p .. Len(text) : text[q] \in Tails
      BY Zenon, <2>3 DEF CountedUp
    <3>3. p <= Len(text) => p \in p .. Len(text)
      BY <3>1
    <3>4. CountsOf(type) = NoStats /\ next \in {p, p + 1}
      BY Zenon, <3>1, <3>2, <3>3, TailToken
    <3> HIDE DEF p, next
    <3>5. \A q \in next .. Len(text) : q \in p .. Len(text)
      BY <3>1, <3>4
    <3>6. stats' = value.stats
      <4>1. value.stats \in CountSet
        BY Zenon, ReadsText
      <4>2. Added(value.stats, NoStats) = value.stats
        BY Zenon, <4>1, AddedIs
      <4> QED BY Zenon, <2>1, <2>3, <3>4, <4>2 DEF CountedUp
    <3> QED BY Zenon, <2>1, <3>2, <3>5, <3>6 DEF CountedUp
  <2> QED BY Zenon, <2>1, <2>2, <2>3 DEF CountsInv
<1>2. CASE json_skip_token_value
  <2>1. mode' = "skip"
    BY Zenon, <1>2 DEF json_skip_token_value
  <2> QED BY <2>1 DEF CountsInv
<1>3. CASE UNCHANGED jvars
  <2>1. UNCHANGED <<mode, value, text, position, pc, stats>>
    BY <1>3 DEF jvars
  <2>2. \A toks : Final(toks)' = Final(toks)
    BY <2>1 DEF Final
  <2>3. Counting => Counting'
    BY Zenon, <2>1, <2>2 DEF Counting
  <2>4. CountedUp => CountedUp'
    BY <2>1 DEF CountedUp
  <2> QED BY Zenon, <2>1, <2>3, <2>4 DEF CountsInv
<1> QED BY Zenon, <1>1, <1>2, <1>3 DEF JNext, Finished

\* json_get_stats_string, whatever value was printed, however deeply it is
\* nested: once it has read the text to its end, its counters are those of the
\* strings and keys, of the other fields and of the objects and arrays in the
\* value, and what follows the value adds nothing.
THEOREM StatsCounted == JSpec => []StatsExact
<1>1. JInit => JInv /\ ValueInv /\ CountsInv
  BY Zenon, JInitInv, ValueInit, CountsInit
<1>2. ASSUME JInv, ValueInv, CountsInv, [JNext]_jvars PROVE ValueInv' /\ CountsInv'
  BY Zenon, <1>2, ValueStep, CountsStep
<1>3. ASSUME CountsInv PROVE StatsExact
  <2>1. Done => pc # "count"
    BY DEF Done
  <2> QED BY Zenon, <1>3, <2>1 DEF StatsExact, CountsInv, Counting, CountedUp
<1> QED BY <1>1, <1>2, <1>3, JsonReading, PTL DEF JSpec

-----------------------------------------------------------------------------
(***************************************************************************)
(* The tokens of a text and of what json_compress makes of it              *)
(***************************************************************************)
Wants == {"value", "item", "key", "colon", "separator", "SUCCESS", "ERROR_INVALID_INPUT"}

Readers(t) ==
    [at : 1 .. Len(t) + 1, calls : Seq(Kinds), want : Wants, counts : CountSet, kept : Seq(Entries(t))]

\* A turn leaves a reader of t a reader of t.
LEMMA CallsAfterIs ==
    ASSUME NEW s \in Seq(Kinds), NEW want, NEW type
    PROVE  CallsAfter(s, want, type) \in Seq(Kinds)
<1>1. Front(s) \in Seq(Kinds)
  BY DEF Front
<1>2. "object" \in Kinds /\ "array" \in Kinds
  BY DEF Kinds
<1>3. Append(s, "object") \in Seq(Kinds) /\ Append(s, "array") \in Seq(Kinds)
  BY Zenon, <1>2, CallIs
<1> QED BY Zenon, <1>1, <1>3 DEF CallsAfter

LEMMA WantAfterIs == \A s, want, type : WantAfter(s, want, type) \in Wants
BY ZenonT(60) DEF WantAfter, Back, First, Wants

LEMMA MovedIs ==
    ASSUME NEW t \in Seq(Alphabet), NEW r \in Readers(t)
    PROVE  Moved(t, r) \in Readers(t)
<1> DEFINE type == TokenAt(t, r.at).type
           next == TokenAt(t, r.at).next
           calls == CallsAfter(r.calls, r.want, type)
           want == WantAfter(r.calls, r.want, type)
           counts == Added(r.counts, CountsOf(type))
           kept == Append(r.kept, Entry(t, r.at))
<1>1. r.at \in 1 .. Len(t) + 1 /\ r.calls \in Seq(Kinds) /\ r.counts \in CountSet /\ r.kept \in Seq(Entries(t))
  BY Zenon DEF Readers
<1>2. next \in 1 .. Len(t) + 1
  <2>1. next \in r.at .. Len(t) + 1
    BY Zenon, <1>1, TokenAtIs
  <2> HIDE DEF next
  <2> QED BY <1>1, <2>1
<1>3. calls \in Seq(Kinds) /\ want \in Wants
  BY Zenon, <1>1, CallsAfterIs, WantAfterIs
<1>4. counts \in CountSet
  BY Zenon, <1>1, CountsOfIs, AddedIs
<1>5. kept \in Seq(Entries(t))
  <2>1. Entry(t, r.at) \in Entries(t)
    BY Zenon, <1>1 DEF Entries
  <2> DEFINE e == Entry(t, r.at)
             E == Entries(t)
  <2>2. e \in E
    BY Zenon, <2>1
  <2>3. r.kept \in Seq(E)
    BY Zenon, <1>1
  <2> HIDE DEF e, E
  <2>4. Append(r.kept, e) \in Seq(E)
    BY <2>2, <2>3
  <2> QED BY Zenon, <2>4 DEF e, E
<1>6. Moved(t, r) = Reader(next, calls, want, counts, kept)
  BY Zenon DEF Moved
<1> HIDE DEF next, calls, want, counts, kept
<1>7. Reader(next, calls, want, counts, kept) \in Readers(t)
  BY Zenon, <1>2, <1>3, <1>4, <1>5 DEF Reader, Readers
<1> QED BY Zenon, <1>6, <1>7

\* Sequences can be joined in any order.
LEMMA JoinAny ==
    ASSUME NEW X, NEW a \in Seq(X), NEW e \in X, NEW b \in Seq(X)
    PROVE  Append(a, e) \o b = a \o (<<e>> \o b)
<1> DEFINE c == <<e>>
<1>1. c \in Seq(X) /\ Append(a, e) = a \o c
  OBVIOUS
<1> HIDE DEF c
<1>2. (a \o c) \o b = a \o (c \o b)
  BY <1>1, ConcatAssociative
<1> QED BY Zenon, <1>1, <1>2 DEF c

\* Whatever has been read from the beginning, what has been kept and what is
\* still to come are the tokens of the text.
LEMMA KeptIs ==
    ASSUME NEW t \in Seq(Alphabet), NEW g, TokensFrom(t, 1, g), NEW d,
           Reaches(t, Reader(1, <<>>, "value", NoStats, <<>>), d)
    PROVE  d.kept \o g[d.at] = g[1]
<1> DEFINE c == Reader(1, <<>>, "value", NoStats, <<>>)
           E == Entries(t)
           S == {r \in Readers(t) : r.kept \o g[r.at] = g[1]}
<1>0. /\ g \in [1 .. Len(t) + 1 -> Seq(E)]
      /\ \A p \in 1 .. Len(t) + 1 :
            g[p] = IF Over(t, p) THEN <<>> ELSE <<Entry(t, p)>> \o g[TokenAt(t, p).next]
  BY Zenon DEF TokensFrom
<1>1. Len(t) \in Nat /\ 1 \in 1 .. Len(t) + 1
  OBVIOUS
<1>2. g[1] \in Seq(E)
  BY Zenon, <1>0, <1>1
<1>3. c \in Readers(t)
  <2>1. <<>> \in Seq(Kinds) /\ <<>> \in Seq(Entries(t)) /\ "value" \in Wants
    <3> HIDE DEF E
    <3>1. <<>> \in Seq(E)
      OBVIOUS
    <3>2. <<>> \in Seq(Kinds) /\ "value" \in Wants
      BY DEF Wants
    <3> QED BY Zenon, <3>1, <3>2 DEF E
  <2>2. NoStats \in CountSet
    BY DEF NoStats, Counts, CountSet
  <2> QED BY Zenon, <1>1, <2>1, <2>2 DEF Reader, Readers
<1>4. c \in S
  <2>1. c.kept = <<>> /\ c.at = 1
    BY DEF Reader
  <2>2. <<>> \o g[1] = g[1]
    <3> HIDE DEF E
    <3> QED BY <1>2
  <2> HIDE DEF c
  <2> QED BY Zenon, <1>3, <2>1, <2>2
<1>5. ASSUME NEW r \in S PROVE Turn(t, r) \in S
  <2>1. r \in Readers(t) /\ r.kept \o g[r.at] = g[1]
    BY Zenon
  <2>2. CASE Stopped(t, r)
    BY Zenon, <2>2 DEF Turn
  <2>3. CASE ~Stopped(t, r)
    <3> DEFINE m == Moved(t, r)
               e == Entry(t, r.at)
               next == TokenAt(t, r.at).next
    <3>1. m \in Readers(t)
      BY Zenon, <2>1, MovedIs
    <3>2. m.kept = Append(r.kept, e) /\ m.at = next
      BY DEF Moved, Reader
    <3>3. r.at \in 1 .. Len(t) + 1 /\ r.kept \in Seq(E) /\ next \in 1 .. Len(t) + 1
      BY Zenon, <2>1, <3>1, <3>2 DEF Readers
    <3>4. g[r.at] = <<e>> \o g[next]
      BY Zenon, <1>0, <2>3, <3>3 DEF Stopped
    <3>5. e \in E /\ g[next] \in Seq(E)
      BY Zenon, <1>0, <3>3 DEF Entries
    <3>6. Append(r.kept, e) \o g[next] = r.kept \o (<<e>> \o g[next])
      <4> DEFINE k == r.kept
                 y == g[next]
      <4>1. k \in Seq(E) /\ y \in Seq(E) /\ e \in E
        BY Zenon, <3>3, <3>5
      <4> HIDE DEF k, y, e, E
      <4>2. Append(k, e) \o y = k \o (<<e>> \o y)
        BY <4>1, JoinAny
      <4> QED BY Zenon, <4>2 DEF k, y
    <3>7. m.kept \o g[m.at] = g[1]
      BY Zenon, <2>1, <3>2, <3>4, <3>6
    <3>8. Turn(t, r) = m
      BY Zenon, <2>3 DEF Turn
    <3> HIDE DEF m
    <3> QED BY Zenon, <3>1, <3>7, <3>8
  <2> QED BY Zenon, <2>2, <2>3
<1> HIDE DEF S
<1>6. d \in S
  BY Zenon, <1>4, <1>5 DEF Reaches
<1> QED BY Zenon, <1>6 DEF S

\* The tokens of what comes behind a value
RestTokens(rest) ==
    IF rest = <<>> THEN <<>> ELSE IF rest = <<",">> THEN Mark("COMMA") ELSE Mark("OBJECT_END")

\* u is the end of t, from position p on.
EndsWith(t, p, u) == Here(t, p, u) /\ p + Len(u) = Len(t) + 1

LEMMA RestTokensAt ==
    ASSUME NEW t \in Seq(Alphabet), NEW g, TokensFrom(t, 1, g), NEW rest \in Rests, NEW p,
           EndsWith(t, p, rest)
    PROVE  g[p] = RestTokens(rest)
<1>0. Here(t, p, rest) /\ p + Len(rest) = Len(t) + 1
  BY Zenon DEF EndsWith
<1>1. \A q \in 1 .. Len(t) + 1 :
          g[q] = IF Over(t, q) THEN <<>> ELSE <<Entry(t, q)>> \o g[TokenAt(t, q).next]
  BY Zenon DEF TokensFrom
<1>2. Len(t) \in Nat /\ p \in 1 .. Len(t) + 1
  BY <1>0 DEF Here
<1>3. ASSUME NEW q \in 1 .. Len(t) + 1, q = Len(t) + 1 \/ t[q] = "x" PROVE g[q] = <<>>
  <2>1. Over(t, q)
    <3>1. CASE q = Len(t) + 1
      <4>1. q > Len(t) /\ q \in q .. Len(t) + 1 /\ (\A r \in q .. q - 1 : t[r] \in Spaces) /\ ~(q <= Len(t))
        BY <1>2, <3>1
      <4>2. Past(t, q, Spaces) = q
        BY Zenon, <4>1, PastAt
      <4>3. TokenAt(t, q) = Token("EOF", <<>>, q)
        BY Zenon, <4>1, <4>2 DEF TokenAt
      <4> QED BY <4>3 DEF Token, Over
    <3>2. CASE q # Len(t) + 1
      <4>1. q \in 1 .. Len(t) /\ t[q] = "x"
        BY <1>2, <1>3, <3>2
      <4>2. /\ "x" \notin Spaces /\ "x" \notin DOMAIN Punctuation /\ "x" # Quote
            /\ "x" \notin Words /\ "x" \notin Digits \cup {"-"}
        BY DEF Punctuation, Spaces, Words, Quote, Digits
      <4>3. Past(t, q, Spaces) = q /\ ~(q > Len(t))
        BY Zenon, <4>1, <4>2, NoGap
      <4>4. TokenAt(t, q) = Token("NONE", <<>>, q)
        BY Zenon, <4>1, <4>2, <4>3 DEF TokenAt
      <4> QED BY <4>4 DEF Token, Over
    <3> QED BY Zenon, <3>1, <3>2
  <2> QED BY Zenon, <1>1, <2>1
<1>4. ASSUME p + 1 \in 1 .. Len(t) + 1, p + 1 = Len(t) + 1 \/ t[p + 1] = "x", p \in 1 .. Len(t),
             t[p] \in DOMAIN Punctuation
      PROVE  g[p] = Mark(Punctuation[t[p]])
  <2> DEFINE type == Punctuation[t[p]]
  <2>1. TokenAt(t, p) = Token(type, <<>>, p + 1)
    BY Zenon, <1>4, PunctuationAt
  <2>2. type \notin {"EOF", "NONE"}
    BY Zenon, <1>4, PunctuationTypes
  <2> HIDE DEF type
  <2>3. Entry(t, p) = Lexeme(type, <<>>) /\ TokenAt(t, p).next = p + 1 /\ ~Over(t, p)
    BY <2>1, <2>2 DEF Token, Entry, Lexeme, Over
  <2>4. g[p + 1] = <<>>
    BY Zenon, <1>3, <1>4
  <2>5. g[p] = Mark(type) \o <<>>
    BY Zenon, <1>1, <1>2, <2>3, <2>4 DEF Mark
  <2>6. Mark(type) \o <<>> = Mark(type)
    BY DEF Mark
  <2> QED BY Zenon, <2>5, <2>6 DEF type
<1>5. CASE rest = <<>>
  <2>1. p = Len(t) + 1
    BY <1>0, <1>2, <1>5
  <2> QED BY Zenon, <1>2, <1>3, <1>5, <2>1 DEF RestTokens
<1>6. CASE rest = <<",">>
  <2>1. Len(rest) = 1 /\ rest # <<>>
    BY <1>6
  <2>2. p \in 1 .. Len(t) /\ t[p] = ","
    BY Zenon, <1>0, <1>6, HereOne
  <2>3. p + 1 = Len(t) + 1 /\ p + 1 \in 1 .. Len(t) + 1
    BY <1>0, <1>2, <2>1
  <2>4. g[p] = Mark("COMMA")
    BY Zenon, <1>4, <2>2, <2>3, PunctuationIs, CommaIs
  <2> QED BY Zenon, <1>6, <2>1, <2>4 DEF RestTokens
<1>7. CASE rest = <<"}", "x">>
  <2>1. Len(rest) = 2 /\ rest # <<>> /\ rest # <<",">> /\ rest[1] = "}" /\ rest[2] = "x"
    BY <1>7
  <2>2. \A i \in 1 .. Len(rest) : t[p + i - 1] = rest[i]
    BY Zenon, <1>0 DEF Here
  <2>3. 1 \in 1 .. 2 /\ 2 \in 1 .. 2 /\ p + 1 - 1 = p /\ p + 2 - 1 = p + 1
    BY <1>2
  <2>4. t[p] = "}" /\ t[p + 1] = "x"
    BY Zenon, <2>1, <2>2, <2>3
  <2>5. p \in 1 .. Len(t) /\ p + 1 \in 1 .. Len(t) + 1
    <3>1. p + 2 = Len(t) + 1
      BY Zenon, <1>0, <2>1
    <3> QED BY <1>2, <3>1
  <2>6. "}" \in DOMAIN Punctuation /\ Punctuation["}"] = "OBJECT_END"
    BY Zenon, PunctuationIs
  <2>7. g[p] = Mark("OBJECT_END")
    BY Zenon, <1>4, <2>4, <2>5, <2>6
  <2> QED BY Zenon, <2>1, <2>7 DEF RestTokens
<1> QED BY Zenon, <1>5, <1>6, <1>7 DEF Rests

\* A value and what comes behind it are read one behind the other.
LEMMA TokensOfValue ==
    ASSUME NEW u \in Seq(Alphabet), NEW rest \in Rests, NEW n \in CountSet, NEW toks \in Seq(Lexemes),
           ReadsValue(u, n, toks), NEW t, t = u \o rest
    PROVE  Tokens(t) = toks \o RestTokens(rest)
<1> DEFINE e == 1 + Len(u)
<1>1. t \in Seq(Alphabet) /\ Here(t, 1, u) /\ Here(t, e, rest) /\ Delimited(t, e)
  BY Zenon, RestAt
<1>2. EndsWith(t, e, rest)
  <2>1. Len(t) = Len(u) + Len(rest) /\ Len(u) \in Nat /\ rest \in Seq(Alphabet)
    BY Zenon, RestAt
  <2> QED BY <1>1, <2>1 DEF EndsWith
<1>3. PICK g : TokensFrom(t, 1, g)
  BY Zenon, <1>1, TokensExist
<1>4. <<>> \in Seq(Kinds) /\ "value" \in {"value", "item"} /\ <<>> \in Seq(Lexemes)
  OBVIOUS
<1>5. NoStats \in CountSet
  BY DEF NoStats, Counts, CountSet
<1>6. Passes(t, 1, <<>>, "value", e, <<>>, Back(<<>>), n, toks)
  BY Zenon, <1>1, <1>4 DEF ReadsValue
<1> DEFINE d == Reader(e, <<>>, Back(<<>>), Added(NoStats, n), <<>> \o toks)
<1>7. Reaches(t, Reader(1, <<>>, "value", NoStats, <<>>), d)
  BY Zenon, <1>4, <1>5, <1>6 DEF Passes
<1>8. <<>> \o toks = toks
  OBVIOUS
<1>9. d.kept = toks /\ d.at = e
  <2>1. d.kept = <<>> \o toks /\ d.at = e
    BY DEF Reader
  <2> QED BY Zenon, <1>8, <2>1
<1> HIDE DEF d, e
<1>10. d.kept \o g[d.at] = g[1]
  BY Zenon, <1>1, <1>3, <1>7, KeptIs
<1>11. g[e] = RestTokens(rest)
  <2>1. t \in Seq(Alphabet)
    BY Zenon, <1>1
  <2>2. \A h : TokensFrom(t, 1, h) => \A r \in Rests : \A p : EndsWith(t, p, r) => h[p] = RestTokens(r)
    BY Zenon, <2>1, RestTokensAt
  <2>3. \A p : EndsWith(t, p, rest) => g[p] = RestTokens(rest)
    BY Zenon, <1>3, <2>2
  <2> QED BY Zenon, <1>2, <2>3
<1>12. Tokens(t) = g[1]
  BY Zenon, <1>1, <1>3, TokensIs
<1> QED BY Zenon, <1>9, <1>10, <1>11, <1>12

\* What json_compress makes of a whole text.
LEMMA CompressWhole ==
    ASSUME NEW t \in Seq(Alphabet), NEW m \in Seq(Alphabet), Compresses(t, m)
    PROVE  json_compress(t) = m
<1> DEFINE n == Len(t)
<1>1. n \in Nat /\ 1 - 1 = 0 /\ (1 + n) - 1 = n
  OBVIOUS
<1>2. PICK L : Compressed(t, L)
  BY Zenon, CompressExists
<1>3. Here(t, 1, t)
  BY DEF Here
<1>4. Clear(L, 1, <<>>)
  BY Zenon, <1>1, <1>2 DEF Clear, Compressed, CompressedTo
<1>5. <<>> \in Seq(Alphabet) /\ <<>> \o m = m
  OBVIOUS
<1>6. Clear(L, 1 + Len(t), <<>> \o m)
  BY Zenon, <1>2, <1>3, <1>4, <1>5 DEF Compresses
<1>7. L[n] = Outside(m)
  BY Zenon, <1>1, <1>5, <1>6 DEF Clear
<1>8. L[Len(t)].out = m
  BY <1>7 DEF Outside
<1> QED BY Zenon, <1>2, <1>8, CompressIs

\* What comes behind a value stays as it is.
LEMMA CompressesRest == \A rest \in Rests : rest \in Seq(Alphabet) /\ Compresses(rest, rest)
<1> SUFFICES ASSUME NEW rest \in Rests PROVE rest \in Seq(Alphabet) /\ Compresses(rest, rest)
  OBVIOUS
<1>1. rest \in Seq(Alphabet)
  BY Zenon, RestIs DEF Rests
<1>2. \A c \in Tails : c \notin Spaces /\ c # Quote
  BY DEF Tails, Spaces, Quote
<1>3. \A i \in 1 .. Len(rest) : rest[i] \notin Spaces /\ rest[i] # Quote
  BY Zenon, <1>2, RestSymbols
<1> QED BY Zenon, <1>1, <1>3, CompressesPlain

\* json_compress, whatever value was printed, however it is nested and
\* indented: the tokens of what it writes are those of the text, strings with
\* white space and escaped quotes included.
THEOREM MinifiedTokens == JSpec => []MinifyKeepsTokens
<1>1. ASSUME ValueInv PROVE MinifyKeepsTokens
  <2> SUFFICES ASSUME value.kind # "noise" PROVE Tokens(json_compress(text)) = Tokens(text)
    BY Zenon DEF MinifyKeepsTokens
  <2>1. value \in Printed /\ value.kind \in ValueKinds /\ value.text \in Seq(Alphabet)
    BY Zenon, <1>1, TextConstants DEF ValueInv, Values
  <2>2. PICK rest \in Rests : text = value.text \o rest
    BY Zenon, <1>1 DEF ValueInv
  <2>3. value.stats \in CountSet /\ \E m, toks : ReadsLike(value, m, toks)
    BY Zenon, <2>1, PrintedReads DEF Reads
  <2>4. PICK m, toks : ReadsLike(value, m, toks)
    BY Zenon, <2>3
  <2>5. /\ m \in Seq(Alphabet) /\ toks \in Seq(Lexemes) /\ Compresses(value.text, m)
        /\ ReadsValue(value.text, value.stats, toks)
        /\ ReadsValue(m, value.stats, toks)
    BY Zenon, <2>1, <2>4 DEF ReadsLike, ReadsAs
  <2>6. rest \in Seq(Alphabet) /\ Compresses(rest, rest)
    BY Zenon, CompressesRest
  <2>7. Compresses(text, m \o rest)
    BY Zenon, <2>1, <2>2, <2>5, <2>6, CompressesJoin
  <2>8. text \in Seq(Alphabet) /\ m \o rest \in Seq(Alphabet)
    BY Zenon, <2>1, <2>2, <2>5, <2>6, JoinIs
  <2>9. json_compress(text) = m \o rest
    BY Zenon, <2>7, <2>8, CompressWhole
  <2>10. Tokens(text) = toks \o RestTokens(rest)
    BY Zenon, <2>1, <2>2, <2>3, <2>5, TokensOfValue
  <2>11. Tokens(m \o rest) = toks \o RestTokens(rest)
    BY Zenon, <2>3, <2>5, TokensOfValue
  <2> QED BY Zenon, <2>9, <2>10, <2>11
<1> QED BY <1>1, ValueInit, ValueStep, PTL DEF JSpec
=============================================================================
