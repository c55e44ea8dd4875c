------------------------------ MODULE JsonText ------------------------------
(***************************************************************************)
(* The text layer of src/json_io.c, below the documents of JsonIo: how a   *)
(* string is escaped, how a text is cut into tokens, and the two loops     *)
(* that run over tokens without knowing what they mean:                    *)
(* json_skip_token_value, which the loader uses to pass over metadata, and *)
(* json_get_stats_string.                                                  *)
(*                                                                         *)
(* A text is a sequence of symbols: a character, a class of characters     *)
(* that are treated alike, or one of the words true, false, null.          *)
(***************************************************************************)
EXTENDS Integers, Sequences, SequencesExt

CONSTANTS
    Gaps,     \* white space as it is printed between tokens
    Printed,  \* what is printed: values, and the parts they are put together from
    Noise     \* any other texts

VARIABLES
    mode,     \* "skip" or "stats"
    value,    \* what the text was printed from, NoValue for noise
    text,
    position, \* ctx->position, counted from 1
    stack,    \* calls of json_skip_token_value under way: "object" or "array"
    pc,       \* what the innermost call reads next, or the result
    stats     \* the counters of JsonStats

jvars == <<mode, value, text, position, stack, pc, stats>>

Quote == "quote"
Backslash == "backslash"
Spaces == {"space", "tab"}            \* isspace
Escapes == {Quote, Backslash, "tab"}  \* tab: also \b \f \n \r
Digits == {"7"}
Words == {"true", "false", "null"}
\* "bell" is any other control character, "x" any other character
Alphabet == Spaces \cup Escapes \cup Digits \cup Words
                \cup {"{", "}", "[", "]", ":", ",", "-", "+", ".", "e", "bell", "x"}

-----------------------------------------------------------------------------
(***************************************************************************)
(* Writing strings                                                         *)
(***************************************************************************)

\* Mutant: the reverse solidus is written as it is
Encoding_NoBackslash(c) ==
    IF c \in Escapes \ {Backslash} THEN <<Backslash, IF c = Quote THEN c ELSE "x">>
    ELSE IF c = "bell" THEN <<Backslash, "x", "7", "7", "7", "7">>
    ELSE <<c>>

\* A character as it is written: itself, \" \\ \t and the like, or \uXXXX
Encoding(c) ==
    IF c \in Escapes THEN <<Backslash, IF c = "tab" THEN "x" ELSE c>>
    ELSE IF c = "bell" THEN <<Backslash, "x", "7", "7", "7", "7">>
    ELSE <<c>>

\* Into a buffer of size characters, the final NUL included; what does not
\* fit is left out
json_escape_string(src, size) ==
    LET Dst[n \in 0 .. Len(src)] ==
            LET dst == Dst[n - 1]
                e == Encoding(src[n])
            IN  IF n = 0 THEN <<>>
                ELSE IF \/ Len(dst) >= size - 1
                        \/ Len(e) > 1 /\ Len(dst) + Len(e) >= size
                THEN dst ELSE dst \o e
    IN  Dst[Len(src)]

\* Mutant: no room for the NUL
json_escape_string_alloc_NoNul(src) == json_escape_string(src, 6 * Len(src))

json_escape_string_alloc(src) == json_escape_string(src, 6 * Len(src) + 1)

json_serialize_append_string(src) == <<Quote>> \o json_escape_string_alloc(src) \o <<Quote>>

-----------------------------------------------------------------------------
(***************************************************************************)
(* Reading tokens                                                          *)
(***************************************************************************)

\* The first position from p on whose symbol is not in class
Past(t, p, class) ==
    LET ends == {q \in p .. Len(t) : t[q] \notin class}
    IN  IF ends = {} THEN Len(t) + 1 ELSE Min(ends)

\* One symbol of class, if it is there
Optional(t, p, class) == IF p <= Len(t) /\ t[p] \in class THEN p + 1 ELSE p

\* The end of the number at p: integer part, decimal part, exponent
NumberEnd(t, p) ==
    LET int == Past(t, Optional(t, p, {"-"}), Digits)
        dec == IF Optional(t, int, {"."}) = int THEN int ELSE Past(t, int + 1, Digits)
    IN  IF Optional(t, dec, {"e"}) = dec THEN dec
        ELSE Past(t, Optional(t, dec + 1, {"+", "-"}), Digits)

\* Mutant: a quote ends the string, escaped or not
StringEnd_FirstQuote(t, p) == Past(t, p, {t[q] : q \in DOMAIN t} \ {Quote})

\* The closing quote of the string that starts at p; Len(t) + 1 if it has none
StringEnd(t, p) ==
    LET escaped[q \in p .. Len(t)] == q > p /\ t[q - 1] = Backslash /\ ~escaped[q - 1]
        closing == {q \in p .. Len(t) : t[q] = Quote /\ ~escaped[q]}
    IN  IF closing = {} THEN Len(t) + 1 ELSE Min(closing)

Punctuation == [c \in {"{", "}", "[", "]", ":", ","} |->
    CASE c = "{" -> "OBJECT_START" [] c = "}" -> "OBJECT_END" [] c = "[" -> "ARRAY_START"
      [] c = "]" -> "ARRAY_END"    [] c = ":" -> "COLON"      [] c = "," -> "COMMA"]

Token(type, val, next) == [type |-> type, value |-> val, next |-> next]

\* The token after position p and the position after the token.  A character
\* that starts no token is not passed over.
TokenAt(t, p) ==
    LET s == Past(t, p, Spaces)
        c == t[s]
        close == StringEnd(t, s + 1)
        end == NumberEnd(t, s)
    IN  IF s > Len(t) THEN Token("EOF", <<>>, s)
        ELSE IF c \in DOMAIN Punctuation THEN Token(Punctuation[c], <<>>, s + 1)
        ELSE IF c = Quote THEN
            IF close > Len(t) THEN Token("NONE", <<>>, close)
            ELSE Token("STRING", SubSeq(t, s + 1, close - 1), close + 1)
        ELSE IF c \in Words THEN
            Token(IF c = "null" THEN "NULL" ELSE "BOOLEAN", <<c>>, s + 1)
        ELSE IF c \in Digits \cup {"-"} THEN Token("NUMBER", SubSeq(t, s, end - 1), end)
        ELSE Token("NONE", <<>>, s)

\* Mutant: a comma is not passed over
json_parse_token_Comma ==
    LET token == TokenAt(text, position)
    IN  IF token.type = "COMMA" THEN [token EXCEPT !.next = @ - 1] ELSE token

json_parse_token == TokenAt(text, position)

\* The tokens of a whole text
Tokens(t) ==
    LET From[p \in 1 .. Len(t) + 1] ==
            LET token == TokenAt(t, p)
            IN  IF token.type \in {"EOF", "NONE"} THEN <<>>
                ELSE <<[type |-> token.type, value |-> token.value]>> \o From[token.next]
    IN  From[1]

-----------------------------------------------------------------------------
(***************************************************************************)
(* json_compress: a text without its white space                           *)
(***************************************************************************)

\* Mutant: escaped quotes are not told from others
Minified_Unescaped(s, c) ==
    IF ~s.in_string
    THEN IF c \in Spaces THEN s
         ELSE [out |-> Append(s.out, c), in_string |-> c = Quote, escaped |-> s.escaped]
    ELSE [out |-> Append(s.out, c), in_string |-> c # Quote, escaped |-> FALSE]

\* One turn of its loop
Minified(s, c) ==
    IF ~s.in_string
    THEN IF c \in Spaces THEN s
         ELSE [out |-> Append(s.out, c), in_string |-> c = Quote, escaped |-> s.escaped]
    ELSE [out |-> Append(s.out, c),
          in_string |-> s.escaped \/ c # Quote,
          escaped |-> c = Backslash /\ ~s.escaped]

json_compress(t) ==
    LET Loop[n \in 0 .. Len(t)] ==
            LET s == Loop[n - 1]
            IN  IF n = 0 THEN [out |-> <<>>, in_string |-> FALSE, escaped |-> FALSE]
                ELSE Minified(s, t[n])
    IN  Loop[Len(t)].out

-----------------------------------------------------------------------------
(***************************************************************************)
(* Printing values.  What is printed has a kind, a text, the source of the *)
(* string or key in it, the counts of what json_get_stats_string should    *)
(* find in it, and the parts it is put together from.                      *)
(***************************************************************************)
Counts(s, o, c) == [strings |-> s, others |-> o, containers |-> c]

NoStats == Counts(0, 0, 0)

Added(a, b) == Counts(a.strings + b.strings, a.others + b.others, a.containers + b.containers)

\* As %d, %u, %.6f and %.10f print it, finite
IsNumber(n) ==
    \E sign \in {0, 1} : \E int \in sign + 1 .. Len(n) :
        /\ sign = 1 => n[1] = "-"
        /\ \A i \in sign + 1 .. int : n[i] \in Digits
        /\ \/ int = Len(n)
           \/ /\ int + 2 <= Len(n)
              /\ n[int + 1] = "."
              /\ \A i \in int + 2 .. Len(n) : n[i] \in Digits

ValueKinds == {"string", "number", "word", "object", "array"}

\* A field that is no container; dates and blobs are strings
json_serialize_field_value(v) ==
    \/ /\ v.kind = "string"
       /\ v.source \in Seq(Alphabet)
       /\ v.text = json_serialize_append_string(v.source)
       /\ v.stats = Counts(1, 0, 0)
    \/ v.kind = "number" /\ IsNumber(v.text) /\ v.stats = Counts(0, 1, 0)
    \/ v.kind = "word" /\ v.text \in {<<w>> : w \in Words} /\ v.stats = Counts(0, 1, 0)

\* "key": value.  The names of fields are printed as they are, which is the
\* same for those that need no escape.
KeyAndValue(v) ==
    /\ v.kind = "pair"
    /\ v.source \in Seq(Alphabet)
    /\ Len(v.parts) = 1
    /\ v.parts[1].kind \in ValueKinds
    /\ \E gap \in Gaps :
          v.text = json_serialize_append_string(v.source) \o <<":">> \o gap \o v.parts[1].text
    /\ v.stats = Added(Counts(1, 0, 0), v.parts[1].stats)

Opening == [object |-> "{", array |-> "["]
Closing == [object |-> "}", array |-> "]"]
Rest == [object |-> "members", array |-> "items"]

\* What is in a container of this kind
Member(v, kind) == IF kind = "object" THEN v.kind = "pair" ELSE v.kind \in ValueKinds

\* The end of a container behind start
Closed(v, start, kind, counts) ==
    /\ \E gap \in Gaps : v.text = start \o gap \o <<Closing[kind]>>
    /\ v.stats = counts

\* A symbol, a member and the rest of its container
Continued(v, symbol, kind, counts) ==
    /\ Len(v.parts) = 2
    /\ Member(v.parts[1], kind)
    /\ v.parts[2].kind = Rest[kind]
    /\ \E gap \in Gaps : v.text = <<symbol>> \o gap \o v.parts[1].text \o v.parts[2].text
    /\ v.stats = Added(counts, Added(v.parts[1].stats, v.parts[2].stats))

\* The bodies of json_serialize_table_schema and json_serialize_table_records:
\* a container ...
Container(v, kind) ==
    /\ v.kind = kind
    /\ \/ Closed(v, <<Opening[kind]>>, kind, Counts(0, 0, 1))
       \/ Continued(v, Opening[kind], kind, Counts(0, 0, 1))

\* ... and what is left of it behind a member: the loops over fields and records
Remainder(v, kind) ==
    /\ v.kind = Rest[kind]
    /\ Closed(v, <<>>, kind, NoStats) \/ Continued(v, ",", kind, NoStats)

NoValue == [kind |-> "noise", text |-> <<>>, source |-> <<>>, stats |-> NoStats, parts |-> <<>>]

\* What something is put together from
Parts(v) == {v.parts[i] : i \in 1 .. Len(v.parts)}

\* Texts are C strings, and everything printed is printed by the rules above,
\* its parts as well
ASSUME TextConstants ==
    /\ Gaps \subseteq Seq(Spaces)
    /\ Noise \subseteq Seq(Alphabet)
    /\ UNION {Parts(v) : v \in Printed} \subseteq Printed
    /\ \A v \in Printed :
          /\ v.text \in Seq(Alphabet)
          /\ \/ json_serialize_field_value(v)
             \/ KeyAndValue(v)
             \/ \E kind \in {"object", "array"} : Container(v, kind) \/ Remainder(v, kind)

Values == {v \in Printed : v.kind \in ValueKinds}

-----------------------------------------------------------------------------
(***************************************************************************)
(* The two loops                                                           *)
(***************************************************************************)

\* A text read from its beginning: a value followed by anything, or noise
JInit ==
    /\ mode \in {"skip", "stats"}
    /\ \/ \E v \in Values, rest \in {<<>>, <<",">>, <<"}", "x">>} :
             value = v /\ text = v.text \o rest
       \/ value = NoValue /\ text \in Noise
    /\ position = 1
    /\ stack = <<>>
    /\ pc = IF mode = "skip" THEN "value" ELSE "count"
    /\ stats = NoStats

Advance == position' = json_parse_token.next

\* Mutant: there is always a caller
Return_NoCaller(calls) == stack' = calls /\ pc' = "separator"

\* The call that has ended returns to the loop of its caller, if there is one
Return(calls) == stack' = calls /\ pc' = IF calls = <<>> THEN "SUCCESS" ELSE "separator"

Fail == pc' = "ERROR_INVALID_INPUT" /\ UNCHANGED stack

\* A value: a container starts a loop, anything else is a value as it is
SkipValue(type) ==
    IF type \in {"OBJECT_START", "ARRAY_START"}
    THEN /\ stack' = Append(stack, IF type = "OBJECT_START" THEN "object" ELSE "array")
         /\ pc' = IF type = "OBJECT_START" THEN "key" ELSE "item"
    ELSE Return(stack)

\* The token after an opening bracket or a comma of an array ...
SkipItem(type) ==
    IF type = "ARRAY_END" THEN Return(Front(stack))
    ELSE IF type \in {"EOF", "NONE"} THEN Fail
    ELSE SkipValue(type)

\* ... or of an object, and the colon behind the key
SkipKey(type) ==
    IF type = "OBJECT_END" THEN Return(Front(stack))
    ELSE IF type # "STRING" THEN Fail
    ELSE pc' = "colon" /\ UNCHANGED stack

SkipColon(type) == IF type # "COLON" THEN Fail ELSE pc' = "value" /\ UNCHANGED stack

\* Mutant: an object may end with a square bracket
Closes_Any(type) == type \in {"OBJECT_END", "ARRAY_END"}

Closes(type) == type = IF Last(stack) = "object" THEN "OBJECT_END" ELSE "ARRAY_END"

\* comma_or_end
SkipSeparator(type) ==
    IF type = "COMMA"
    THEN pc' = (IF Last(stack) = "object" THEN "key" ELSE "item") /\ UNCHANGED stack
    ELSE IF Closes(type) THEN Return(Front(stack))
    ELSE Fail

\* json_skip_token_value, one step per token
json_skip_token_value ==
    /\ mode = "skip"
    /\ Advance
    /\ LET type == json_parse_token.type
       IN  \/ pc = "value" /\ SkipValue(type)
           \/ pc = "item" /\ SkipItem(type)
           \/ pc = "key" /\ SkipKey(type)
           \/ pc = "colon" /\ SkipColon(type)
           \/ pc = "separator" /\ SkipSeparator(type)
    /\ UNCHANGED <<mode, value, text, stats>>

\* Mutant: keys of objects are not counted
Counted_NoKeys(type) ==
    [strings |-> stats.strings,
     others |-> stats.others + IF type \in {"NUMBER", "BOOLEAN", "NULL"} THEN 1 ELSE 0,
     containers |-> stats.containers + IF type \in {"OBJECT_START", "ARRAY_START"} THEN 1 ELSE 0]

Counted(type) ==
    [strings |-> stats.strings + IF type = "STRING" THEN 1 ELSE 0,
     others |-> stats.others + IF type \in {"NUMBER", "BOOLEAN", "NULL"} THEN 1 ELSE 0,
     containers |-> stats.containers + IF type \in {"OBJECT_START", "ARRAY_START"} THEN 1 ELSE 0]

\* One turn of the loop of json_get_stats_string, which ends at the end of the
\* text and nowhere else
json_get_stats_string ==
    /\ mode = "stats"
    /\ pc = "count"
    /\ Advance
    /\ IF json_parse_token.type = "EOF" THEN pc' = "SUCCESS" ELSE UNCHANGED pc
    /\ stats' = Counted(json_parse_token.type)
    /\ UNCHANGED <<mode, value, text, stack>>

Done == pc \in {"SUCCESS", "ERROR_INVALID_INPUT"}

\* The caller goes on
Finished == Done /\ UNCHANGED jvars

JNext == json_skip_token_value \/ json_get_stats_string \/ Finished

\* One thread
JSpec ==
    /\ JInit /\ [][JNext]_jvars
    /\ WF_jvars(json_skip_token_value) /\ WF_jvars(json_get_stats_string)

-----------------------------------------------------------------------------
(***************************************************************************)
(* Properties                                                              *)
(***************************************************************************)

\* The position stays within the text or just behind it, and what a call of
\* json_skip_token_value waits for belongs to the container it is in.
JTypeOK ==
    /\ position \in 1 .. Len(text) + 1
    /\ stack \in Seq({"object", "array"})
    /\ pc \in {"key", "colon"} => stack # <<>> /\ Last(stack) = "object"
    /\ pc = "item" => stack # <<>> /\ Last(stack) = "array"
    /\ pc = "separator" => stack # <<>>

Fresh == position = 1 /\ stack = <<>>

\* json_escape_string, given the buffer json_escape_string_alloc makes for it,
\* leaves nothing out, and json_parse_token reads the string back as one token
\* that ends where it was made to end, whatever follows.
StringsKept ==
    (Fresh /\ value.kind = "string") =>
        TokenAt(text, 1) =
            Token("STRING",
                  FlattenSeq([i \in DOMAIN value.source |-> Encoding(value.source[i])]),
                  Len(value.text) + 1)

\* How many backslashes there are right before position q, from p on
Before(t, p, q) ==
    LET others == {r \in p .. q - 1 : t[r] # Backslash}
    IN  IF others = {} THEN q - p ELSE q - 1 - Max(others)

\* In any text, the string that starts at p ends at the first quote with an
\* even number of backslashes before it (the escaped flag of json_parse_token).
StringEndsRight ==
    Fresh => \A p \in DOMAIN text :
        LET quotes == {q \in p .. Len(text) : text[q] = Quote /\ Before(text, p, q) % 2 = 0}
        IN  StringEnd(text, p) = IF quotes = {} THEN Len(text) + 1 ELSE Min(quotes)

\* json_skip_token_value passes over exactly the value that was printed, with
\* everything nested in it, and leaves the loader at what follows it.
SkipsWholeValue ==
    (mode = "skip" /\ Done /\ value.kind # "noise") =>
        pc = "SUCCESS" /\ position = Len(value.text) + 1

Count(type, t) ==
    LET tokens == Tokens(t)
    IN  Cardinality({i \in DOMAIN tokens : tokens[i].type = type})

\* Whatever the text, a value json_skip_token_value accepts closes every
\* object and array it opens: it never stops inside a container.  (A bracket
\* that closes nothing may pass for a member.)
ClosesWhatItOpens ==
    (mode = "skip" /\ pc = "SUCCESS") =>
        LET passed == SubSeq(text, 1, position - 1)
        IN  /\ Count("OBJECT_START", passed) <= Count("OBJECT_END", passed)
            /\ Count("ARRAY_START", passed) <= Count("ARRAY_END", passed)

\* json_get_stats_string counts what is in a value that was printed.
StatsExact == (mode = "stats" /\ Done /\ value.kind # "noise") => stats = value.stats

\* json_compress drops white space between tokens and nothing else: the tokens
\* of a value that was printed are the same, strings with spaces and escaped
\* quotes included.
MinifyKeepsTokens ==
    (Fresh /\ value.kind # "noise") => Tokens(json_compress(text)) = Tokens(text)

Stuck == json_parse_token.type = "NONE" /\ json_parse_token.next = position

\* Both loops end on every text, with one exception: json_get_stats_string
\* reads a character that starts no token for ever.
LoopsReturn == <>(Done \/ (mode = "stats" /\ Stuck))
=============================================================================
