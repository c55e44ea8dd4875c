----------------------------- MODULE MCJsonText -----------------------------
(***************************************************************************)
(* Values printed with and without white space: every string of up to two  *)
(* symbols that matter to the writer or the reader, numbers, words, and    *)
(* objects and arrays of them, nested twice, with the parts they are put   *)
(* together from.  Noise: every text of up to four symbols.                *)
(***************************************************************************)
EXTENDS JsonText

Symbols == {Quote, Backslash, "tab", "bell", "x", "{", ",", "space"}

MCGaps == {<<>>, <<"space">>, <<"tab", "space">>}

Output(kind, t, src, counts, parts) ==
    [kind |-> kind, text |-> t, source |-> src, stats |-> counts, parts |-> parts]

Str(s) == Output("string", json_serialize_append_string(s), s, Counts(1, 0, 0), <<>>)
Num(t) == Output("number", t, <<>>, Counts(0, 1, 0), <<>>)
Word(w) == Output("word", <<w>>, <<>>, Counts(0, 1, 0), <<>>)

Field(key, gap, v) ==
    Output("pair", json_serialize_append_string(key) \o <<":">> \o gap \o v.text, key,
          Added(Counts(1, 0, 0), v.stats), <<v>>)

\* The end of a container, a member and more of it, and a container
End(kind, gap) == Output(Rest[kind], gap \o <<Closing[kind]>>, <<>>, NoStats, <<>>)
More(kind, gap, v, rest) ==
    Output(Rest[kind], <<",">> \o gap \o v.text \o rest.text, <<>>, Added(v.stats, rest.stats), <<v, rest>>)
Empty(kind, gap) ==
    Output(kind, <<Opening[kind]>> \o gap \o <<Closing[kind]>>, <<>>, Counts(0, 0, 1), <<>>)
Holding(kind, gap, v, rest) ==
    Output(kind, <<Opening[kind]>> \o gap \o v.text \o rest.text, <<>>,
          Added(Counts(0, 0, 1), Added(v.stats, rest.stats)), <<v, rest>>)

Strings == {Str(s) : s \in SeqOf(Symbols, 2)}
Scalars == Strings \cup {Num(<<"7">>), Num(<<"-", "7", "7", ".", "7">>), Word("true"), Word("null")}

\* One scalar of each kind
Few == {Str(<<Quote, Backslash>>), Str(<<"space", "}">>), Num(<<"-", "7">>), Word("false")}

Wide == {<<>>, <<"tab", "space">>}

Singles(vs) ==
    UNION {{Holding("array", g, v, End("array", <<>>)),
            Holding("object", <<>>, Field(<<"x">>, g, v), End("object", g))} : v \in vs, g \in Wide}
Pairs(vs) ==
    UNION {{Holding("array", <<>>, v, More("array", g, w, End("array", <<>>))),
            Holding("object", g, Field(<<"x">>, <<>>, v),
                    More("object", <<>>, Field(<<Quote>>, g, w), End("object", <<>>)))}
           : v, w \in vs, g \in Wide}

Empties == {Empty("array", <<>>), Empty("object", <<"space">>)}
Flat == Empties \cup Singles({Str(<<Quote, Backslash>>)}) \cup Pairs({Str(<<"}">>), Num(<<"-", "7">>)})

Whole == Scalars \cup Flat \cup Singles(Scalars) \cup Pairs(Few) \cup Singles(Flat)
             \cup Pairs(Empties \cup Singles({Str(<<"}">>)}))

WithParts(vs) == vs \cup UNION {Parts(v) : v \in vs}

\* Everything is printed on its own too: six levels down is a scalar
MCPrinted == WithParts(WithParts(WithParts(WithParts(WithParts(WithParts(Whole))))))

\* Texts of any kind, and texts that begin like an object
Key == <<Quote, "x", Quote, ":">>
MCNoise ==
    SeqOf({Quote, Backslash, "{", "}", "[", "]", ",", "x"}, 4)
        \cup {Key \o <<"space">> \o t : t \in SeqOf({"7", ".", "-", "e"}, 4)}
        \cup {<<"{">> \o Key \o t : t \in SeqOf({"{", "}", "]", ":", ",", "x", "7"}, 3)}
=============================================================================
