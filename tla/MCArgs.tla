------------------------------- MODULE MCArgs -------------------------------
EXTENDS Args

CONSTANT MaxText   \* bound: symbols of a text of any shape

MCSymbols == Punctuation \cup {"a", "path", "x", "1"}

MCKeys == {<<"a">>, <<"path">>}
MCPathKeys == {<<"path">>}

Upto(n, S) == UNION {[1..k -> S] : k \in 0..n}

Marks == {"colon", "comma", "single", Backtick, "rbrace", "lbrack", "rbrack", "space", "slash", "backslash"}
Meant ==
    {Str(t) : t \in Upto(2, Marks \cup {"x"})}
    \cup {Num(<<"1", "1">>), EmptyDict, Object(<<[key |-> <<"a">>, text |-> <<"x">>]>>), List(<<>>)}
    \cup {List(<<t>>) : t \in Upto(2, {"x", "comma", "space", "double", "slash", "backslash", "rbrack"})}
    \cup {List(<<<<"x">>, t>>) : t \in Upto(1, {"1", "comma", "backslash", "lbrack"})}

MCGiven ==
    {<<[key |-> <<"a">>, value |-> v]>> : v \in Meant}
    \cup {<<[key |-> p[1], value |-> v], [key |-> p[2], value |-> w]>> :
            p \in {<< <<"a">>, <<"path">> >>, << <<"path">>, <<"a">> >>}, v \in Meant, w \in Meant}

\* The text of a broken string holds pairs of its own, its path does not.
MCTails ==
    LET text == Upto(4, {"x", "1", "comma", "colon", "single", "space"})
        value == Upto(2, {"x", HostSep, ForeignSep})
    IN [text : text, value : value]

MCTexts == Upto(MaxText, {"a", "1", "colon", "comma", "single", Q, "lbrace", "rbrace", "space"})
=============================================================================
