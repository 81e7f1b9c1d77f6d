-------------------------------- MODULE Args ---------------------------------
(***************************************************************************)
(* The arguments of a tool call (serve.py): _gemma_args_to_json reads them *)
(* from the model's text, _normalize_paths turns the separators of paths,  *)
(* the client sends the call back with the next turn, and _deser_tool_args *)
(* makes it a dict again for the chat template.                            *)
(*                                                                         *)
(* A text is a sequence of symbols: words (none begins with a letter that  *)
(* JSON escapes), a digit, punctuation, Q for the five characters of the   *)
(* string delimiter, which is one token.                                   *)
(***************************************************************************)
EXTENDS Integers, Sequences, SequencesExt

CONSTANTS
    Symbols,    \* what texts are made of
    Keys,       \* words that are keys, as one-symbol texts
    PathKeys,   \* those in _PATH_KEYS
    HostSep, ForeignSep,   \* slash and backslash, one of them the host's
    Given,      \* the argument lists the model means: sequences of [key, value]
    Tails,      \* malformed ones: [text, value] of a broken string and its tail
    Texts       \* argument texts of any shape

VARIABLES
    meant,   \* auxiliary: what Init chose, [kind, it]
    s, i,    \* the parser's string, without its braces, and its position
    out,     \* the dict it fills
    phase,   \* "parse", "parsed", "raised", and "again": parsed after the next turn
    first    \* auxiliary: out of the first parse

vars == <<meant, s, i, out, phase, first>>

Q == "<|quote|>"
Quotes == {"single", "double"}
Backtick == "backtick"
Space == "space"
Brackets == {"lbrack", "rbrack", "lbrace", "rbrace"}
Punctuation ==
    {Q, Backtick, Space, "colon", "comma", "slash", "backslash"} \cup Brackets \cup Quotes
Word(x) == <<x>> \in Keys \/ x \in {"x", "1"}
Letter(x) == Word(x) /\ x # "1"

-----------------------------------------------------------------------------
(* str.find, str.strip and their like. *)

Find(x, from) ==
    LET at == {p \in from..Len(s) : s[p] = x} IN IF at = {} THEN 0 ELSE Min(at)

SkipIn(S, from) ==
    Min({p \in from..Len(s) : s[p] \notin S} \cup {Max({from, Len(s) + 1})})

StripOf(S, text) ==
    LET kept == {p \in 1..Len(text) : text[p] \notin S} IN
    IF kept = {} THEN <<>> ELSE SubSeq(text, Min(kept), Max(kept))

RStripOf(S, text) ==
    SubSeq(text, 1, Max({p \in 1..Len(text) : text[p] \notin S} \cup {0}))

\* A value is told apart from the text that spells it.
Str(text) == [kind |-> "str", is |-> text]
Num(text) == [kind |-> "num", is |-> text]
List(texts) == [kind |-> "list", is |-> texts]
Object(fields) == [kind |-> "dict", is |-> fields]
EmptyDict == Object(<<>>)

IsNum(text) == text # <<>> /\ text \in Seq({"1"})

Values ==
    [kind : {"str"}, is : Seq(Symbols)]
    \cup [kind : {"num"}, is : Seq({"1"}) \ {<<>>}]
    \cup [kind : {"list"}, is : Seq(Seq(Symbols))]
    \cup [kind : {"dict"}, is : Seq([key : Keys, text : Seq(Symbols)])]

\* The strings in a value.
Strings(value) ==
    CASE value.kind = "str" -> {value.is}
      [] value.kind = "num" -> {}
      [] value.kind = "list" -> {value.is[k] : k \in 1..Len(value.is)}
      [] value.kind = "dict" -> {value.is[k].text : k \in 1..Len(value.is)}

\* The string delimiter is a token of its own, which no string holds.
Delimited(value) == \A text \in Strings(value) : ~Contains(text, Q)

\* What the reader of a value that is not a string makes something else of:
\* fields, and in the strings of a list what JSON or the count of brackets
\* reads.  (Brackets that are balanced do come through.)
Plain(value) ==
    /\ value.kind = "dict" => value = EmptyDict
    /\ value.kind = "list" =>
         \A text \in Strings(value) : \A x \in Brackets \cup {Q, "double", "backslash"} : ~Contains(text, x)

-----------------------------------------------------------------------------
(* How the chat template writes a call's arguments (external). *)

Joined(items) ==
    LET text[k \in 0..Len(items)] ==
            IF k = 0 THEN <<>>
            ELSE text[k - 1] \o (IF k = 1 THEN <<>> ELSE <<"comma">>) \o items[k]
    IN  text[Len(items)]

Quote(text) == <<Q>> \o text \o <<Q>>

Write(value) ==
    CASE value.kind = "str" -> Quote(value.is)
      [] value.kind = "num" -> value.is
      [] value.kind = "list" ->
            <<"lbrack">> \o Joined([k \in 1..Len(value.is) |-> Quote(value.is[k])]) \o <<"rbrack">>
      [] value.kind = "dict" ->
            <<"lbrace">> \o Joined([k \in 1..Len(value.is) |->
                                      value.is[k].key \o <<"colon">> \o Quote(value.is[k].text)]) \o <<"rbrace">>

WritePairs(pairs) ==
    Joined([k \in 1..Len(pairs) |-> pairs[k].key \o <<"colon">> \o Write(pairs[k].value)])

\* The malformed output the docstring describes: the string ends with a stray
\* backtick, and the last value is in single quotes.
WriteTail(key, t) ==
    key \o <<"colon", Q>> \o t.text \o <<Backtick, "comma", "path", "colon", "single">> \o t.value \o <<"single">>

ASSUME KeysAssumption ==
    /\ {<<"a">>, <<"path">>} \subseteq Keys /\ PathKeys \subseteq Keys
    /\ <<"path">> \in PathKeys /\ <<"a">> \notin PathKeys
    /\ \A key \in Keys : key \in Seq(Symbols) /\ Len(key) = 1 /\ key[1] \notin Punctuation \cup {"1"}
    /\ HostSep # ForeignSep /\ {HostSep, ForeignSep} = {"slash", "backslash"}
    /\ Punctuation \cup {"x", "1"} \subseteq Symbols

ASSUME InputsAssumption ==
    /\ \A pairs \in Given :
         /\ pairs \in Seq([key : Keys, value : Values])
         /\ \A k \in 1..Len(pairs) : Delimited(pairs[k].value)
    /\ \A t \in Tails :
         /\ t.text \in Seq(Symbols) /\ t.value \in Seq(Symbols)
         /\ ~Contains(t.text, Q) /\ ~Contains(t.value, Q) /\ ~Contains(t.value, "comma")
    /\ Texts \subseteq Seq(Symbols)

Init ==
    /\ \/ \E pairs \in Given : meant = [kind |-> "given", it |-> pairs] /\ s = WritePairs(pairs)
       \/ \E t \in Tails : meant = [kind |-> "tail", it |-> t] /\ s = WriteTail(<<"a">>, t)
       \/ \E text \in Texts : meant = [kind |-> "text", it |-> text] /\ s = text
    /\ i = 1 /\ out = <<>> /\ phase = "parse" /\ first = <<>>

-----------------------------------------------------------------------------
Put(dict, key, value) ==
    [k \in DOMAIN dict \cup {key} |-> IF k = key THEN value ELSE dict[k]]

\* One round of the parser's loop: the key, and where its value begins.
KeyFrom == SkipIn({Space, "comma"}, i)
Colon == Find("colon", KeyFrom)
Key == StripOf({Space}, StripOf(Quotes, StripOf({Space}, SubSeq(s, KeyFrom, Colon - 1))))

\* A mutant: separators are skipped in front of a value as in front of a key.
ValueFromSkipsCommas == SkipIn({Space, "comma"}, Colon + 1)

ValueFrom == SkipIn({Space}, Colon + 1)

More == phase = "parse" /\ i <= Len(s) /\ Colon # 0
AtValue(x) == More /\ ValueFrom <= Len(s) /\ s[ValueFrom] = x

Takes(dict, next) == out' = dict /\ i' = next /\ UNCHANGED <<meant, s, phase, first>>

\* A delimited literal, taken as it is.
Literal ==
    LET e == Find(Q, ValueFrom + 1) IN
    /\ AtValue(Q) /\ e # 0
    /\ Takes(Put(out, Key, Str(SubSeq(s, ValueFrom + 1, e - 1))), e + 1)

StripVal(text) ==
    LET v == StripOf({Space}, text) IN
    IF Len(v) >= 2 /\ v[1] \in Quotes /\ v[Len(v)] = v[1] THEN SubSeq(v, 2, Len(v) - 1) ELSE v

\* Where ",key:" is found in the rest of an unterminated literal.
IsWord(name) == name # <<>> /\ Letter(name[1]) /\ \A k \in 1..Len(name) : Word(name[k])

TailKeys(rest) ==
    {t \in (1..Len(rest)) \X (1..Len(rest)) :
        /\ t[1] < t[2] /\ rest[t[1]] = "comma" /\ rest[t[2]] = "colon"
        /\ IsWord(StripOf({Space}, SubSeq(rest, t[1] + 1, t[2] - 1)))}

\* A mutant: the first such tail.
TailOfFirst(rest) == CHOOSE t \in TailKeys(rest) : \A u \in TailKeys(rest) : t[1] <= u[1]

TailOf(rest) == CHOOSE t \in TailKeys(rest) : \A u \in TailKeys(rest) : t[1] >= u[1]

\* A literal that never ends: its last ",key:" is a pair of its own.
Unterminated ==
    LET rest == SubSeq(s, ValueFrom + 1, Len(s))
        t == TailOf(rest) IN
    /\ AtValue(Q) /\ Find(Q, ValueFrom + 1) = 0
    /\ IF TailKeys(rest) = {} THEN Takes(Put(out, Key, Str(rest)), Len(s) + 1)
       ELSE Takes(Put(Put(out, Key, Str(RStripOf({Space, Backtick} \cup Quotes, SubSeq(rest, 1, t[1] - 1)))),
                      StripOf({Space}, SubSeq(rest, t[1] + 1, t[2] - 1)),
                      Str(StripVal(SubSeq(rest, t[2] + 1, Len(rest))))),
                  Len(s) + 1)

\* A value in quotes, up to the same quote or the end.
Quoted ==
    \E q \in Quotes :
        LET found == Find(q, ValueFrom + 1)
            e == IF found = 0 THEN Len(s) ELSE found - 1 IN
        /\ AtValue(q)
        /\ Takes(Put(out, Key, Str(SubSeq(s, ValueFrom + 1, e))), e + 2)

Nesting(x) == IF x \in {"lbrack", "lbrace"} THEN 1 ELSE IF x \in {"rbrack", "rbrace"} THEN -1 ELSE 0

\* A mutant: brackets are not counted.
DepthFlat(from, to) == 0

Depth(from, to) ==
    LET d[p \in (from - 1)..to] == IF p < from THEN 0 ELSE d[p - 1] + Nesting(s[p]) IN d[to]

\* json.loads, the delimiter read as a double quote.  Of what it accepts: digits
\* (IsNum), {}, and lists of strings; a text of any other shape counts as refused.
IsEmptyDict(raw) ==
    \E a, b \in 1..Len(raw) :
        /\ a < b /\ raw[a] = "lbrace" /\ raw[b] = "rbrace"
        /\ \A p \in 1..Len(raw) : p \in {a, b} \/ raw[p] = Space

\* What a symbol behind a backslash stands for, if JSON has such an escape.
Escapes == {Q, "double", "slash", "backslash"}
Unescape(x) == IF x = Q THEN "double" ELSE x

\* The reader behind one symbol more: what it is in, the strings so far.
Reader(at, texts) == [at |-> at, is |-> texts]
JsonRead(r, x) ==
    LET mark == x \in {Q, "double"}
        Longer(c) == [r.is EXCEPT ![Len(r.is)] = Append(@, c)]
    IN
    CASE r.at = "start" /\ x = "lbrack" -> Reader("first", <<>>)
      [] r.at \in {"first", "next"} /\ mark -> Reader("string", Append(r.is, <<>>))
      [] r.at = "string" /\ mark -> Reader("behind", r.is)
      [] r.at = "string" /\ x = "backslash" -> Reader("escape", r.is)
      [] r.at = "string" /\ ~mark /\ x # "backslash" -> Reader("string", Longer(x))
      [] r.at = "escape" /\ x \in Escapes -> Reader("string", Longer(Unescape(x)))
      [] r.at = "behind" /\ x = "comma" -> Reader("next", r.is)
      [] r.at \in {"first", "behind"} /\ x = "rbrack" -> Reader("end", r.is)
      [] r.at \in {"first", "next", "behind"} /\ x = Space -> r
      [] OTHER -> Reader("refused", <<>>)

Json(raw) ==
    LET r[p \in 0..Len(raw)] == IF p = 0 THEN Reader("start", <<>>) ELSE JsonRead(r[p - 1], raw[p])
    IN  r[Len(raw)]

Bare ==
    LET e == Min({p \in ValueFrom..Len(s) : s[p] = "comma" /\ Depth(ValueFrom, p - 1) <= 0}
                 \cup {Len(s) + 1})
        raw == StripOf({Space}, SubSeq(s, ValueFrom, e - 1)) IN
    /\ More /\ ValueFrom <= Len(s) /\ s[ValueFrom] \notin Quotes \cup {Q}
    /\ Takes(Put(out, Key, IF IsNum(raw) THEN Num(raw)
                           ELSE IF IsEmptyDict(raw) THEN EmptyDict
                           ELSE IF Json(raw).at = "end" THEN List(Json(raw).is)
                           ELSE Str(StripOf(Quotes, raw))), e)

\* s[i] behind the end of s: an IndexError nobody catches.
Raise ==
    /\ More /\ ValueFrom > Len(s)
    /\ phase' = "raised"
    /\ UNCHANGED <<meant, s, i, out, first>>

-----------------------------------------------------------------------------
Replace(text) == [p \in 1..Len(text) |-> IF text[p] = ForeignSep THEN HostSep ELSE text[p]]

NormalizePaths(dict) ==
    [k \in DOMAIN dict |->
        IF dict[k].kind = "str" /\ k \in PathKeys THEN Str(Replace(dict[k].is)) ELSE dict[k]]

Parsed ==
    /\ phase = "parse" /\ ~More
    /\ phase' = IF meant.kind = "again" THEN "again" ELSE "parsed"
    /\ out' = NormalizePaths(out)
    /\ UNCHANGED <<meant, s, i, first>>

\* A mutant: arguments go to the template as the JSON string the client sent.
SendBackAsString ==
    /\ phase = "parsed"
    /\ s' = <<"lbrace">> \o FlattenSeq([k \in 1..Len(SetToSeq(DOMAIN out)) |->
                LET key == SetToSeq(DOMAIN out)[k] IN
                <<"double">> \o key \o <<"double", "colon", "double">> \o
                (IF out[key].kind = "list" THEN <<>> ELSE out[key].is) \o <<"double", "comma">>]) \o <<"rbrace">>
    /\ meant' = [kind |-> "again", it |-> <<>>]
    /\ i' = 1 /\ out' = <<>> /\ phase' = "parse" /\ first' = out

\* The client sends the call back, its arguments as JSON; _deser_tool_args reads
\* them, the template writes them, and the model copies what it sees.
SendBack ==
    /\ phase = "parsed"
    /\ LET keys == SetToSeq(DOMAIN out) IN
       s' = WritePairs([k \in 1..Len(keys) |-> [key |-> keys[k], value |-> out[keys[k]]]])
    /\ meant' = [kind |-> "again", it |-> <<>>]
    /\ i' = 1 /\ out' = <<>> /\ phase' = "parse" /\ first' = out

Next ==
    \/ Literal \/ Unterminated \/ Quoted \/ Bare \/ Raise
    \/ Parsed \/ SendBack

Spec == Init /\ [][Next]_vars

-----------------------------------------------------------------------------
Dict(pairs) ==
    [key \in {pairs[k].key : k \in 1..Len(pairs)} |->
        LET k == Max({n \in 1..Len(pairs) : pairs[n].key = key}) IN pairs[k].value]

\* What the model means is what the client gets: every key, strings to the
\* letter whatever punctuation they hold, numbers, {} and plain lists as such;
\* only the separators of paths change, to the host's (serve.py:175-200,
\* 231-278).
RoundTrip ==
    phase = "parsed" /\ meant.kind = "given" /\ (\A k \in 1..Len(meant.it) : Plain(meant.it[k].value)) =>
        /\ DOMAIN out = DOMAIN Dict(meant.it)
        /\ \A key \in DOMAIN out :
             LET was == Dict(meant.it)[key] IN
             /\ out[key].kind = was.kind
             /\ IF was.kind = "str" /\ key \in PathKeys
                THEN /\ Len(out[key].is) = Len(was.is)
                     /\ \A p \in 1..Len(was.is) :
                          out[key].is[p] = IF was.is[p] \in {HostSep, ForeignSep} THEN HostSep ELSE was.is[p]
                ELSE out[key].is = was.is

\* "We recover both" (serve.py:235-239): from a string that is never closed the
\* path behind it is split off, and the string keeps everything before, commas
\* and colons of its own included.
RecoversTail ==
    phase = "parsed" /\ meant.kind = "tail" =>
        /\ DOMAIN out = {<<"a">>, <<"path">>}
        /\ out[<<"path">>].is = Replace(meant.it.value)
        /\ out[<<"a">>].is = RStripOf({Space, Backtick} \cup Quotes, meant.it.text)

\* The parser raises on nothing but a last value that is missing (serve.py:265).
RaisesOnlyOnMissingValue ==
    phase = "raised" =>
        RStripOf({Space}, s) # <<>> /\ RStripOf({Space}, s)[Len(RStripOf({Space}, s))] = "colon"

\* A call with keys and values the template can write, however malformed it was,
\* survives the next turn: its arguments come back the same (serve.py:280-294,
\* 416-429).
SurvivesNextTurn ==
    phase = "again" /\ (\A key \in DOMAIN first :
                          key \in Keys /\ Delimited(first[key]) /\ Plain(first[key]))
        => out = first
=============================================================================
