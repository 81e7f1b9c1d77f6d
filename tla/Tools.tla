-------------------------------- MODULE Tools --------------------------------
(***************************************************************************)
(* A chat completion with tools (serve.py: _complete_tools): the tokens    *)
(* _run_tool yields are split while they come into what is streamed and    *)
(* what is not, and parsed again as a whole (_parse_tool_output) into      *)
(* content and calls.  Reasoning channels and tool calls nest as the model *)
(* likes, end where it likes, and are cut off by max_new.                  *)
(*                                                                         *)
(* The engine may yield any token; Generate says what it does inside.  A   *)
(* word decodes to itself, a marker to nothing; byte tokens, whose text    *)
(* may shrink when they complete a character, are in Generate.  The text   *)
(* of a call is the words of its span; Args reads its arguments.           *)
(***************************************************************************)
EXTENDS Integers, Sequences, SequencesExt

CONSTANTS
    Words,      \* tokens that decode to text, Space among them
    MaxNews,    \* the values max_new takes
    Space

TC_OPEN == "<|tool_call>"
TC_CLOSE == "<tool_call|>"
CH_OPEN == "<|channel>"
CH_CLOSE == "<channel|>"
Eos == "<turn|>"
Marks == {TC_OPEN, TC_CLOSE, CH_OPEN, CH_CLOSE}

\* A marker is a token of its own.
ASSUME WordsAssumption == Words \cap (Marks \cup {Eos}) = {}

VARIABLES
    stream, max_new,   \* of the request
    gen_ids,           \* tokens yielded by the engine
    vis, toolmode, inch,   \* sse's locals
    phase,    \* "running", "ended", "answered", "timed out"
    sent,     \* content the client has
    told,     \* calls the client has
    fin       \* the finish reason the client has, "none" before

vars == <<stream, max_new, gen_ids, vis, toolmode, inch, phase, sent, told, fin>>

-----------------------------------------------------------------------------
\* Inside a reasoning channel or not, after t.
ChannelState(inch0, t) == IF t = CH_OPEN THEN TRUE ELSE IF t = CH_CLOSE THEN FALSE ELSE inch0

\* A mutant: the walk ends at the first reasoning channel.
VisibleIdsFirst(ids) ==
    IF \E i \in 1..Len(ids) : ids[i] = CH_OPEN
    THEN SubSeq(ids, 1, SelectInSeq(ids, LAMBDA t : t = CH_OPEN) - 1) ELSE ids

\* One round of its loop.
See(before, t) ==
    [inch |-> ChannelState(before.inch, t),
     visible |-> IF t \in {CH_OPEN, CH_CLOSE} \/ before.inch THEN before.visible
                 ELSE Append(before.visible, t)]

VisibleIds(ids) ==
    LET seen[k \in 0..Len(ids)] ==
            IF k = 0 THEN [inch |-> FALSE, visible |-> <<>>] ELSE See(seen[k - 1], ids[k])
    IN  seen[Len(ids)].visible

\* tokenizer decode, special tokens skipped.
Spell(before, t) == IF t \in Words THEN Append(before, t) ELSE before

Decode(ids) ==
    LET text[k \in 0..Len(ids)] == IF k = 0 THEN <<>> ELSE Spell(text[k - 1], ids[k])
    IN  text[Len(ids)]

\* str.strip
Strip(text) ==
    LET kept == {i \in 1..Len(text) : text[i] # Space} IN
    IF kept = {} THEN <<>> ELSE SubSeq(text, Min(kept), Max(kept))

\* Calls begin at an opening marker that is in no other call and reach to the
\* closing one, or to the end.
CallEnd(ids, i) ==
    Min({j \in (i + 1)..Len(ids) : ids[j] = TC_CLOSE} \cup {Len(ids) + 1})

TakeCall(before, ids, i) ==
    IF ids[i] = TC_OPEN /\ i >= before.next
    THEN [next |-> CallEnd(ids, i) + 1,
          calls |-> Append(before.calls, SubSeq(ids, i + 1, CallEnd(ids, i) - 1))]
    ELSE before

ParseCalls(ids) ==
    LET found[k \in 0..Len(ids)] ==
            IF k = 0 THEN [next |-> 1, calls |-> <<>>] ELSE TakeCall(found[k - 1], ids, k)
    IN  found[Len(ids)].calls

BeforeCalls(ids) ==
    LET opens == {i \in 1..Len(ids) : ids[i] = TC_OPEN} IN
    IF opens = {} THEN ids ELSE SubSeq(ids, 1, Min(opens) - 1)

ParseToolOutput(ids) ==
    [content |-> Strip(Decode(VisibleIds(BeforeCalls(ids)))), calls |-> ParseCalls(ids)]

-----------------------------------------------------------------------------
Init ==
    /\ stream \in BOOLEAN
    /\ max_new \in MaxNews
    /\ gen_ids = <<>> /\ vis = <<>>
    /\ toolmode = FALSE /\ inch = FALSE
    /\ phase = "running"
    /\ sent = <<>> /\ told = <<>> /\ fin = "none"

\* A mutant: the model's own stops only.
StopsOfModel == {Eos}

\* The stops of _run_tool: a call ends the answer.
Stops == {Eos, TC_CLOSE}

\* A mutant: a call is looked for only outside the reasoning channel.
EntersToolModeOutside(t) == toolmode \/ (t = TC_OPEN /\ ~inch)

EntersToolMode(t) == toolmode \/ t = TC_OPEN

\* The engine yields t, and sse passes on the text it adds.
Token(t) ==
    /\ phase = "running" /\ Len(gen_ids) < max_new
    /\ t \notin Stops
    /\ gen_ids' = Append(gen_ids, t)
    /\ IF stream
       THEN /\ toolmode' = EntersToolMode(t)
            /\ inch' = IF toolmode' THEN inch ELSE ChannelState(inch, t)
            /\ vis' = IF toolmode' \/ inch' \/ t = CH_CLOSE THEN vis ELSE Append(vis, t)
            /\ sent' = Decode(vis')
       ELSE UNCHANGED <<toolmode, inch, vis, sent>>
    /\ UNCHANGED <<stream, max_new, phase, told, fin>>

\* A stop token, which is not yielded, or the last of max_new tokens.
Ends ==
    /\ phase = "running"
    /\ phase' = "ended"
    /\ UNCHANGED <<stream, max_new, gen_ids, vis, toolmode, inch, sent, told, fin>>

\* An error chunk and [DONE] for a stream, 503 without one; no calls.
FenceTimeout ==
    /\ phase = "running"
    /\ phase' = "timed out"
    /\ fin' = IF stream THEN "stop" ELSE "none"
    /\ UNCHANGED <<stream, max_new, gen_ids, vis, toolmode, inch, sent, told>>

\* A mutant: the cap is looked at first.
FinishLength(calls) ==
    IF Len(gen_ids) >= max_new THEN "length" ELSE IF calls # <<>> THEN "tool_calls" ELSE "stop"

Finish(calls) ==
    IF calls # <<>> THEN "tool_calls"
    ELSE IF Len(gen_ids) >= max_new THEN "length" ELSE "stop"

\* A stream sends one call per chunk.
TellCall ==
    /\ phase = "ended" /\ stream
    /\ LET calls == ParseToolOutput(gen_ids).calls IN
         /\ Len(told) < Len(calls)
         /\ told' = Append(told, calls[Len(told) + 1])
    /\ UNCHANGED <<stream, max_new, gen_ids, vis, toolmode, inch, phase, sent, fin>>

Answer ==
    /\ phase = "ended"
    /\ LET out == ParseToolOutput(gen_ids) IN
         /\ IF stream THEN told = out.calls /\ UNCHANGED <<told, sent>>
            ELSE told' = out.calls /\ sent' = out.content
         /\ fin' = Finish(out.calls)
    /\ phase' = "answered"
    /\ UNCHANGED <<stream, max_new, gen_ids, vis, toolmode, inch>>

Next ==
    \/ \E t \in Words \cup Marks : Token(t)
    \/ Ends \/ FenceTimeout \/ TellCall \/ Answer

Spec == Init /\ [][Next]_vars

-----------------------------------------------------------------------------
\* A position is in a channel if the last channel marker before it opens one.
InChannel(i) ==
    \E o \in 1..(i - 1) :
        /\ gen_ids[o] = CH_OPEN
        /\ \A c \in (o + 1)..(i - 1) : gen_ids[c] # CH_CLOSE

Shown ==
    {i \in 1..Len(gen_ids) :
        /\ gen_ids[i] \in Words
        /\ ~InChannel(i)
        /\ \A o \in 1..i : gen_ids[o] # TC_OPEN}

ShownUpTo(k) == {i \in Shown : i <= k}

\* At every moment a stream has sent exactly the words outside reasoning
\* channels and before the first call, in their order: no thought, no label, no
\* piece of a call, and none lost (serve.py:491-501).
SentIsVisible ==
    stream =>
        /\ Len(sent) = Cardinality(Shown)
        /\ \A i \in Shown : sent[Cardinality(ShownUpTo(i))] = gen_ids[i]

\* The client of a stream and the client of a plain answer get the same: the
\* incremental split and the parse of the whole agree, but for the blanks
\* around the content (serve.py:491-507, 526).
StreamedIsContent ==
    phase \in {"ended", "answered"} =>
        /\ stream => Strip(sent) = ParseToolOutput(gen_ids).content
        /\ phase = "answered" => told = ParseToolOutput(gen_ids).calls

\* One call per answer: <tool_call|> halts the engine and is never yielded, and
\* markers inside an open call are its text (serve.py:402-406, 283-294).
AtMostOneCall == Len(ParseCalls(gen_ids)) <= 1

\* A client is told to call a tool only by a generation that ended, and is told
\* so by the finish reason: a wedge in the middle of a call leaves none behind
\* (serve.py:502-510).
CallsAreFinished ==
    /\ told # <<>> => phase \in {"ended", "answered"} /\ fin \in {"none", "tool_calls"}
    /\ phase = "answered" => (fin = "tool_calls" <=> told # <<>>)
=============================================================================
