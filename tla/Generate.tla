------------------------------ MODULE Generate ------------------------------
(***************************************************************************)
(* The token loop of one generation: generate in vk_engine.py (thinking    *)
(* budget, stop tokens, loop guard, end of the context) pulled by _run in  *)
(* serve.py (reasoning filter, incremental text, stop strings, finish      *)
(* reason, usage).  The model's choice of a token is nondeterministic.     *)
(***************************************************************************)
EXTENDS Integers, Sequences, FiniteSets

CONSTANTS
    Words,         \* ordinary tokens, one character of text each
    Bytes,         \* byte tokens: <0x00> to <0xFF>, or classes of them
    UStates, Utf8, \* the automaton that accepts UTF-8: Utf8[state][byte token]
    StopStrs,      \* the request's stop strings, as sequences of characters
    PromptLens,    \* lengths of tokenised prompts
    ReqMaxes,      \* max_tokens of requests
    OUTPUT_CAP, MAXT,
    THINK_BUDGET,  \* 0 = no budget
    REPEAT_LIMIT,  \* 0 = no loop guard
    REPW_SLACK     \* 8 in the code: how much longer than the limit recent is

ASSUME TextAssumption ==
    /\ Words \cap Bytes = {} /\ "?" \notin Words \cup Bytes
    /\ "whole" \in UStates /\ Utf8 \in [UStates -> [Bytes -> UStates]]

ASSUME GenerateAssumption ==
    /\ PromptLens \subseteq Nat /\ ReqMaxes \subseteq Nat
    /\ OUTPUT_CAP \in Nat \ {0} /\ MAXT \in Nat \ {0}
    /\ THINK_BUDGET \in Nat /\ REPEAT_LIMIT \in Nat /\ REPW_SLACK \in Nat

Open == "open"      \* <|channel>
Close == "close"    \* <channel|>
Eos == "eos"        \* any id of STOP_IDS
Vocab == Words \cup Bytes \cup {Open, Close, Eos}

VARIABLES
    promptN, maxNew,   \* the request
    pc,                \* "sample", "consume", "advance", "done"
    out,               \* every token yielded by generate, with in_think then
    inThink, thinkN, recent,
    inch, vis, prev,   \* _run: in the reasoning channel, visible ids, their text
    sent,              \* the text sent so far, all deltas joined
    deltas,            \* auxiliary: what each visible token added to it
    finish, usage,     \* the final yield of _run
    why                \* auxiliary: what ended the generation

engineVars == <<out, inThink, thinkN, recent>>
runVars == <<inch, vis, prev, sent, deltas, finish, usage>>
vars == <<promptN, maxNew, pc, engineVars, runVars, why>>

-----------------------------------------------------------------------------
(* Operators *)

MinOf(S) == CHOOSE x \in S : \A y \in S : x <= y
MaxOf(S) == CHOOSE x \in S : \A y \in S : x >= y

\* Mutant: the room left in the context is not taken into account.
FitIgnoresContext(promptLen, reqMax) == MaxOf({1, MinOf({reqMax, OUTPUT_CAP})})

\* reqMax is what the request asks for, the default when it asks for nothing.
Fit(promptLen, reqMax) == MaxOf({1, MinOf({reqMax, OUTPUT_CAP, MAXT - promptLen})})

Last(s, k) == IF Len(s) <= k THEN s ELSE SubSeq(s, Len(s) - k + 1, Len(s))

\* The last len elements of s repeat with period p.
Cycle(s, p, len) ==
    /\ Len(s) >= len
    /\ \A i \in Len(s) - len + p + 1 .. Len(s) : s[i] = s[i - p]

\* _loop_tail: limit \div p + 1 blocks of p tokens are compared; when buf is
\* shorter than that, the last slice is empty and the comparison fails.
LoopTail(buf, limit) ==
    \E p \in 1 .. 4 :
        Len(buf) >= limit /\ Len(buf) >= 2 * p /\ Cycle(buf, p, p * (limit \div p + 1))

\* Mutant: recent is as long as the limit.
REPWNoSlack == REPEAT_LIMIT

\* max(REPEAT_LIMIT + 8, 64); without the floor of 64, which only lengthens it.
REPW == REPEAT_LIMIT + REPW_SLACK

\* The decoder between two tokens: the text before the current run of byte
\* tokens; of the run its length, the characters it has completed (each named by
\* its last byte) and the state of UTF-8, "whole" between two characters.
Started(text) == [before |-> text, size |-> 0, spelt |-> <<>>, state |-> "whole"]

\* A run of byte tokens prints as its characters when all of it is UTF-8, and
\* as one replacement character "?" for each of its bytes when it is not.
Marks(k) == [i \in 1 .. k |-> "?"]
Render(d) == d.before \o (IF d.state = "whole" THEN d.spelt ELSE Marks(d.size))

\* An ordinary token ends the run.
Read(d, t) ==
    IF t \in Words THEN Started(Append(Render(d), t))
    ELSE [before |-> d.before, size |-> d.size + 1, state |-> Utf8[d.state][t],
          spelt |-> IF Utf8[d.state][t] = "whole" THEN Append(d.spelt, t) ELSE d.spelt]

\* The decoder after the tokens ids.
Reading(ids) ==
    LET reading[k \in 0 .. Len(ids)] ==
            IF k = 0 THEN Started(<<>>) ELSE Read(reading[k - 1], ids[k])
    IN  reading[Len(ids)]

\* E.tok.decode
Decode(ids) == Render(Reading(ids))

OccursAt(s, text, i) == SubSeq(text, i + 1, i + Len(s)) = s
Occurrences(text) ==
    {i \in 0 .. Len(text) : \E s \in StopStrs :
        s # <<>> /\ i + Len(s) <= Len(text) /\ OccursAt(s, text, i)}

\* The text up to its first stop string.
Cut(text) ==
    IF Occurrences(text) = {} THEN text ELSE SubSeq(text, 1, MinOf(Occurrences(text)))

\* Mutant: what is new counts from the characters sent.
BeyondSent(text, before) == SubSeq(text, Len(sent) + 1, Len(text))

\* text[len(before):]
Beyond(text, before) == SubSeq(text, Len(before) + 1, Len(text))

-----------------------------------------------------------------------------
Init ==
    /\ promptN \in PromptLens
    /\ \E m \in ReqMaxes : maxNew = Fit(promptN, m)
    /\ pc = "sample"
    /\ out = <<>> /\ inThink = FALSE /\ thinkN = 0 /\ recent = <<>>
    /\ inch = FALSE /\ vis = <<>> /\ prev = <<>> /\ sent = <<>> /\ deltas = <<>>
    /\ finish = "none" /\ usage = 0
    /\ why = "none"

\* The generator has returned: the last yield of _run.
RunEnds(reason) ==
    /\ pc' = "done"
    /\ why' = reason
    /\ finish' = IF Len(out) >= maxNew THEN "length" ELSE "stop"
    /\ usage' = IF Len(out) >= maxNew THEN Len(out) ELSE Len(out) + 1
    /\ UNCHANGED <<promptN, maxNew, engineVars, inch, vis, prev, sent, deltas>>

EmptyPrompt ==
    /\ pc = "sample" /\ promptN = 0
    /\ RunEnds("empty")

OutOfThoughts == THINK_BUDGET > 0 /\ inThink /\ thinkN >= THINK_BUDGET

Yield(t, thinking, spent) ==
    /\ pc = "sample" /\ promptN > 0 /\ Len(out) < maxNew
    /\ out' = Append(out, [tok |-> t, think |-> thinking])
    /\ inThink' = thinking
    /\ thinkN' = spent
    /\ pc' = "consume"
    /\ UNCHANGED <<promptN, maxNew, recent, runVars, why>>

\* Mutant: the forced close leaves in_think set.
ForceCloseStays == OutOfThoughts /\ Yield(Close, inThink, thinkN)

\* The budget is spent: the next token is <channel|>, whatever the model says.
ForceClose == OutOfThoughts /\ Yield(Close, FALSE, thinkN)

\* Mutant: opening the channel again starts a new budget.
SampleResets(t) ==
    /\ ~OutOfThoughts
    /\ t # Eos
    /\ Yield(t, t = Open \/ (inThink /\ t # Close),
             IF t = Open THEN 0 ELSE IF inThink /\ t # Close THEN thinkN + 1 ELSE thinkN)

\* A sampled token; those inside the channel count against the budget.
Sample(t) ==
    /\ ~OutOfThoughts
    /\ t # Eos
    /\ Yield(t, t = Open \/ (inThink /\ t # Close),
             IF inThink /\ t \notin {Open, Close} THEN thinkN + 1 ELSE thinkN)

SampleStop ==
    /\ pc = "sample" /\ promptN > 0 /\ Len(out) < maxNew
    /\ ~OutOfThoughts
    /\ RunEnds("eos")

Token == out[Len(out)].tok

\* Mutant: <channel|> is dropped but does not end the channel.
ConsumeHiddenOpenOnly ==
    /\ pc = "consume"
    /\ Token \in {Open, Close} \/ inch
    /\ inch' = (inch \/ Token = Open)
    /\ pc' = "advance"
    /\ UNCHANGED <<promptN, maxNew, engineVars, vis, prev, sent, deltas, finish, usage, why>>

\* _run drops the channel's tokens and the tokens inside it.
ConsumeHidden ==
    /\ pc = "consume"
    /\ Token \in {Open, Close} \/ inch
    /\ inch' = IF Token = Open THEN TRUE ELSE IF Token = Close THEN FALSE ELSE inch
    /\ pc' = "advance"
    /\ UNCHANGED <<promptN, maxNew, engineVars, vis, prev, sent, deltas, finish, usage, why>>

\* A visible token: the whole text again, cut at the first stop string.
ConsumeVisible ==
    /\ pc = "consume"
    /\ Token \notin {Open, Close} /\ ~inch
    /\ LET ids == Append(vis, Token)
           text == Decode(ids)
           delta == Beyond(Cut(text), prev)
       IN  /\ vis' = ids
           /\ sent' = sent \o delta /\ deltas' = Append(deltas, delta)
           /\ IF Occurrences(text) # {}
              THEN /\ finish' = "stop" /\ usage' = Len(out)
                   /\ pc' = "done" /\ why' = "stop string"
                   /\ UNCHANGED prev
              ELSE /\ prev' = text
                   /\ pc' = "advance"
                   /\ UNCHANGED <<finish, usage, why>>
    /\ UNCHANGED <<promptN, maxNew, engineVars, inch>>

\* The prompt generate works with: cut when it fills the context.
n == MinOf({promptN, MAXT - 1})

\* pos in generate when the last token of out has just been yielded
pos == n + Len(out) - 1

recentNow == Last(Append(recent, Token), REPW)
Looping == REPEAT_LIMIT > 0 /\ LoopTail(recentNow, REPEAT_LIMIT)

\* generate resumes after its yield, in the order of its guards.
LoopGuard == pc = "advance" /\ Looping /\ RunEnds("loop")

ContextEnd == pc = "advance" /\ ~Looping /\ pos >= MAXT - 1 /\ RunEnds("context")

Advance ==
    /\ pc = "advance" /\ ~Looping /\ pos < MAXT - 1
    /\ Len(out) < maxNew
    /\ recent' = recentNow
    /\ pc' = "sample"
    /\ UNCHANGED <<promptN, maxNew, out, inThink, thinkN, runVars, why>>

CapReached ==
    /\ pc = "advance" /\ ~Looping /\ pos < MAXT - 1
    /\ Len(out) = maxNew
    /\ RunEnds("cap")

Next ==
    \/ EmptyPrompt
    \/ ForceClose
    \/ \E t \in Vocab : Sample(t)
    \/ SampleStop
    \/ ConsumeHidden
    \/ ConsumeVisible
    \/ LoopGuard
    \/ ContextEnd
    \/ Advance
    \/ CapReached

Spec == Init /\ [][Next]_vars

-----------------------------------------------------------------------------
(* Properties *)

toks == [i \in 1 .. Len(out) |-> out[i].tok]

TypeOK ==
    /\ promptN \in PromptLens /\ maxNew \in Nat \ {0}
    /\ pc \in {"sample", "consume", "advance", "done"}
    /\ out \in Seq([tok : Vocab \ {Eos}, think : BOOLEAN]) /\ Len(out) <= maxNew
    /\ inThink \in BOOLEAN /\ thinkN \in 0 .. Len(out)
    /\ recent \in Seq(Vocab) /\ Len(recent) <= REPW
    /\ inch \in BOOLEAN /\ vis \in Seq(Words \cup Bytes)
    /\ finish \in {"none", "stop", "length"} /\ usage \in 0 .. maxNew
    /\ why \in {"none", "empty", "eos", "loop", "context", "cap", "stop string"}

\* The engine's idea of the reasoning channel (which it budgets) and the
\* server's (which it hides) agree whenever both have seen a token, forced
\* closes included.
ChannelsAgree == pc \in {"sample", "advance", "done"} => inch = inThink

\* The strengthening the proofs use.  A token the server has not seen yet is
\* already in the engine's flag; think_n counts the thoughts of the whole
\* generation; maxNew leaves room in the context; recent is the end of what was
\* yielded, without the token just yielded while that one is pending, and the
\* generation goes on only while the guard finds no cycle in it.
Pending ==
    /\ pc \in {"consume", "advance"} => out # <<>>
    /\ pc = "consume" => inThink = (Token = Open \/ (inch /\ Token # Close))
    /\ pc = "consume" => out[Len(out)].think = inThink
    /\ pc # "done" => why = "none"

Thoughts == {i \in 1 .. Len(out) : out[i].think /\ out[i].tok # Open}

ThoughtsCounted ==
    /\ thinkN = Cardinality(Thoughts)
    /\ THINK_BUDGET > 0 => thinkN <= THINK_BUDGET

RecentIsTail ==
    LET seen == IF pc \in {"consume", "advance"} THEN Len(out) - 1 ELSE Len(out)
    IN  pc # "done" =>
            /\ Len(recent) = MinOf({seen, REPW})
            /\ \A i \in 1 .. Len(recent) : recent[i] = out[seen - Len(recent) + i].tok

Quiet == pc = "sample" /\ REPEAT_LIMIT > 0 => ~LoopTail(recent, REPEAT_LIMIT)

IInv ==
    /\ TypeOK
    /\ ChannelsAgree
    /\ Pending
    /\ ThoughtsCounted
    /\ n + maxNew <= MAXT
    /\ RecentIsTail
    /\ Quiet

Shown(k) == {i \in 1 .. k : ~out[i].think /\ out[i].tok # Close}

\* Exactly the tokens the engine produced outside the channel are shown, in
\* their order: no reasoning leaks, and no answer is swallowed after a forced
\* close (serve.py:380-395).
ShownIsAnswer ==
    LET seen == IF pc = "consume" THEN Len(out) - 1 ELSE Len(out)
    IN  /\ Len(vis) = Cardinality(Shown(seen))
        /\ \A i \in Shown(seen) : vis[Cardinality(Shown(i))] = out[i].tok

\* "max reasoning tokens before forced answer" (serve.py:32): over the whole
\* generation, however often the model opens the channel.
ThinkingBounded ==
    THINK_BUDGET > 0 => Cardinality(Thoughts) <= THINK_BUDGET

\* The loop guard ends a generation on exactly the cycles _loop_tail compares:
\* limit \div p + 1 periods of p <= 4 tokens, and it misses none of them although
\* only the last REPW tokens are kept; such a cycle is longer than the limit.
LoopGuardExact ==
    REPEAT_LIMIT > 0 =>
        /\ pc = "sample" =>
               \A p \in 1 .. 4 : Len(toks) >= 2 * p =>
                   ~Cycle(toks, p, p * (REPEAT_LIMIT \div p + 1))
        /\ why = "loop" => \E p \in 1 .. 4 : Cycle(toks, p, MaxOf({REPEAT_LIMIT + 1, 2 * p}))

\* What the docstring of _loop_tail says (vk_engine.py:537-538): the tail is a
\* cycle of period <= 4 "covering >= `limit` tokens", and JOURNEY.md:625: such a
\* cycle ends the generation.  The code compares one period more.
LoopGuardAtLimit ==
    REPEAT_LIMIT > 0 /\ pc = "sample" =>
        \A p \in 1 .. 4 : ~Cycle(toks, p, MaxOf({REPEAT_LIMIT, 2 * p}))

\* _fit leaves room: running into the end of the context is always reported as
\* "length", and no token is generated beyond the context.
ContextEndIsLength ==
    /\ why = "context" => finish = "length"
    /\ n + Len(out) <= MAXT

\* An ordinary token is sent as its character; the first byte token of a run is
\* sent as something, none as another token's character.
Delivered(k) ==
    IF vis[k] \in Words THEN deltas[k] = <<vis[k]>>
    ELSE /\ \A i \in 1 .. Len(deltas[k]) : deltas[k][i] \notin Words
         /\ k = 1 \/ vis[k - 1] \in Words => deltas[k] # <<>>

\* The text sent never contains a stop string, and every ordinary token reaches
\* the client when it comes, whatever became of the byte tokens before it: a run
\* of them that turns out to be UTF-8 shrinks the text (serve.py:388-395).  The
\* replacement characters sent for it are not taken back, so the text sent is
\* never shorter than the text, and it is the text where there is no such run.
SentIsText ==
    /\ Occurrences(sent) = {}
    /\ \A k \in 1 .. Len(deltas) : Delivered(k) \/ (k = Len(vis) /\ why = "stop string")
    /\ pc = "sample" =>
           /\ Len(deltas) = Len(vis) /\ Len(sent) >= Len(Decode(vis))
           /\ (\A k \in 1 .. Len(vis) : vis[k] \in Words) => sent = Decode(vis)
=============================================================================
