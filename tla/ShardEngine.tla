---------------------------- MODULE ShardEngine ----------------------------
(***************************************************************************)
(* The NPU/CPU engine that runs those shards: a pool of at most MaxLive    *)
(* open sessions, a prefill that sweeps all tokens through one shard       *)
(* before it opens the next, a decode that takes one token through all of  *)
(* them, and for each shard a rolling cache of win positions behind an     *)
(* additive mask.  It may be started whatever state the directory is in.   *)
(***************************************************************************)
EXTENDS ShardExport, SequencesExt

CONSTANTS
    MaxLive,      \* sessions the pool may hold (4)
    Prompt,       \* bound: tokens of the prompt
    NGen,         \* bound: tokens decoded after it
    Generations   \* bound: prompts, each after a reset()

\* A prompt has a token, and the pool room for the session it opens.
ASSUME ShardEngineAssumption ==
    /\ MaxLive \in Nat \ {0}
    /\ Prompt \in Nat \ {0} /\ NGen \in Nat /\ Generations \in Nat

VARIABLES
    phase,    \* "off", "ready", "prefill", "decode", "raised"
    desc,     \* the metadata read when the engine was built
    cpuTail,  \* how many of the last shards run on the CPU
    live,     \* open sessions: what each was loaded from
    lru,      \* their order of use
    held,     \* the session prefill's own variable still refers to
    caches,   \* rolling cache of each shard that has run since the reset
    carries,  \* hidden states between shards
    s, pos,   \* where the sweep is
    gen,      \* prompts so far
    told      \* hidden states the logits were computed from

engVars == <<phase, desc, cpuTail, live, lru, held, caches, carries, s, pos, gen, told>>
vars == <<meta, file, ctx, exporter, compiler, exports, compiles, histVars, engVars>>

\* The hidden state of a token of prompt g after its first `at' layers, and a
\* cached K/V of that token.
Hidden(g, p, at) == [gen |-> g, pos |-> p, at |-> at]
Entry(g, p) == [gen |-> g, pos |-> p]
Junk == Hidden(0, 0, 0)
Zero == Entry(0, 0)

EngineInit ==
    /\ phase = "off" /\ desc = NoMeta /\ cpuTail = 0
    /\ live = << >> /\ lru = <<>> /\ held = -1
    /\ caches = << >> /\ carries = <<>> /\ s = 0 /\ pos = 0 /\ gen = 0 /\ told = <<>>

NSH == Cardinality(DOMAIN Shards(desc))

Build ==
    /\ phase = "off" /\ meta # NoMeta
    /\ phase' = "ready" /\ desc' = meta
    /\ cpuTail' \in {0, 1, Cardinality(DOMAIN Shards(meta))}
    /\ UNCHANGED <<live, lru, held, caches, carries, s, pos, gen, told>>

\* Mutant: the caches of the last prompt are kept.
ResetNothing == caches' = caches
Reset == caches' = << >>

\* reset() and the start of prefill().
StartPrompt ==
    /\ phase = "ready" \/ (phase = "decode" /\ s = 0 /\ pos = Prompt + NGen)
    /\ gen < Generations
    /\ phase' = "prefill" /\ gen' = gen + 1
    /\ Reset
    /\ carries' = [i \in 1 .. Prompt |-> Hidden(gen + 1, i - 1, 0)]
    /\ s' = 0 /\ pos' = 0
    /\ UNCHANGED <<desc, cpuTail, live, lru, held, told>>

-----------------------------------------------------------------------------
(* _session *)

OnCpu(i) == i >= NSH - cpuTail
Path(i) == IF ~OnCpu(i) /\ ctx[i] # Absent THEN ctx[i] ELSE file[i]

Drop(q, n) == SubSeq(q, n + 1, Len(q))
\* Mutant: the pool is trimmed before the new session is counted.
ExcessLate(q) == IF Len(q) > MaxLive THEN Len(q) - MaxLive ELSE 0
\* `while len(live) >= max_live' drops from the front.
Excess(q) == IF Len(q) >= MaxLive THEN Len(q) - MaxLive + 1 ELSE 0

\* The pool after _session(i), when its file loads.
Used(i) ==
    IF i \in DOMAIN live THEN [lru |-> Append(RemoveFirst(lru, i), i), live |-> live]
    ELSE LET kept == Drop(lru, Excess(lru))
         IN  [lru |-> Append(kept, i),
              live |-> [j \in ToSet(kept) \cup {i} |-> IF j = i THEN Path(i) ELSE live[j]]]

Loads(i) == i \in DOMAIN live \/ Path(i).state = "whole"

-----------------------------------------------------------------------------
(* _run_shard *)

Cache(i) == IF i \in DOMAIN caches THEN caches[i] ELSE [j \in 1 .. desc.win |-> Zero]

\* Mutant: one cached slot too many.
ValidOffByOne(p) == IF p < desc.win THEN p + 2 ELSE desc.win + 1
\* The mask opens the last min(pos + 1, win + 1) of the win cached slots and
\* the current one.
Valid(p) == IF p < desc.win THEN p + 1 ELSE desc.win + 1
Visible(i, p) == Drop(Cache(i), desc.win + 1 - Valid(p))

\* What the model attends to: the positions before p the window still holds.
Past(p) == LET n == IF p < desc.win THEN p ELSE desc.win
           IN  [j \in 1 .. n |-> Entry(gen, p - n + j - 1)]

Ran(sess, i, h) ==
    IF /\ h # Junk /\ h.at = sess.lo
       /\ Visible(i, h.pos) = Past(h.pos)
    THEN Hidden(h.gen, h.pos, sess.hi) ELSE Junk

\* present is trimmed by its oldest entry.
Rolled(i, h) == Append(Tail(Cache(i)), IF h = Junk THEN Zero ELSE Entry(h.gen, h.pos))

\* One shard on one hidden state, for both sweeps: open it, run it, keep its
\* K/V.  A file that does not load, or a mask that does not fit it, raises.
RunShard(i, h) ==
    IF Loads(i) /\ Used(i).live[i].win = desc.win
    THEN /\ live' = Used(i).live /\ lru' = Used(i).lru
         /\ caches' = [j \in DOMAIN caches \cup {i} |-> IF j = i THEN Rolled(i, h) ELSE caches[j]]
         /\ phase' = phase
    ELSE /\ phase' = "raised"
         /\ UNCHANGED <<live, lru, caches>>

LogitsOf(h) == told' = Append(told, h)

InUse(i) == lru # <<>> /\ lru[Len(lru)] = i

\* prefill looks the session up once for all tokens of a shard; while it does,
\* its variable still refers to the session of the shard before.
PrefillOpen ==
    /\ phase = "prefill" /\ pos = 0 /\ held # s
    /\ ~InUse(s)
    /\ IF Loads(s) THEN live' = Used(s).live /\ lru' = Used(s).lru /\ phase' = phase
       ELSE phase' = "raised" /\ UNCHANGED <<live, lru>>
    /\ UNCHANGED <<desc, cpuTail, held, caches, carries, s, pos, gen, told>>

PrefillShard ==
    /\ phase = "prefill" /\ pos < Prompt
    /\ InUse(s)
    /\ RunShard(s, carries[pos + 1])
    /\ held' = s
    /\ IF phase' = "raised" THEN UNCHANGED <<carries, s, pos, told>>
       ELSE LET out == Ran(live'[s], s, carries[pos + 1])
            IN  /\ carries' = [carries EXCEPT ![pos + 1] = out]
                /\ IF pos + 1 < Prompt THEN pos' = pos + 1 /\ UNCHANGED <<s, told>>
                   ELSE IF s + 1 < NSH THEN pos' = 0 /\ s' = s + 1 /\ UNCHANGED told
                   ELSE pos' = Prompt /\ s' = 0 /\ LogitsOf(out)
    /\ UNCHANGED <<desc, cpuTail, gen>>

PrefillReturns ==
    /\ phase = "prefill" /\ pos = Prompt
    /\ phase' = "decode" /\ held' = -1
    /\ UNCHANGED <<desc, cpuTail, live, lru, caches, carries, s, pos, gen, told>>

\* forward: one token through every shard.
ForwardShard ==
    /\ phase = "decode" /\ pos < Prompt + NGen
    /\ LET h == IF s = 0 THEN Hidden(gen, pos, 0) ELSE carries[1]
       IN  /\ RunShard(s, h)
           /\ IF phase' = "raised" THEN UNCHANGED <<carries, s, pos, told>>
              ELSE LET out == Ran(live'[s], s, h)
                   IN  /\ carries' = <<out>>
                       /\ IF s + 1 < NSH THEN s' = s + 1 /\ UNCHANGED <<pos, told>>
                          ELSE s' = 0 /\ pos' = pos + 1 /\ LogitsOf(out)
    /\ UNCHANGED <<desc, cpuTail, held, gen>>

-----------------------------------------------------------------------------

Engine == Build \/ StartPrompt \/ PrefillOpen \/ PrefillShard \/ PrefillReturns \/ ForwardShard

Init == DirInit /\ EngineInit
Next ==
    \/ DirNext /\ UNCHANGED engVars
    \/ Engine /\ UNCHANGED <<dirVars, expVars, comVars, histVars>>
Spec == Init /\ [][Next]_vars

\* The logits of every token come from that token after all the layers, each
\* run once on exactly the last win positions of its own prompt, whether the
\* token was prefilled shard by shard or decoded; whatever the exporter or the
\* compiler died in the middle of, as long as they used one layout.
LogitsExact ==
    OneLayout =>
        \A i \in DOMAIN told :
            told[i] = LET n == NGen + 1
                      IN  Hidden(((i - 1) \div n) + 1, Prompt - 1 + ((i - 1) % n), NLayers)

\* A shard's cache holds, right-aligned, the last positions this prompt sent
\* through it: as many as the sweep has passed, never one of an earlier prompt.
CachesRoll ==
    OneLayout =>
        \A i \in DOMAIN caches :
            LET through == IF phase = "prefill" /\ pos < Prompt
                           THEN IF i < s THEN Prompt ELSE pos
                           ELSE IF i < s THEN pos + 1 ELSE pos
                n == IF through < desc.win THEN through ELSE desc.win
            IN  phase # "raised" =>
                    caches[i] = [j \in 1 .. desc.win |->
                        IF j <= desc.win - n THEN Zero ELSE Entry(gen, through - desc.win + j - 1)]

\* No more sessions are open than the accelerator has contexts for, counting
\* the one prefill's own variable keeps alive after the pool has dropped it.
PoolWithinLimit ==
    /\ Cardinality(DOMAIN live \cup ({held} \ {-1})) <= MaxLive
    /\ ToSet(lru) = DOMAIN live /\ Len(lru) = Cardinality(DOMAIN live)
=============================================================================
