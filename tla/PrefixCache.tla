---------------------------- MODULE PrefixCache ----------------------------
(***************************************************************************)
(* The prefix KV cache: the server's ledger (_pref_cache, _cache_plan,     *)
(* _cache_commit in serve.py) and the engine's prefill / restore /         *)
(* snapshot / decode (generate in vk_engine.py) that the ledger describes. *)
(* The two halves agree only through the order in which one job calls      *)
(* them, under _gen_lock: plan, start the generator, run it to its first   *)
(* token, commit.  One job at a time is what _gen_lock gives.              *)
(***************************************************************************)
EXTENDS KVCache

CONSTANTS
    Tokens,     \* token ids
    Prompts,    \* the tokenised prompts clients send
    NaNPrompts, \* those whose logits are not numbers, so that sampling raises
    MaxNew      \* max_new, the output cap of a job

ASSUME PromptsAssumption ==
    /\ Prompts \subseteq Seq(Tokens)
    /\ NaNPrompts \subseteq Prompts
    /\ MaxNew \in Nat \ {0}

VARIABLES
    glob,     \* kc/vc of a global layer
    ring,     \* kc/vc of a sliding layer
    sglob,    \* the snapshot side buffer of a global layer
    sring,    \* the snapshot side buffer of a sliding layer
    pref,     \* _pref_cache: the prefix the snapshot buffers are said to hold
    pc,       \* where the job in _run / generate is
    req,      \* ids, as the server sees them
    toks,     \* the prompt as generate uses it, then the tokens it sampled
    n,        \* its length before the first sampled token
    reuse,    \* reuse_chunks in generate, after clamping
    snap,     \* snap_chunks in generate, after clamping
    snapArg,  \* snap_arg in the server
    pos,      \* the next position to be processed
    wedged,   \* a fence has timed out: the device answers no submit any more
    shot,     \* auxiliary: this job took a snapshot it has not committed yet
    tainted   \* auxiliary: ledger and snapshot were separated (see Commit, Raise)

kvVars == <<glob, ring>>
snapVars == <<sglob, sring>>
jobVars == <<req, n, reuse, snap, snapArg>>
vars == <<kvVars, snapVars, pref, pc, jobVars, toks, pos, wedged, shot, tainted>>

\* Full chunks among all tokens but the last, which decode must process.
FullChunks(len) == IF len > MC THEN (len - 1) \div MC ELSE 0
Full(ids) == FullChunks(Len(ids))

\* Mutant: any common prefix is good enough, not only the exact cached one.
ReusableAnyLength(ids) ==
    LET k == Min2(pref.chunks, Full(ids)) * MC
    IN  k > 0 /\ SubSeq(ids, 1, k) = SubSeq(pref.ids, 1, k)

Reusable(ids) ==
    /\ 0 < pref.chunks
    /\ pref.chunks <= Full(ids)
    /\ SubSeq(ids, 1, pref.chunks * MC) = pref.ids

PlanReuse(ids) == IF Reusable(ids) THEN pref.chunks ELSE 0

\* Mutant: a snapshot is taken only when there is none to reuse.
PlanSnapOnce(ids) == IF PlanReuse(ids) = 0 THEN Min2(Full(ids), CMAX) ELSE 0

PlanSnap(ids) ==
    LET s == Min2(Full(ids), CMAX)
    IN  IF s > PlanReuse(ids) THEN s ELSE 0

TooLong(ids) == Len(ids) >= MAXT

\* ids[-(MAXT - 1):]
Truncate(ids) ==
    IF TooLong(ids) THEN SubSeq(ids, Len(ids) - MAXT + 2, Len(ids)) ELSE ids

\* reuse_chunks and snap_chunks as generate uses them: truncation breaks the
\* alignment of the prefix, so it drops both.
EngineReuse(ids) == IF TooLong(ids) THEN 0 ELSE Min2(PlanReuse(ids), Full(ids))

\* Mutant: the reset at truncation forgets snap_chunks.
EngineSnapKept(ids) == Min2(PlanSnap(ids), Min2(Full(Truncate(ids)), CMAX))

EngineSnap(ids) ==
    IF TooLong(ids) THEN 0 ELSE Min2(PlanSnap(ids), Min2(Full(ids), CMAX))

nfull == FullChunks(n)

-----------------------------------------------------------------------------
Init ==
    /\ glob = [q \in GlobalSlots |-> Blank]
    /\ ring = [s \in RingSlots |-> Blank]
    /\ sglob = [q \in SnapSlots |-> Blank]
    /\ sring = [s \in RingSlots |-> Blank]
    /\ pref = [ids |-> <<>>, chunks |-> 0]
    /\ pc = "idle"
    /\ req = <<>> /\ toks = <<>>
    /\ n = 0 /\ reuse = 0 /\ snap = 0 /\ snapArg = 0 /\ pos = 0
    /\ wedged = FALSE
    /\ shot = FALSE
    /\ tainted = FALSE

\* _run takes _gen_lock and plans; next(gen) enters generate, which may
\* truncate the prompt and clamps the plan.
Begin(ids) ==
    /\ pc = "idle"
    /\ req' = ids
    /\ snapArg' = PlanSnap(ids)
    /\ toks' = Truncate(ids)
    /\ n' = Len(Truncate(ids))
    /\ reuse' = EngineReuse(ids)
    /\ snap' = EngineSnap(ids)
    /\ pos' = reuse' * MC
    /\ pc' = IF ids = <<>> THEN "commit"
             ELSE IF reuse' > 0 THEN "restore" ELSE "prefill"
    /\ UNCHANGED <<kvVars, snapVars, pref, wedged, shot, tainted>>

\* Mutant: the restore forgets the sliding layers.
RestoreGlobalOnly ==
    /\ pc = "restore" /\ ~wedged
    /\ glob' = [q \in GlobalSlots |-> IF q \in SnapSlots THEN sglob[q] ELSE glob[q]]
    /\ pc' = "prefill"
    /\ UNCHANGED <<ring, snapVars, pref, jobVars, toks, pos, wedged, shot, tainted>>

\* _kv_copy(_cb_restore)
Restore ==
    /\ pc = "restore" /\ ~wedged
    /\ glob' = [q \in GlobalSlots |-> IF q \in SnapSlots THEN sglob[q] ELSE glob[q]]
    /\ ring' = sring
    /\ pc' = "prefill"
    /\ UNCHANGED <<snapVars, pref, jobVars, toks, pos, wedged, shot, tainted>>

\* forward_prefill on the next chunk
PrefillChunk ==
    /\ pc = "prefill" /\ ~wedged
    /\ pos < nfull * MC
    /\ glob' = WriteGlobal(glob, toks, pos, pos + MC - 1, "chunk")
    /\ ring' = WriteRing(ring, toks, pos, pos + MC - 1, "chunk")
    /\ pos' = pos + MC
    /\ pc' = IF pos' = snap * MC THEN "snapshot" ELSE "prefill"
    /\ UNCHANGED <<snapVars, pref, jobVars, toks, wedged, shot, tainted>>

\* _kv_copy(_cb_snap)
Snapshot ==
    /\ pc = "snapshot" /\ ~wedged
    /\ sglob' = [q \in SnapSlots |-> glob[q]]
    /\ sring' = ring
    /\ shot' = TRUE
    /\ pc' = "prefill"
    /\ UNCHANGED <<kvVars, pref, jobVars, toks, pos, wedged, tainted>>

\* forward(toks[pos], pos)
Forward ==
    /\ ~wedged
    /\ glob' = WriteGlobal(glob, toks, pos, pos, "decode")
    /\ ring' = WriteRing(ring, toks, pos, pos, "decode")
    /\ pos' = pos + 1

\* The tail of the prompt goes through the decode path.
TailToken ==
    /\ pc = "prefill"
    /\ nfull * MC <= pos /\ pos < n
    /\ Forward
    /\ pc' = IF pos' = n THEN "sample" ELSE "prefill"
    /\ UNCHANGED <<snapVars, pref, jobVars, toks, wedged, shot, tainted>>

\* The job's locals are gone, and _gen_lock is free.
EndJob ==
    /\ pc' = "idle"
    /\ req' = <<>> /\ toks' = <<>>
    /\ n' = 0 /\ reuse' = 0 /\ snap' = 0 /\ snapArg' = 0 /\ pos' = 0

MoreToSample == pc = "sample" /\ Len(toks) < n + MaxNew

\* sample() picks a token; the first one is held by _run until the commit.
SampleToken(t) ==
    /\ MoreToSample
    /\ toks' = Append(toks, t)
    /\ pc' = IF Len(toks) = n THEN "commit" ELSE "yielded"
    /\ UNCHANGED <<kvVars, snapVars, pref, jobVars, pos, wedged, shot, tainted>>

\* sample() picks a stop token and generate returns: at the first token _run
\* still has to commit.
SampleStop ==
    /\ MoreToSample
    /\ IF Len(toks) = n THEN pc' = "commit" /\ UNCHANGED <<jobVars, toks, pos>>
                        ELSE EndJob
    /\ UNCHANGED <<kvVars, snapVars, pref, wedged, shot, tainted>>

\* np.random.choice raises on NaN probabilities; the exception leaves
\* next(gen) and _run, past _cache_commit when this was the first sample.
Raise ==
    /\ MoreToSample /\ req \in NaNPrompts
    /\ EndJob
    /\ tainted' = (tainted \/ shot)
    /\ shot' = FALSE
    /\ UNCHANGED <<kvVars, snapVars, pref, wedged>>

\* range(max_new) is used up, after one forward nobody samples from.
Exhausted ==
    /\ pc = "sample" /\ Len(toks) = n + MaxNew
    /\ EndJob
    /\ UNCHANGED <<kvVars, snapVars, pref, wedged, shot, tainted>>

\* _cache_commit: the ledger is updated from what the server asked for.
Commit ==
    /\ pc = "commit"
    /\ pref' = IF snapArg > 0
               THEN [ids |-> SubSeq(req, 1, snapArg * MC), chunks |-> snapArg]
               ELSE pref
    /\ tainted' = IF snapArg > 0
                  THEN IF snap = 0 THEN TRUE ELSE tainted /\ reuse > 0
                  ELSE tainted
    /\ shot' = FALSE
    /\ IF Len(toks) > n THEN pc' = "yielded" /\ UNCHANGED <<jobVars, toks, pos>>
                        ELSE EndJob
    /\ UNCHANGED <<kvVars, snapVars, wedged>>

\* The consumer took the token and asks for the next one.
Resume ==
    /\ pc = "yielded" /\ pos < MAXT - 1
    /\ Forward
    /\ pc' = "sample"
    /\ UNCHANGED <<snapVars, pref, jobVars, toks, wedged, shot, tainted>>

\* The generator ends after a yield: the loop guard, the end of the context,
\* a stop string, or a client that went away (GeneratorExit).
Finish ==
    /\ pc = "yielded"
    /\ EndJob
    /\ UNCHANGED <<kvVars, snapVars, pref, wedged, shot, tainted>>

\* _wait_fence raises.  serve.py treats a fence timeout as a dead device:
\* whatever its memory holds, no later submit of this process completes.
FenceTimeout ==
    /\ pc \in {"restore", "prefill", "snapshot", "yielded"}
    /\ EndJob
    /\ wedged' = TRUE
    /\ tainted' = (tainted \/ shot \/ pc = "snapshot")
    /\ shot' = FALSE
    /\ UNCHANGED <<kvVars, snapVars, pref>>

Next ==
    \/ \E ids \in Prompts : Begin(ids)
    \/ Restore
    \/ PrefillChunk
    \/ Snapshot
    \/ TailToken
    \/ \E t \in Tokens : SampleToken(t)
    \/ SampleStop
    \/ Raise
    \/ Exhausted
    \/ Commit
    \/ Resume
    \/ Finish
    \/ FenceTimeout

Spec == Init /\ [][Next]_vars

-----------------------------------------------------------------------------
(* Properties *)

Entry == [ctx : Seq(Tokens), via : {"none", "chunk", "decode"}]

\* Types and ranges; pos \in 0 .. MAXT - 1 says that no prompt and no run of
\* generated tokens leaves the context (the truncation and the MAXT guard of
\* generate), pos <= Len(toks) that only known tokens are forwarded.
TypeOK ==
    /\ glob \in [GlobalSlots -> Entry]
    /\ ring \in [RingSlots -> Entry]
    /\ sglob \in [SnapSlots -> Entry]
    /\ sring \in [RingSlots -> Entry]
    /\ pref \in [ids : Seq(Tokens), chunks : 0 .. CMAX]
    /\ pc \in {"idle", "restore", "prefill", "snapshot", "sample", "commit", "yielded"}
    /\ req \in Seq(Tokens)
    /\ toks \in Seq(Tokens)
    /\ n \in 0 .. Len(toks)
    /\ n < MAXT
    /\ reuse \in 0 .. CMAX
    /\ snap \in 0 .. CMAX
    /\ snapArg \in 0 .. CMAX
    /\ pos \in 0 .. MAXT - 1
    /\ pos <= Len(toks)
    /\ wedged \in BOOLEAN /\ shot \in BOOLEAN /\ tainted \in BOOLEAN

\* The last positions of a run of length len that a ring still holds.
Window(len) == Max2(0, len - WIN) .. len - 1

\* g and r hold what a prefill of the first len tokens of ids leaves.
HoldsPrefix(g, r, ids, len) ==
    /\ \A q \in 0 .. len - 1 : g[q] = KV(ids, q, "chunk")
    /\ \A q \in Window(len) : r[q % WIN] = KV(ids, q, "chunk")

\* "snapshot buffers currently hold this prefix's KV" (serve.py:141): between
\* jobs and outside the snapshot-to-commit window of one job, unless a
\* commit without a snapshot or a job that died inside that window has
\* separated the two.
LedgerHonest ==
    ~shot /\ ~tainted => HoldsPrefix(sglob, sring, pref.ids, pref.chunks * MC)

\* What a run of generate with no cache at all has at position q.
Cold(q) == KV(toks, q, IF q < nfull * MC THEN "chunk" ELSE "decode")

Trusted == reuse = 0 \/ ~tainted

DecodeReadsCold ==
    /\ DecodeReadsGlobal(glob, pos - 1) = {Cold(q) : q \in 0 .. pos - 1}
    /\ DecodeReadsRing(ring, pos - 1) = {Cold(q) : q \in Window(pos)}

\* A token's logits come from exactly the cache entries a cold full prefill of
\* the same tokens would read (test_prefix_cache.py:1-2): no stale entry of an
\* earlier job, none of a later position, none missing.
DecodeReadsExact ==
    Trusted /\ pc \in {"prefill", "sample"} /\ pos > nfull * MC => DecodeReadsCold

\* The same with no exception for tainted.
ReuseEqualsCold == pc = "sample" => DecodeReadsCold

\* Each token of the chunk just prefilled attends to exactly the positions the
\* ring can still give it, all of this prompt and none in its future.  That is
\* the window of the chunk's last token: up to MC - 1 positions fewer than the
\* token's own, whose slots the rest of the chunk has overwritten.
ChunkReadsExact ==
    Trusted /\ pc \in {"prefill", "snapshot"} /\ reuse * MC < pos /\ pos <= nfull * MC =>
        \A p \in pos - MC .. pos - 1 :
            ChunkReadsRing(ring, pos - 1, p) =
                {Cold(q) : q \in Max2(0, pos - WIN) .. p}

\* "the very next request that shares it reuses immediately" (serve.py:148-149):
\* once a job has committed, every prompt that starts with its cacheable prefix
\* plans to reuse all of it.
WarmAfterOneTurn ==
    LET k == Min2(Full(req), CMAX)
    IN  pc = "yielded" /\ k > 0 =>
            \A ids \in Prompts :
                Full(ids) >= k /\ SubSeq(ids, 1, k * MC) = SubSeq(req, 1, k * MC)
                    => PlanReuse(ids) = k

(* The inductive invariant: what makes LedgerHonest and DecodeReadsExact hold *)

Active == pc \in {"prefill", "snapshot", "sample", "commit", "yielded"}

\* Where each phase stands: prefill runs in whole chunks up to nfull * MC, then
\* token by token to n, then along the sampled tokens.
Phases ==
    /\ reuse <= nfull /\ snap <= nfull
    /\ pc \in {"restore", "prefill", "snapshot"} => n = Len(toks) /\ pos < n
    /\ pc = "restore" => 0 < reuse /\ pos = reuse * MC
    /\ pc = "prefill" => nfull * MC <= pos \/ \E k \in 0 .. nfull : pos = k * MC
    /\ pc = "snapshot" => 0 < snap /\ pos = snap * MC
    /\ pc = "sample" => 0 < n /\ pos = Len(toks)
    /\ pc = "commit" => pos = n /\ Len(toks) <= n + 1 /\ (Len(toks) > n => 0 < n)
    /\ pc = "yielded" => 0 < n /\ n <= pos /\ pos = Len(toks) - 1

\* The server's plan and the engine's: what will be committed is what has been
\* or will be snapshotted, unless the prompt was truncated.
Plans ==
    /\ Len(pref.ids) = pref.chunks * MC
    /\ snapArg * MC <= Len(req)
    /\ 0 < snap => /\ snapArg = snap /\ reuse < snap
                   /\ SubSeq(toks, 1, snap * MC) = SubSeq(req, 1, snap * MC)
    /\ 0 < snapArg /\ snap = 0 => reuse = 0
    /\ shot => /\ 0 < snap /\ snap * MC <= pos
               /\ pc \in {"prefill", "sample", "commit"}
               /\ pc = "sample" => Len(toks) = n
    /\ pc = "prefill" /\ 0 < snap /\ snap * MC <= pos => shot
    /\ pc = "commit" /\ 0 < snap => shot
    /\ pc = "sample" /\ Len(toks) = n /\ 0 < snap => shot

\* What the buffers hold.
Contents ==
    /\ Active /\ Trusted =>
           /\ \A q \in 0 .. pos - 1 : glob[q] = Cold(q)
           /\ \A q \in Window(pos) : ring[q % WIN] = Cold(q)
    /\ shot /\ Trusted => HoldsPrefix(sglob, sring, toks, snap * MC)
    /\ pc = "restore" => reuse = pref.chunks /\ SubSeq(toks, 1, reuse * MC) = pref.ids

IInv == TypeOK /\ Phases /\ Plans /\ Contents /\ LedgerHonest

\* The step that answers reads something else than a cold prefill leaves, in a
\* job that was not given a snapshot separated from the ledger.
ReadsAstray == Trusted /\ ~DecodeReadsCold

EngineState ==
    CASE pc = "idle" -> "idle"
      [] pc \in {"restore", "prefill", "snapshot"} -> "working"
      [] pc = "sample" -> "ready"
      [] pc \in {"commit", "yielded"} -> IF Len(toks) > n THEN "out" ELSE "ending"

ColdSpec ==
    INSTANCE ColdEngine WITH
        state <- EngineState,
        ctx <- IF pc = "idle" THEN <<>> ELSE toks,
        logits <- IF pc # "sample" \/ ReadsAstray THEN <<>> ELSE toks

\* The cache is invisible: with it the engine behaves like one that prefills
\* every prompt from nothing, empty prompts and those cut to fit included, but
\* for the jobs that restore a snapshot the ledger does not describe.
ImplementsColdEngine == ColdSpec!Spec
=============================================================================
