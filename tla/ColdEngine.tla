----------------------------- MODULE ColdEngine -----------------------------
(***************************************************************************)
(* What generate promises, with no cache in sight: a job takes a prompt,   *)
(* computes logits from all of its tokens, and each token it emits is      *)
(* sampled from logits computed from the whole context emitted so far.     *)
(***************************************************************************)
EXTENDS Integers, Sequences

CONSTANTS Tokens, Prompts, MAXT

VARIABLES
    state,   \* "idle", "working", "ready", "out" or "ending"
    ctx,     \* the prompt and the tokens emitted
    logits   \* the context the current logits were computed from

vars == <<state, ctx, logits>>

\* "the prompt is left-truncated to fit"
Fit(ids) ==
    IF Len(ids) < MAXT THEN ids ELSE SubSeq(ids, Len(ids) - MAXT + 2, Len(ids))

Init == state = "idle" /\ ctx = <<>> /\ logits = <<>>

Accept(ids) ==
    /\ state = "idle"
    /\ ctx' = Fit(ids)
    /\ state' = IF ids = <<>> THEN "ending" ELSE "working"
    /\ logits' = <<>>

Compute ==
    /\ state \in {"working", "out"}
    /\ state' = "ready"
    /\ logits' = ctx
    /\ UNCHANGED ctx

Emit(t) ==
    /\ state = "ready"
    /\ logits = ctx
    /\ ctx' = Append(ctx, t)
    /\ state' = "out"
    /\ logits' = <<>>

\* A stop token: the job ends after the caller has been told.
Stop ==
    /\ state = "ready"
    /\ logits = ctx
    /\ state' = "ending"
    /\ logits' = <<>>
    /\ UNCHANGED ctx

End ==
    /\ state # "idle"
    /\ state' = "idle" /\ ctx' = <<>> /\ logits' = <<>>

Next ==
    \/ \E ids \in Prompts : Accept(ids)
    \/ Compute
    \/ \E t \in Tokens : Emit(t)
    \/ Stop
    \/ End

Spec == Init /\ [][Next]_vars
=============================================================================
