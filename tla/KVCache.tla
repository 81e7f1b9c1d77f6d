------------------------------ MODULE KVCache ------------------------------
(***************************************************************************)
(* The key/value cache of the Vulkan engine and the four shaders that      *)
(* write and read it, for one global layer (a linear buffer of MAXT slots, *)
(* slot = position) and one sliding-window layer (a ring of WIN slots,     *)
(* slot = position % WIN).  Every layer of one kind does the same thing in *)
(* the same submit, so one of each stands for all 48.                      *)
(*                                                                         *)
(* What a slot holds is abstracted to what the K/V vectors depend on: the  *)
(* token sequence up to and including the position that was written, and   *)
(* which pipeline wrote it (the batched prefill or the one-token decode,   *)
(* whose arithmetic differs).                                              *)
(***************************************************************************)
EXTENDS Integers, Sequences

CONSTANTS
    MC,         \* tokens per prefill chunk (128)
    WIN,        \* slots of the sliding ring (1024)
    MAXT,       \* context size, slots of the global buffer (65536)
    CACHE_MAX   \* global slots the prefix snapshot copies (16384)

\* CACHE_MAX is rounded down to whole chunks and clamped to [MC, CTX]; a
\* chunk fits the ring, and the context is larger than the ring.
ASSUME SizesAssumption ==
    /\ MC \in Nat \ {0}
    /\ WIN \in Nat
    /\ MAXT \in Nat
    /\ CACHE_MAX \in Nat
    /\ MC <= WIN
    /\ WIN < MAXT
    /\ CACHE_MAX % MC = 0
    /\ MC <= CACHE_MAX
    /\ CACHE_MAX <= MAXT

CMAX == CACHE_MAX \div MC

Min2(a, b) == IF a <= b THEN a ELSE b
Max2(a, b) == IF a >= b THEN a ELSE b

GlobalSlots == 0 .. MAXT - 1
SnapSlots == 0 .. CACHE_MAX - 1
RingSlots == 0 .. WIN - 1

-----------------------------------------------------------------------------
(* Cache contents *)

Blank == [ctx |-> <<>>, via |-> "none"]

\* The K/V of position q of the token sequence ids, written by pipeline via.
KV(ids, q, via) == [ctx |-> SubSeq(ids, 1, q + 1), via |-> via]

\* prepkv.comp writes one position, pre_prepkv.comp a block of them.
WriteGlobal(buf, ids, first, last, via) ==
    [q \in GlobalSlots |->
        IF first <= q /\ q <= last THEN KV(ids, q, via) ELSE buf[q]]

\* The position of first..last that lands in ring slot s, when there is one:
\* the largest position up to last that is congruent to s.
RingPos(last, s) == last - ((last + WIN - s) % WIN)

WriteRing(buf, ids, first, last, via) ==
    [s \in RingSlots |->
        IF first <= RingPos(last, s) THEN KV(ids, RingPos(last, s), via)
        ELSE buf[s]]

-----------------------------------------------------------------------------
(* What attention reads *)

\* attn.comp: T = pos + 1 slots of the linear buffer, min(pos + 1, window)
\* slots of the ring, whatever position they hold.
DecodeReadsGlobal(buf, pos) == {buf[s] : s \in 0 .. pos}
DecodeReadsRing(buf, pos) == {buf[s] : s \in 0 .. Min2(pos + 1, WIN) - 1}

\* Mutant: the mask of pre_attn.comp is left out.
ChunkReadsUnmasked(buf, base, pos) == {buf[s] : s \in 0 .. Min2(pos + 1, WIN) - 1}

\* pre_attn.comp: the whole chunk ending at base is in the ring before any of
\* its tokens attends, so a slot is masked when it holds a later position.
ChunkReadsRing(buf, base, pos) ==
    {buf[s] : s \in {t \in 0 .. Min2(pos + 1, WIN) - 1 : RingPos(base, t) <= pos}}
=============================================================================
