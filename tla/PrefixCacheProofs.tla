------------------------- MODULE PrefixCacheProofs -------------------------
(* The prefix cache, for every chunk, ring, snapshot and context size, every *)
(* vocabulary and every set of prompts: facts about the ring, the chunks and *)
(* the entries of KVCache, then its types, the honesty of the ledger and the *)
(* exactness of every decode read, from one inductive invariant; and the     *)
(* implementation of ColdEngine, the engine without the cache.               *)
EXTENDS PrefixCache, SequenceTheorems, TLAPS

-----------------------------------------------------------------------------
(* Arithmetic *)

\* Euclidean division.
LEMMA DivMod ==
    ASSUME NEW a \in Int, NEW b \in Nat \ {0}
    PROVE  /\ a = b * (a \div b) + (a % b)
           /\ a % b \in 0 .. b - 1
           /\ a \div b \in Int
    OBVIOUS

\* A remainder determines itself.
LEMMA RemainderUnique ==
    ASSUME NEW b \in Nat \ {0}, NEW d \in Int, NEW k \in Int,
           NEW m \in 0 .. b - 1, NEW r \in 0 .. b - 1,
           b * d + m = b * k + r
    PROVE  m = r
<1>1. b * (d - k) = r - m
  <2>1. b * (d - k) = b * d - b * k
    OBVIOUS
  <2>2. b * d \in Int /\ b * k \in Int
    OBVIOUS
  <2> QED BY <2>1, <2>2
<1>2. CASE d - k >= 1
  <2>1. b * (d - k) >= b  BY <1>2
  <2> QED BY <1>1, <2>1
<1>3. CASE d - k <= -1
  <2>1. b * (d - k) <= -b  BY <1>3
  <2> QED BY <1>1, <2>1
<1>4. CASE d = k
  BY <1>4
<1> QED BY <1>2, <1>3, <1>4

\* The remainder of b * k + r is r.
LEMMA ModUnique ==
    ASSUME NEW x \in Int, NEW k \in Int, NEW b \in Nat \ {0},
           NEW r \in 0 .. b - 1, x = b * k + r
    PROVE  x % b = r
<1>1. /\ x = b * (x \div b) + (x % b)
      /\ x % b \in 0 .. b - 1
      /\ x \div b \in Int
  BY DivMod
<1> QED BY <1>1, RemainderUnique

\* More chunks hold at least as many tokens ...
LEMMA TimesMonotone ==
    ASSUME NEW j \in Int, NEW k \in Int, NEW b \in Nat, j <= k
    PROVE  j * b <= k * b
    OBVIOUS

\* ... a number of tokens that is a natural number ...
LEMMA TimesType ==
    ASSUME NEW k \in Nat, NEW b \in Nat
    PROVE  k * b \in Nat
    OBVIOUS

\* ... and never less than the number of chunks.
LEMMA TimesAtLeast ==
    ASSUME NEW k \in Nat \ {0}, NEW b \in Nat
    PROVE  b <= k * b
<1>1. 1 * b <= k * b
  BY TimesMonotone
<1> QED BY <1>1

\* One chunk more holds b tokens more.
LEMMA TimesNext ==
    ASSUME NEW k \in Nat, NEW b \in Nat
    PROVE  (k + 1) * b = k * b + b
    OBVIOUS

\* Strictly fewer chunks leave room for one more.
LEMMA TimesStrict ==
    ASSUME NEW j \in Nat, NEW k \in Nat, NEW b \in Nat \ {0}, j < k
    PROVE  j * b < k * b
<1>1. (j + 1) * b <= k * b
  BY TimesMonotone
<1>2. (j + 1) * b = j * b + b
  BY TimesNext
<1>3. j * b \in Nat /\ k * b \in Nat
  BY TimesType
<1> QED BY <1>1, <1>2, <1>3

\* Chunks that end earlier are fewer.
LEMMA TimesCancel ==
    ASSUME NEW j \in Nat, NEW k \in Nat, NEW b \in Nat \ {0}, j * b < k * b
    PROVE  j + 1 <= k
<1>1. CASE k <= j
  <2>1. k * b <= j * b  BY <1>1, TimesMonotone
  <2>2. k * b \in Nat /\ j * b \in Nat  BY TimesType
  <2> QED BY <2>1, <2>2
<1> QED BY <1>1

-----------------------------------------------------------------------------
(* The ring *)

\* WIN is positive: a chunk fits it.
LEMMA WinPositive == WIN \in Nat \ {0}
    BY SizesAssumption

\* Every position has a slot in the ring.
LEMMA SlotType ==
    ASSUME NEW q \in Nat
    PROVE  q % WIN \in RingSlots
    BY DivMod, WinPositive DEF RingSlots

\* RingPos looks at most one turn back.
LEMMA RingPosRange ==
    ASSUME NEW last \in Nat, NEW s \in RingSlots
    PROVE  RingPos(last, s) \in Int /\ last - WIN < RingPos(last, s) /\ RingPos(last, s) <= last
<1>1. last + WIN - s \in Int
  BY WinPositive DEF RingSlots
<1>2. (last + WIN - s) % WIN \in 0 .. WIN - 1
  BY <1>1, DivMod, WinPositive
<1> QED BY <1>2, WinPositive DEF RingPos

\* The position RingPos names does land in that slot ...
LEMMA RingPosSlot ==
    ASSUME NEW last \in Nat, NEW s \in RingSlots
    PROVE  RingPos(last, s) % WIN = s
<1>1. last + WIN - s \in Int /\ WIN \in Nat \ {0} /\ s \in 0 .. WIN - 1
  BY WinPositive DEF RingSlots
<1>2. PICK d \in Int, m \in 0 .. WIN - 1 :
        /\ last + WIN - s = WIN * d + m
        /\ (last + WIN - s) % WIN = m
  BY <1>1, DivMod
<1>3. RingPos(last, s) = last - m
  BY <1>2 DEF RingPos
<1>4. last - m = WIN * (d - 1) + s
  <2>1. WIN * (d - 1) = WIN * d - WIN
    BY <1>1
  <2>2. WIN * d \in Int
    BY <1>1
  <2>3. last + WIN - s = WIN * d + m
    BY <1>2
  <2> QED BY <1>1, <2>1, <2>2, <2>3
<1>5. last - m \in Int /\ d - 1 \in Int
  OBVIOUS
<1>6. (last - m) % WIN = s
  BY <1>1, <1>4, <1>5, ModUnique
<1> QED BY <1>3, <1>6

\* ... and every position of the last turn is the one its slot names.
LEMMA RingPosOfSlot ==
    ASSUME NEW last \in Nat, NEW q \in Nat, last - WIN < q, q <= last
    PROVE  RingPos(last, q % WIN) = q
<1>1. WIN \in Nat \ {0}
  BY WinPositive
<1>2. PICK d \in Int, m \in 0 .. WIN - 1 : q = WIN * d + m /\ q % WIN = m
  BY <1>1, DivMod
<1>3. last + WIN - m = WIN * (d + 1) + (last - q)
  <2>1. WIN * (d + 1) = WIN * d + WIN /\ WIN * d \in Int
    BY <1>1
  <2>2. q = WIN * d + m
    BY <1>2
  <2> QED BY <1>1, <2>1, <2>2
<1>4. last + WIN - m \in Int /\ d + 1 \in Int /\ last - q \in 0 .. WIN - 1
  BY <1>1
<1>5. (last + WIN - m) % WIN = last - q
  BY <1>1, <1>3, <1>4, ModUnique
<1> QED BY <1>2, <1>5 DEF RingPos

\* After a write of first..last the ring gives each position of the last turn
\* its entry: the new one, or the one it had.
LEMMA WriteRingReads ==
    ASSUME NEW buf, NEW ids, NEW via, NEW first \in Nat, NEW last \in Nat,
           NEW q \in Nat, last - WIN < q, q <= last
    PROVE  WriteRing(buf, ids, first, last, via)[q % WIN] =
               IF first <= q THEN KV(ids, q, via) ELSE buf[q % WIN]
<1>1. q % WIN \in RingSlots
  BY SlotType
<1>2. RingPos(last, q % WIN) = q
  BY RingPosOfSlot
<1> QED BY <1>1, <1>2 DEF WriteRing

-----------------------------------------------------------------------------
(* Prefixes of a sequence *)

\* A prefix of a token sequence is a token sequence of the length asked for.
LEMMA PrefixType ==
    ASSUME NEW S, NEW ids \in Seq(S), NEW k \in 0 .. Len(ids)
    PROVE  /\ SubSeq(ids, 1, k) \in Seq(S)
           /\ Len(SubSeq(ids, 1, k)) = k
           /\ \A i \in 1 .. k : SubSeq(ids, 1, k)[i] = ids[i]
<1>1. Len(ids) \in Nat
  BY LenProperties
<1>2. \A i \in 1 .. k : ids[i] \in S
  BY <1>1, ElementOfSeq
<1> QED BY <1>1, <1>2, SubSeqProperties

\* Cutting twice is cutting at the shorter length.
LEMMA PrefixOfPrefix ==
    ASSUME NEW S, NEW ids \in Seq(S), NEW len \in 0 .. Len(ids), NEW k \in 0 .. len
    PROVE  SubSeq(SubSeq(ids, 1, len), 1, k) = SubSeq(ids, 1, k)
<1>1. Len(ids) \in Nat
  BY LenProperties
<1>2. /\ SubSeq(ids, 1, len) \in Seq(S)
      /\ Len(SubSeq(ids, 1, len)) = len
      /\ \A i \in 1 .. len : SubSeq(ids, 1, len)[i] = ids[i]
  BY PrefixType
<1>3. k \in 0 .. Len(ids) /\ k \in 0 .. Len(SubSeq(ids, 1, len))
  BY <1>1, <1>2
<1>4. /\ SubSeq(ids, 1, k) \in Seq(S)
      /\ Len(SubSeq(ids, 1, k)) = k
      /\ \A i \in 1 .. k : SubSeq(ids, 1, k)[i] = ids[i]
  BY <1>3, PrefixType
<1>5. /\ SubSeq(SubSeq(ids, 1, len), 1, k) \in Seq(S)
      /\ Len(SubSeq(SubSeq(ids, 1, len), 1, k)) = k
      /\ \A i \in 1 .. k :
             SubSeq(SubSeq(ids, 1, len), 1, k)[i] = SubSeq(ids, 1, len)[i]
  BY <1>2, <1>3, PrefixType
<1>6. \A i \in 1 .. k : SubSeq(SubSeq(ids, 1, len), 1, k)[i] = SubSeq(ids, 1, k)[i]
  BY <1>2, <1>4, <1>5
<1> QED BY <1>4, <1>5, <1>6, SeqEqual

\* Appending a token changes no prefix of the tokens before it.
LEMMA PrefixOfAppend ==
    ASSUME NEW S, NEW ids \in Seq(S), NEW t \in S, NEW k \in 0 .. Len(ids)
    PROVE  SubSeq(Append(ids, t), 1, k) = SubSeq(ids, 1, k)
<1>1. Len(ids) \in Nat
  BY LenProperties
<1>2. /\ Append(ids, t) \in Seq(S)
      /\ Len(Append(ids, t)) = Len(ids) + 1
      /\ \A i \in 1 .. Len(ids) : Append(ids, t)[i] = ids[i]
  BY AppendProperties
<1>3. k \in 0 .. Len(Append(ids, t))
  BY <1>1, <1>2
<1>4. /\ SubSeq(ids, 1, k) \in Seq(S)
      /\ Len(SubSeq(ids, 1, k)) = k
      /\ \A i \in 1 .. k : SubSeq(ids, 1, k)[i] = ids[i]
  BY PrefixType
<1>5. /\ SubSeq(Append(ids, t), 1, k) \in Seq(S)
      /\ Len(SubSeq(Append(ids, t), 1, k)) = k
      /\ \A i \in 1 .. k : SubSeq(Append(ids, t), 1, k)[i] = Append(ids, t)[i]
  BY <1>2, <1>3, PrefixType
<1>6. \A i \in 1 .. k : SubSeq(Append(ids, t), 1, k)[i] = SubSeq(ids, 1, k)[i]
  BY <1>1, <1>2, <1>4, <1>5
<1> QED BY <1>4, <1>5, <1>6, SeqEqual

\* An entry depends on no more than the prefix up to its position.
LEMMA PrefixEntries ==
    ASSUME NEW S, NEW ids \in Seq(S), NEW len \in 0 .. Len(ids), NEW q \in 0 .. len - 1, NEW via
    PROVE  KV(SubSeq(ids, 1, len), q, via) = KV(ids, q, via)
<1>1. q + 1 \in 0 .. len
  BY LenProperties
<1> QED BY <1>1, PrefixOfPrefix DEF KV

\* Appending a token changes no entry of the tokens before it.
LEMMA AppendEntries ==
    ASSUME NEW S, NEW ids \in Seq(S), NEW t \in S, NEW q \in 0 .. Len(ids) - 1, NEW via
    PROVE  KV(Append(ids, t), q, via) = KV(ids, q, via)
<1>1. q + 1 \in 0 .. Len(ids)
  BY LenProperties
<1> QED BY <1>1, PrefixOfAppend DEF KV

-----------------------------------------------------------------------------
(* Chunks *)

\* The snapshot holds whole chunks.
LEMMA CmaxTimes == CMAX \in Nat /\ CMAX * MC = CACHE_MAX
<1>1. /\ CACHE_MAX = MC * (CACHE_MAX \div MC) + (CACHE_MAX % MC)
      /\ CACHE_MAX \div MC \in Int
  BY SizesAssumption, DivMod
<1>2. CACHE_MAX = MC * CMAX /\ CMAX \in Int
  <2>1. MC * (CACHE_MAX \div MC) \in Int
    BY <1>1, SizesAssumption
  <2> QED BY <1>1, <2>1, SizesAssumption DEF CMAX
<1>3. CMAX * MC = MC * CMAX
  BY <1>2, SizesAssumption
<1>4. CMAX >= 0
  <2>1. SUFFICES ASSUME CMAX <= -1 PROVE FALSE
    BY <1>2
  <2>2. CMAX * MC <= (-1) * MC
    BY <1>2, <2>1, TimesMonotone, SizesAssumption
  <2> QED BY <1>2, <1>3, <2>2, SizesAssumption
<1> QED BY <1>2, <1>3, <1>4

\* As many chunks as _cache_plan allows fit the snapshot buffers.
LEMMA ChunksFitSnapshot ==
    ASSUME NEW k \in 0 .. CMAX
    PROVE  k * MC \in Nat /\ k * MC <= CACHE_MAX /\ k * MC <= MAXT
<1>1. k * MC <= CMAX * MC
  BY CmaxTimes, TimesMonotone, SizesAssumption
<1>2. k * MC \in Nat
  BY CmaxTimes, TimesType, SizesAssumption
<1> QED BY <1>1, <1>2, CmaxTimes, SizesAssumption

-----------------------------------------------------------------------------
(* The sizes and the plan *)

\* What the sizes of the build are known to be.
LEMMA Sizes ==
    /\ MC \in Nat \ {0} /\ WIN \in Nat \ {0} /\ MAXT \in Nat \ {0, 1} /\ CACHE_MAX \in Nat
    /\ MC <= WIN /\ WIN < MAXT /\ CACHE_MAX <= MAXT
    BY SizesAssumption

\* The full chunks of a prompt leave its last token to the decode path.
LEMMA FullFits ==
    ASSUME NEW len \in Nat
    PROVE  /\ FullChunks(len) \in Nat
           /\ FullChunks(len) * MC \in Nat
           /\ FullChunks(len) * MC <= len
           /\ 0 < len => FullChunks(len) * MC < len
<1>1. CASE len > MC
  <2>1. PICK d \in Int, m \in 0 .. MC - 1 :
          len - 1 = MC * d + m /\ (len - 1) \div MC = d
    BY Sizes, DivMod
  <2>2. FullChunks(len) = d
    BY <1>1, <2>1 DEF FullChunks
  <2>3. d >= 0
    <3>1. SUFFICES ASSUME d <= -1 PROVE FALSE
      BY <2>1
    <3>2. d * MC <= (-1) * MC
      BY <3>1, Sizes, TimesMonotone
    <3>3. d * MC = MC * d
      BY Sizes
    <3> QED BY <1>1, <2>1, <3>2, <3>3, Sizes
  <2>4. d * MC = MC * d /\ d * MC \in Nat
    BY <2>3, Sizes, TimesType
  <2> QED BY <2>1, <2>2, <2>3, <2>4
<1>2. CASE len <= MC
  <2>1. FullChunks(len) = 0
    BY <1>2, Sizes DEF FullChunks
  <2> QED BY <2>1, Sizes
<1> QED BY <1>1, <1>2, Sizes

\* The entry a position gets is an entry of the cache.
LEMMA EntryType ==
    ASSUME NEW ids \in Seq(Tokens), NEW q \in Nat, q < Len(ids),
           NEW via \in {"chunk", "decode"}
    PROVE  KV(ids, q, via) \in Entry
<1>1. Len(ids) \in Nat
  BY LenProperties
<1>2. SubSeq(ids, 1, q + 1) \in Seq(Tokens)
  BY <1>1, PrefixType
<1> QED BY <1>2 DEF KV, Entry

\* Writing entries keeps the buffers well typed.
LEMMA WriteTypes ==
    ASSUME NEW g \in [GlobalSlots -> Entry], NEW r \in [RingSlots -> Entry],
           NEW ids \in Seq(Tokens), NEW first \in Nat, NEW last \in Nat, last < Len(ids),
           NEW via \in {"chunk", "decode"}
    PROVE  /\ WriteGlobal(g, ids, first, last, via) \in [GlobalSlots -> Entry]
           /\ WriteRing(r, ids, first, last, via) \in [RingSlots -> Entry]
<1>1. Len(ids) \in Nat
  BY LenProperties
<1>2. ASSUME NEW q \in GlobalSlots, first <= q, q <= last
      PROVE  KV(ids, q, via) \in Entry
  BY <1>1, <1>2, EntryType, Sizes DEF GlobalSlots
<1>3. ASSUME NEW s \in RingSlots, first <= RingPos(last, s)
      PROVE  KV(ids, RingPos(last, s), via) \in Entry
  <2>1. RingPos(last, s) \in Nat /\ RingPos(last, s) < Len(ids)
    BY <1>1, <1>3, RingPosRange
  <2> QED BY <2>1, EntryType
<1>4. WriteGlobal(g, ids, first, last, via) \in [GlobalSlots -> Entry]
  BY <1>2 DEF WriteGlobal
<1>5. WriteRing(r, ids, first, last, via) \in [RingSlots -> Entry]
  BY <1>3 DEF WriteRing
<1> QED BY <1>4, <1>5

\* A run over first .. last leaves positions up to last as they were or new.
LEMMA WriteGlobalReads ==
    ASSUME NEW g, NEW ids, NEW via, NEW first \in Nat, NEW last \in Nat, last < MAXT,
           NEW q \in 0 .. last
    PROVE  WriteGlobal(g, ids, first, last, via)[q] =
               IF first <= q THEN KV(ids, q, via) ELSE g[q]
<1>1. q \in GlobalSlots
  BY Sizes DEF GlobalSlots
<1> QED BY <1>1, Sizes DEF WriteGlobal

\* The positions a token of the sliding layer may attend to.
LEMMA WindowMember ==
    ASSUME NEW len \in Nat, NEW q
    PROVE  q \in Window(len) <=> q \in Nat /\ len - WIN <= q /\ q < len
    BY Sizes DEF Window, Max2

-----------------------------------------------------------------------------
(* The initial state *)

\* The server starts with empty buffers and an empty ledger.
LEMMA InitInv == Init => IInv
<1> SUFFICES ASSUME Init PROVE IInv
  OBVIOUS
<1> USE DEF Init
<1>0. nfull = 0 /\ 0 * MC = 0
  BY Sizes DEF nfull, FullChunks
<1>1. TypeOK
  <2>1. Blank \in Entry
    BY EmptySeq DEF Blank, Entry
  <2>2. <<>> \in Seq(Tokens) /\ Len(<<>>) = 0
    BY EmptySeq
  <2>3. /\ glob \in [GlobalSlots -> Entry] /\ ring \in [RingSlots -> Entry]
        /\ sglob \in [SnapSlots -> Entry] /\ sring \in [RingSlots -> Entry]
    BY <2>1
  <2>4. pref \in [ids : Seq(Tokens), chunks : 0 .. CMAX]
    BY <2>2, CmaxTimes
  <2>5. /\ n \in 0 .. Len(toks) /\ n < MAXT /\ pos \in 0 .. MAXT - 1 /\ pos <= Len(toks)
        /\ reuse \in 0 .. CMAX /\ snap \in 0 .. CMAX /\ snapArg \in 0 .. CMAX
    BY <2>2, Sizes, CmaxTimes
  <2> QED BY <2>2, <2>3, <2>4, <2>5 DEF TypeOK
<1>2. Phases
  BY <1>0 DEF Phases
<1>3. Plans
  <2>1. Len(<<>>) = 0
    OBVIOUS
  <2> QED BY <1>0, <2>1 DEF Plans
<1>4. Contents
  BY DEF Contents, Active
<1>5. LedgerHonest
  <2>1. pref.chunks * MC = 0
    BY <1>0
  <2>2. Window(0) = {}
    BY WindowMember, Sizes DEF Window, Max2
  <2> QED BY <2>1, <2>2 DEF LedgerHonest, HoldsPrefix
<1> QED BY <1>1, <1>2, <1>3, <1>4, <1>5 DEF IInv

-----------------------------------------------------------------------------
(* The steps *)

\* Every way a job ends: the locals are reset and the buffers left alone.
LEMMA EndJobInv ==
    ASSUME IInv, EndJob, UNCHANGED <<kvVars, snapVars>>,
           pref' \in [ids : Seq(Tokens), chunks : 0 .. CMAX],
           Len(pref'.ids) = pref'.chunks * MC,
           wedged' \in BOOLEAN, shot' = FALSE, tainted' \in BOOLEAN,
           LedgerHonest'
    PROVE  IInv'
<1> USE DEF IInv, EndJob
<1>1. nfull' = 0 /\ 0 * MC = 0
  BY Sizes DEF nfull, FullChunks
<1>2. Len(<<>>) = 0 /\ <<>> \in Seq(Tokens)
  BY EmptySeq
<1>3. TypeOK'
  <2>1. /\ glob' \in [GlobalSlots -> Entry] /\ ring' \in [RingSlots -> Entry]
        /\ sglob' \in [SnapSlots -> Entry] /\ sring' \in [RingSlots -> Entry]
    BY DEF TypeOK, kvVars, snapVars
  <2>2. /\ n' \in 0 .. Len(toks') /\ n' < MAXT /\ pos' \in 0 .. MAXT - 1 /\ pos' <= Len(toks')
        /\ reuse' \in 0 .. CMAX /\ snap' \in 0 .. CMAX /\ snapArg' \in 0 .. CMAX
    BY <1>2, Sizes, CmaxTimes
  <2> QED BY <1>2, <2>1, <2>2 DEF TypeOK
<1>4. Phases'
  BY <1>1 DEF Phases
<1>5. Plans'
  BY <1>1, <1>2 DEF Plans
<1>6. Contents'
  BY DEF Contents, Active
<1> QED BY <1>3, <1>4, <1>5, <1>6

\* Ending a job keeps the ledger when the buffers and the ledger are untouched
\* and a pending snapshot is accounted for.
LEMMA EndJobKeepsLedger ==
    ASSUME IInv, EndJob, UNCHANGED <<kvVars, snapVars, pref>>,
           wedged' \in BOOLEAN, shot' = FALSE, tainted' \in BOOLEAN,
           ~tainted' => ~tainted /\ ~shot
    PROVE  IInv'
<1>1. LedgerHonest'
  BY DEF IInv, LedgerHonest, HoldsPrefix, snapVars, KV
<1>2. pref' \in [ids : Seq(Tokens), chunks : 0 .. CMAX] /\ Len(pref'.ids) = pref'.chunks * MC
  BY DEF IInv, TypeOK, Plans
<1> QED BY <1>1, <1>2, EndJobInv

\* NaN logits end the job before it has yielded.
LEMMA RaiseInv == IInv /\ Raise => IInv'
<1> SUFFICES ASSUME IInv, Raise PROVE IInv'
  OBVIOUS
<1>1. tainted' \in BOOLEAN /\ wedged' \in BOOLEAN /\ shot' = FALSE /\ (~tainted' => ~tainted /\ ~shot)
  BY DEF Raise, IInv, TypeOK
<1> QED BY <1>1, EndJobKeepsLedger DEF Raise

\* A fence timeout ends the job at whatever step it was.
LEMMA FenceTimeoutInv == IInv /\ FenceTimeout => IInv'
<1> SUFFICES ASSUME IInv, FenceTimeout PROVE IInv'
  OBVIOUS
<1>1. tainted' \in BOOLEAN /\ wedged' \in BOOLEAN /\ shot' = FALSE /\ (~tainted' => ~tainted /\ ~shot)
  BY DEF FenceTimeout, IInv, TypeOK
<1> QED BY <1>1, EndJobKeepsLedger DEF FenceTimeout

\* A generation that reaches its cap ends.
LEMMA ExhaustedInv == IInv /\ Exhausted => IInv'
<1> SUFFICES ASSUME IInv, Exhausted PROVE IInv'
  OBVIOUS
<1>1. Len(toks) # n
  BY PromptsAssumption DEF Exhausted, IInv, TypeOK
<1>2. shot = FALSE
  BY <1>1 DEF Exhausted, IInv, TypeOK, Plans
<1>3. tainted' \in BOOLEAN /\ wedged' \in BOOLEAN /\ shot' = FALSE /\ (~tainted' => ~tainted /\ ~shot)
  BY <1>2 DEF Exhausted, IInv, TypeOK
<1> QED BY <1>3, EndJobKeepsLedger DEF Exhausted

\* A generation ends because of the loop guard or the context.
LEMMA FinishInv == IInv /\ Finish => IInv'
<1> SUFFICES ASSUME IInv, Finish PROVE IInv'
  OBVIOUS
<1>1. shot = FALSE
  BY DEF Finish, IInv, TypeOK, Plans
<1>2. tainted' \in BOOLEAN /\ wedged' \in BOOLEAN /\ shot' = FALSE /\ (~tainted' => ~tainted /\ ~shot)
  BY <1>1 DEF Finish, IInv, TypeOK
<1> QED BY <1>2, EndJobKeepsLedger DEF Finish

\* A stop token ends the job, or leaves the first one to be committed.
LEMMA SampleStopInv == IInv /\ SampleStop => IInv'
<1> SUFFICES ASSUME IInv, SampleStop PROVE IInv'
  OBVIOUS
<1>1. CASE Len(toks) # n
  <2>1. shot = FALSE
    BY <1>1 DEF SampleStop, MoreToSample, IInv, TypeOK, Plans
  <2>2. tainted' \in BOOLEAN /\ wedged' \in BOOLEAN /\ shot' = FALSE /\ (~tainted' => ~tainted /\ ~shot)
    BY <2>1 DEF SampleStop, IInv, TypeOK
  <2> QED BY <1>1, <2>2, EndJobKeepsLedger DEF SampleStop
<1>2. CASE Len(toks) = n
  <2>1. pc = "sample" /\ pc' = "commit"
        /\ UNCHANGED <<kvVars, snapVars, pref, jobVars, toks, pos, wedged, shot, tainted>>
    BY <1>2 DEF SampleStop, MoreToSample
  <2> USE <2>1 DEF IInv, kvVars, snapVars, jobVars
  <2>2. nfull' = nfull
    BY DEF nfull
  <2>3. TypeOK'
    BY DEF TypeOK
  <2>4. Phases'
    BY <1>2, <2>2 DEF Phases
  <2>5. Plans'
    BY <1>2 DEF Plans
  <2>6. Contents'
    BY <2>2 DEF Contents, Active, Trusted, Cold, Window, HoldsPrefix, KV
  <2>7. LedgerHonest'
    BY DEF LedgerHonest, HoldsPrefix, KV
  <2> QED BY <2>3, <2>4, <2>5, <2>6, <2>7
<1> QED BY <1>1, <1>2

\* The plan for a prompt: whole chunks of it, at most CMAX, and a snapshot only
\* when it extends what is reused.
LEMMA PlanFits ==
    ASSUME TypeOK, NEW ids \in Seq(Tokens)
    PROVE  /\ PlanReuse(ids) \in 0 .. CMAX /\ PlanReuse(ids) <= Full(ids)
           /\ PlanSnap(ids) \in 0 .. CMAX /\ PlanSnap(ids) <= Full(ids)
           /\ 0 < PlanSnap(ids) => PlanReuse(ids) < PlanSnap(ids)
           /\ 0 < PlanReuse(ids) => /\ PlanReuse(ids) = pref.chunks
                                    /\ SubSeq(ids, 1, pref.chunks * MC) = pref.ids
<1>1. Full(ids) \in Nat /\ CMAX \in Nat /\ pref.chunks \in 0 .. CMAX
  BY FullFits, LenProperties, CmaxTimes DEF Full, TypeOK
<1>2. /\ PlanReuse(ids) \in 0 .. CMAX /\ PlanReuse(ids) <= Full(ids)
      /\ 0 < PlanReuse(ids) => /\ PlanReuse(ids) = pref.chunks
                               /\ SubSeq(ids, 1, pref.chunks * MC) = pref.ids
  BY <1>1 DEF PlanReuse, Reusable
<1>3. Min2(Full(ids), CMAX) \in 0 .. CMAX /\ Min2(Full(ids), CMAX) <= Full(ids)
  BY <1>1 DEF Min2
<1> QED BY <1>1, <1>2, <1>3 DEF PlanSnap

\* A prompt that is too long is cut to MAXT - 1 tokens.
LEMMA TruncateFits ==
    ASSUME NEW ids \in Seq(Tokens)
    PROVE  /\ Truncate(ids) \in Seq(Tokens)
           /\ Len(Truncate(ids)) < MAXT
           /\ TooLong(ids) => Len(Truncate(ids)) = MAXT - 1
           /\ ~TooLong(ids) => Truncate(ids) = ids
           /\ Len(Truncate(ids)) \in Nat
<1>1. Len(ids) \in Nat
  BY LenProperties
<1>2. CASE TooLong(ids)
  <2>1. Len(ids) - MAXT + 2 \in 1 .. Len(ids)
    BY <1>1, <1>2, Sizes DEF TooLong
  <2>2. \A i \in Len(ids) - MAXT + 2 .. Len(ids) : ids[i] \in Tokens
    BY <1>1, <2>1, ElementOfSeq
  <2>3. /\ SubSeq(ids, Len(ids) - MAXT + 2, Len(ids)) \in Seq(Tokens)
        /\ Len(SubSeq(ids, Len(ids) - MAXT + 2, Len(ids))) = Len(ids) - (Len(ids) - MAXT + 2) + 1
    BY <1>1, <2>1, <2>2, SubSeqProperties
  <2> QED BY <1>1, <1>2, <2>3, Sizes DEF Truncate
<1>3. CASE ~TooLong(ids)
  BY <1>1, <1>3, Sizes DEF Truncate, TooLong
<1> QED BY <1>2, <1>3

\* A new job is planned from the ledger.
LEMMA BeginInv == ASSUME NEW ids \in Prompts PROVE IInv /\ Begin(ids) => IInv'
<1> SUFFICES ASSUME IInv, Begin(ids) PROVE IInv'
  OBVIOUS
<1> USE DEF IInv
<1>1. ids \in Seq(Tokens) /\ Len(ids) \in Nat
  BY PromptsAssumption, LenProperties
<1>2. /\ PlanReuse(ids) \in 0 .. CMAX /\ PlanReuse(ids) <= Full(ids)
      /\ PlanSnap(ids) \in 0 .. CMAX /\ PlanSnap(ids) <= Full(ids)
      /\ 0 < PlanSnap(ids) => PlanReuse(ids) < PlanSnap(ids)
      /\ 0 < PlanReuse(ids) => /\ PlanReuse(ids) = pref.chunks
                               /\ SubSeq(ids, 1, pref.chunks * MC) = pref.ids
  BY <1>1, PlanFits
<1>3. /\ toks' \in Seq(Tokens) /\ n' = Len(toks') /\ n' \in Nat /\ n' < MAXT
      /\ TooLong(ids) => n' = MAXT - 1
      /\ ~TooLong(ids) => toks' = ids
  BY <1>1, TruncateFits DEF Begin
<1>4. Full(ids) \in Nat /\ CMAX \in Nat
  BY <1>1, FullFits, CmaxTimes DEF Full
<1>5. reuse' \in 0 .. CMAX /\ snap' \in 0 .. CMAX /\ snapArg' = PlanSnap(ids)
  <2>1. EngineReuse(ids) \in 0 .. CMAX /\ EngineSnap(ids) \in 0 .. CMAX
    BY <1>2, <1>4 DEF EngineReuse, EngineSnap, Min2
  <2> QED BY <2>1 DEF Begin
<1>8. /\ UNCHANGED <<glob, ring, sglob, sring, pref, wedged, shot, tainted>>
      /\ req' = ids /\ pc' \in {"commit", "restore", "prefill"}
  BY DEF Begin, kvVars, snapVars
<1>6. CASE TooLong(ids)
  <2>1. reuse' = 0 /\ snap' = 0 /\ 0 < n'
    BY <1>3, <1>6, Sizes DEF Begin, EngineReuse, EngineSnap
  <2>2. ids # <<>>
    BY <1>1, <1>6, Sizes, EmptySeq DEF TooLong
  <2>3. pos' = 0 /\ pc' = "prefill"
    BY <2>1, <2>2, Sizes DEF Begin
  <2>4. nfull' \in Nat
    BY <1>3, FullFits DEF nfull
  <2>5. Phases'
    <3>1. 0 \in 0 .. nfull' /\ pos' = 0 * MC
      BY <2>3, <2>4, Sizes
    <3> QED BY <1>3, <2>1, <2>3, <2>4, <3>1 DEF Phases
  <2>6. snapArg' * MC <= Len(req')
    <3>1. PlanSnap(ids) * MC <= Full(ids) * MC
      BY <1>2, <1>4, Sizes, TimesMonotone
    <3>2. Full(ids) * MC <= Len(ids) /\ Full(ids) * MC \in Nat
      BY <1>1, FullFits DEF Full
    <3>3. PlanSnap(ids) * MC \in Nat
      BY <1>2, Sizes, TimesType
    <3> QED BY <1>1, <1>5, <3>1, <3>2, <3>3 DEF Begin
  <2>7. shot' = FALSE /\ pref' = pref
    BY DEF Begin, Plans, TypeOK
  <2>8. Plans'
    BY <2>1, <2>3, <2>6, <2>7 DEF Plans
  <2>9. Contents'
    BY <2>3, <2>7, Sizes DEF Contents, Active, Window, Max2
  <2> QED
    <3>1. TypeOK'
      <4>1. pos' \in 0 .. MAXT - 1 /\ pos' <= Len(toks')
        BY <1>3, <2>3, Sizes
      <4>2. n' \in 0 .. Len(toks') /\ snapArg' \in 0 .. CMAX
        BY <1>2, <1>3, <1>5
      <4> QED BY <1>1, <1>3, <1>5, <1>8, <4>1, <4>2 DEF TypeOK
    <3>2. LedgerHonest'
      BY DEF LedgerHonest, Begin, HoldsPrefix, snapVars, KV
    <3> QED BY <2>5, <2>8, <2>9, <3>1, <3>2
<1>7. CASE ~TooLong(ids)
  <2>1. /\ reuse' = PlanReuse(ids) /\ snap' = PlanSnap(ids) /\ toks' = ids /\ req' = ids
        /\ n' = Len(ids) /\ nfull' = Full(ids)
    <3>1. EngineReuse(ids) = PlanReuse(ids) /\ EngineSnap(ids) = PlanSnap(ids)
      BY <1>2, <1>4, <1>7 DEF EngineReuse, EngineSnap, Min2
    <3> QED BY <1>3, <1>7, <3>1 DEF Begin, nfull, Full
  <2>2. /\ Full(ids) * MC \in Nat /\ Full(ids) * MC <= Len(ids)
        /\ 0 < Len(ids) => Full(ids) * MC < Len(ids)
    BY <1>1, FullFits DEF Full
  <2>3. /\ reuse' * MC \in Nat /\ reuse' * MC <= Full(ids) * MC
        /\ snap' * MC \in Nat /\ snap' * MC <= Full(ids) * MC
    BY <1>2, <1>4, <2>1, Sizes, TimesMonotone, TimesType
  <2>4. pos' = reuse' * MC
    BY DEF Begin
  <2>5. ids = <<>> <=> Len(ids) = 0
    BY <1>1, EmptySeq
  <2>6. ids = <<>> => Full(ids) = 0
    <3>1. FullChunks(0) = 0
      BY Sizes DEF FullChunks
    <3> QED BY <2>5, <3>1 DEF Full
  <2>7. pc' = IF ids = <<>> THEN "commit" ELSE IF reuse' > 0 THEN "restore" ELSE "prefill"
    BY DEF Begin
  <2>8. shot' = FALSE /\ pref' = pref
    BY DEF Begin, Plans, TypeOK
  <2>9. Phases'
    <3>1. ids = <<>> => pos' = n'
      BY <1>2, <2>1, <2>4, <2>5, <2>6, Sizes
    <3>2. ids # <<>> => pos' < n'
      BY <1>1, <2>1, <2>2, <2>3, <2>4, <2>5
    <3>3. pc' = "prefill" => \E k \in 0 .. nfull' : pos' = k * MC
      BY <1>2, <1>4, <2>1, <2>4
    <3>4. reuse' <= nfull' /\ snap' <= nfull' /\ n' = Len(toks')
      BY <1>2, <2>1
    <3> QED BY <2>4, <2>7, <3>1, <3>2, <3>3, <3>4 DEF Phases
  <2>10. Plans'
    <3>1. snapArg' * MC <= Len(req')
      BY <1>1, <1>5, <2>1, <2>2, <2>3
    <3>2. 0 < snap' => snapArg' = snap' /\ reuse' < snap'
      BY <1>2, <1>5, <2>1
    <3>3. 0 < snapArg' /\ snap' = 0 => reuse' = 0
      BY <1>5, <2>1
    <3>4. pc' = "prefill" => ~(0 < snap' /\ snap' * MC <= pos')
      <4>1. pc' = "prefill" => reuse' = 0
        BY <1>5, <2>7
      <4>2. 0 < snap' => MC <= snap' * MC
        <5> HAVE 0 < snap'
        <5>1. snap' \in Nat \ {0} /\ MC \in Nat
          BY <1>4, <1>5, Sizes
        <5>2. \A k \in Nat \ {0}, b \in Nat : b <= k * b
          BY TimesAtLeast
        <5> QED BY <5>1, <5>2
      <4>3. 0 * MC = 0
        BY Sizes
      <4>4. pc' = "prefill" => pos' = 0
        BY <2>4, <4>1, <4>3
      <4>5. snap' * MC \in Nat
        BY <2>3
      <4>6. MC \in Nat \ {0}
        BY Sizes
      <4> QED BY <4>2, <4>3, <4>4, <4>5, <4>6
    <3>5. pc' = "commit" => snap' = 0
      BY <1>2, <1>5, <2>1, <2>6, <2>7
    <3>6. pc' # "sample"
      BY <2>7
    <3> QED BY <2>1, <2>8, <3>1, <3>2, <3>3, <3>4, <3>5, <3>6 DEF Plans
  <2>11. Contents'
    <3>1. pc' = "restore" => reuse' = pref'.chunks /\ SubSeq(toks', 1, reuse' * MC) = pref'.ids
      BY <1>2, <1>5, <2>1, <2>7, <2>8
    <3>2. Active' => pos' = 0
      <4>1. Active' => pc' = "prefill" \/ ids = <<>>
        BY <2>7 DEF Active
      <4>2. pc' = "prefill" => reuse' = 0
        BY <1>5, <2>7
      <4>3. ids = <<>> => reuse' = 0
        BY <1>2, <1>5, <2>1, <2>6
      <4> QED BY <2>4, <4>1, <4>2, <4>3, Sizes
    <3> QED BY <2>8, <3>1, <3>2, Sizes DEF Contents, Window, Max2
  <2> QED
    <3>1. TypeOK'
      <4>1. pos' \in 0 .. MAXT - 1 /\ pos' <= Len(toks')
        BY <1>1, <1>3, <2>1, <2>2, <2>3, <2>4, Sizes
      <4>2. n' \in 0 .. Len(toks') /\ snapArg' \in 0 .. CMAX
        BY <1>2, <1>3, <1>5
      <4> QED BY <1>1, <1>3, <1>5, <1>8, <4>1, <4>2 DEF TypeOK
    <3>2. LedgerHonest'
      BY DEF LedgerHonest, Begin, HoldsPrefix, snapVars, KV
    <3> QED BY <2>9, <2>10, <2>11, <3>1, <3>2
<1> QED BY <1>6, <1>7

\* A job's chunks, its reuse and its snapshot end before its last prompt token.
LEMMA JobFits ==
    ASSUME TypeOK, Phases
    PROVE  /\ nfull \in Nat /\ nfull * MC \in Nat /\ nfull * MC <= n /\ (0 < n => nfull * MC < n)
           /\ reuse * MC \in Nat /\ reuse * MC <= nfull * MC /\ reuse * MC <= CACHE_MAX
           /\ snap * MC \in Nat /\ snap * MC <= nfull * MC /\ snap * MC <= CACHE_MAX
           /\ n \in Nat /\ Len(toks) \in Nat /\ pos \in Nat
<1>1. n \in Nat /\ Len(toks) \in Nat /\ pos \in Nat /\ CMAX \in Nat
      /\ reuse \in 0 .. CMAX /\ snap \in 0 .. CMAX
  BY LenProperties, CmaxTimes, Sizes DEF TypeOK
<1>2. /\ nfull \in Nat /\ nfull * MC \in Nat /\ nfull * MC <= n /\ (0 < n => nfull * MC < n)
  BY <1>1, FullFits DEF nfull
<1>3. reuse * MC <= nfull * MC /\ snap * MC <= nfull * MC
  BY <1>1, <1>2, Sizes, TimesMonotone DEF Phases
<1>4. /\ reuse * MC \in Nat /\ reuse * MC <= CACHE_MAX
      /\ snap * MC \in Nat /\ snap * MC <= CACHE_MAX
  BY <1>1, ChunksFitSnapshot
<1> QED BY <1>1, <1>2, <1>3, <1>4

\* Steps that leave the snapshot and the ledger alone keep the ledger honest.
LEMMA LedgerKept ==
    LedgerHonest /\ UNCHANGED <<snapVars, pref, shot, tainted>> => LedgerHonest'
    BY DEF LedgerHonest, HoldsPrefix, snapVars, KV

\* The restore puts the entries of the reused prefix where the prefill of the
\* same tokens would have put them.
LEMMA RestoreInv == IInv /\ Restore => IInv'
<1> SUFFICES ASSUME IInv, Restore PROVE IInv'
  OBVIOUS
<1>0. TypeOK /\ Phases /\ Plans /\ Contents /\ LedgerHonest
  BY DEF IInv
<1>1. /\ pc = "restore" /\ pc' = "prefill" /\ ring' = sring
      /\ glob' = [q \in GlobalSlots |-> IF q \in SnapSlots THEN sglob[q] ELSE glob[q]]
      /\ UNCHANGED <<sglob, sring, pref, req, n, reuse, snap, snapArg, toks, pos, wedged, shot, tainted>>
  BY DEF Restore, snapVars, jobVars
<1>2. /\ nfull \in Nat /\ nfull * MC \in Nat /\ nfull * MC <= n
      /\ reuse * MC \in Nat /\ reuse * MC <= nfull * MC /\ reuse * MC <= CACHE_MAX
      /\ Len(toks) \in Nat /\ n \in Nat
  BY <1>0, JobFits
<1>3. /\ 0 < reuse /\ pos = reuse * MC /\ n = Len(toks) /\ pos < n
      /\ reuse \in 0 .. CMAX /\ CMAX \in Nat /\ snap \in 0 .. CMAX /\ reuse <= nfull
  BY <1>0, <1>1, CmaxTimes DEF Phases, TypeOK
<1>4. reuse = pref.chunks /\ pref.ids = SubSeq(toks, 1, pos)
  BY <1>0, <1>1, <1>3 DEF Contents
<1>5. shot = FALSE
  BY <1>0, <1>1 DEF Plans, TypeOK
<1>6. nfull' = nfull
  BY <1>1 DEF nfull
<1>7. TypeOK'
  <2>1. glob' \in [GlobalSlots -> Entry] /\ ring' \in [RingSlots -> Entry]
    BY <1>0, <1>1 DEF TypeOK
  <2> QED BY <1>0, <1>1, <2>1 DEF TypeOK
<1>8. Phases'
  <2>1. \E k \in 0 .. nfull : pos = k * MC
    BY <1>2, <1>3
  <2> QED BY <1>0, <1>1, <1>6, <2>1 DEF Phases
<1>9. Plans'
  <2>1. 0 < snap => pos < snap * MC
    <3>1. 0 < snap => reuse < snap
      BY <1>0 DEF Plans
    <3>2. reuse \in Nat /\ snap \in Nat
      BY <1>3
    <3> QED BY <1>3, <3>1, <3>2, Sizes, TimesStrict
  <2>2. 0 < snap => ~(snap * MC <= pos)
    BY <1>0, <1>2, <1>3, <2>1, JobFits
  <2> QED BY <1>0, <1>1, <1>5, <2>2 DEF Plans
<1>10. Contents'
  <2>1. ASSUME Trusted, NEW q \in 0 .. pos - 1
        PROVE  KV(pref.ids, q, "chunk") = Cold(q)
    <3>1. toks \in Seq(Tokens) /\ pos \in 0 .. Len(toks)
      BY <1>0, <1>2, <1>3 DEF TypeOK
    <3>2. KV(pref.ids, q, "chunk") = KV(toks, q, "chunk")
      BY <1>4, <3>1, PrefixEntries
    <3>3. q < nfull * MC
      BY <1>2, <1>3
    <3> QED BY <3>2, <3>3 DEF Cold
  <2>2. ASSUME Trusted
        PROVE  HoldsPrefix(sglob, sring, pref.ids, pos)
    BY <1>0, <1>3, <1>4, <1>5, <2>2, Sizes DEF Trusted, LedgerHonest
  <2>3. ASSUME Trusted, NEW q \in 0 .. pos - 1
        PROVE  glob'[q] = Cold(q)
    <3>1. q \in SnapSlots /\ q \in GlobalSlots
      BY <1>2, <1>3, Sizes DEF SnapSlots, GlobalSlots
    <3> QED BY <1>1, <2>1, <2>2, <2>3, <3>1 DEF HoldsPrefix
  <2>4. ASSUME Trusted, NEW q \in Window(pos)
        PROVE  ring'[q % WIN] = Cold(q)
    <3>1. q \in 0 .. pos - 1
      BY <1>2, <1>3, <2>4, WindowMember
    <3> QED BY <1>1, <2>1, <2>2, <2>4, <3>1 DEF HoldsPrefix
  <2>5. Trusted' = Trusted /\ Window(pos)' = Window(pos) /\ \A q : Cold(q)' = Cold(q)
    BY <1>1, <1>6 DEF Trusted, Window, Cold, KV
  <2> QED BY <1>1, <1>5, <2>3, <2>4, <2>5 DEF Contents
<1>11. LedgerHonest'
  BY <1>0, <1>1, LedgerKept DEF snapVars
<1> QED BY <1>7, <1>8, <1>9, <1>10, <1>11 DEF IInv

\* What a write of first .. last at the current position leaves to read: the
\* entries of a cold prefill again.
LEMMA WriteKeepsContents ==
    ASSUME NEW via, NEW last \in Nat, last < MAXT, pos \in Nat, pos <= last,
           \A q \in 0 .. pos - 1 : glob[q] = Cold(q),
           \A q \in Window(pos) : ring[q % WIN] = Cold(q),
           \A q \in pos .. last : Cold(q) = KV(toks, q, via)
    PROVE  /\ \A q \in 0 .. last : WriteGlobal(glob, toks, pos, last, via)[q] = Cold(q)
           /\ \A q \in Window(last + 1) :
                  WriteRing(ring, toks, pos, last, via)[q % WIN] = Cold(q)
<1>1. ASSUME NEW q \in 0 .. last
      PROVE  WriteGlobal(glob, toks, pos, last, via)[q] = Cold(q)
  <2>1. WriteGlobal(glob, toks, pos, last, via)[q] = IF pos <= q THEN KV(toks, q, via) ELSE glob[q]
    BY WriteGlobalReads
  <2>2. CASE pos <= q
    BY <2>1, <2>2
  <2>3. CASE ~(pos <= q)
    BY <2>1, <2>3
  <2> QED BY <2>2, <2>3
<1>2. ASSUME NEW q \in Window(last + 1)
      PROVE  WriteRing(ring, toks, pos, last, via)[q % WIN] = Cold(q)
  <2>1. q \in Nat /\ last + 1 - WIN <= q /\ q < last + 1
    BY <1>2, WindowMember, Sizes
  <2>2. last - WIN < q /\ q <= last
    BY <2>1, Sizes
  <2>3. WriteRing(ring, toks, pos, last, via)[q % WIN] =
            IF pos <= q THEN KV(toks, q, via) ELSE ring[q % WIN]
    BY <2>1, <2>2, WriteRingReads
  <2>4. CASE pos <= q
    <3>1. q \in pos .. last
      BY <2>1, <2>2, <2>4
    <3> QED BY <2>3, <2>4, <3>1
  <2>5. CASE ~(pos <= q)
    <3>1. q \in Window(pos)
      BY <2>1, <2>5, WindowMember, Sizes
    <3> QED BY <2>3, <2>5, <3>1
  <2> QED BY <2>4, <2>5
<1> QED BY <1>1, <1>2

\* A chunk of the prompt is prefilled.
LEMMA PrefillChunkInv == IInv /\ PrefillChunk => IInv'
<1> SUFFICES ASSUME IInv, PrefillChunk PROVE IInv'
  OBVIOUS
<1>0. TypeOK /\ Phases /\ Plans /\ Contents /\ LedgerHonest
  BY DEF IInv
<1>1. /\ pc = "prefill" /\ pos < nfull * MC
      /\ glob' = WriteGlobal(glob, toks, pos, pos + MC - 1, "chunk")
      /\ ring' = WriteRing(ring, toks, pos, pos + MC - 1, "chunk")
      /\ pos' = pos + MC /\ pc' = IF pos' = snap * MC THEN "snapshot" ELSE "prefill"
      /\ UNCHANGED <<sglob, sring, pref, req, n, reuse, snap, snapArg, toks, wedged, shot, tainted>>
  BY DEF PrefillChunk, snapVars, jobVars
<1>2. /\ nfull \in Nat /\ nfull * MC \in Nat /\ nfull * MC <= n /\ (0 < n => nfull * MC < n)
      /\ snap * MC \in Nat
      /\ n \in Nat /\ Len(toks) \in Nat /\ pos \in Nat
  BY <1>0, JobFits
<1>3. n = Len(toks) /\ pos < n /\ n < MAXT /\ snap \in Nat
  BY <1>0, <1>1, CmaxTimes DEF Phases, TypeOK
<1>4. PICK k \in 0 .. nfull : pos = k * MC
  <2>1. ~(nfull * MC <= pos)
    BY <1>1, <1>2
  <2> QED BY <1>0, <1>1, <2>1 DEF Phases
<1>5. k \in Nat /\ k + 1 \in 0 .. nfull /\ pos' = (k + 1) * MC
  <2>1. k \in Nat
    BY <1>2
  <2>2. k + 1 <= nfull
    BY <1>1, <1>2, <1>4, <2>1, Sizes, TimesCancel
  <2>3. (k + 1) * MC = k * MC + MC
    BY <2>1, Sizes, TimesNext
  <2> QED BY <1>1, <1>2, <1>4, <2>1, <2>2, <2>3
<1>6. pos' <= nfull * MC /\ pos' < n
  <2>1. (k + 1) * MC <= nfull * MC
    BY <1>2, <1>5, Sizes, TimesMonotone
  <2>2. pos' \in Nat
    BY <1>1, <1>2, Sizes
  <2> QED BY <1>2, <1>3, <1>5, <2>1, <2>2
<1>7. nfull' = nfull
  BY <1>1 DEF nfull
<1>8. /\ pos + MC - 1 \in Nat /\ pos <= pos + MC - 1 /\ pos + MC - 1 < Len(toks)
      /\ pos + MC - 1 < MAXT /\ pos + MC - 1 < nfull * MC
      /\ pos' = pos + MC - 1 + 1 /\ pos' \in 0 .. MAXT - 1 /\ pos' <= Len(toks) /\ 0 < pos'
  BY <1>1, <1>2, <1>3, <1>6, Sizes
<1>9. TypeOK'
  <2>1. glob' \in [GlobalSlots -> Entry] /\ ring' \in [RingSlots -> Entry]
    <3>1. glob \in [GlobalSlots -> Entry] /\ ring \in [RingSlots -> Entry] /\ toks \in Seq(Tokens)
      BY <1>0 DEF TypeOK
    <3> QED BY <1>1, <1>2, <1>8, <3>1, WriteTypes
  <2> QED BY <1>0, <1>1, <1>8, <2>1 DEF TypeOK
<1>10. Phases'
  <2>1. \E j \in 0 .. nfull : pos' = j * MC
    BY <1>5
  <2>2. pc' = "snapshot" => 0 < snap
    <3>1. 0 * MC = 0
      BY Sizes
    <3> QED BY <1>1, <1>3, <1>8, <3>1
  <2> QED BY <1>0, <1>1, <1>3, <1>6, <1>7, <2>1, <2>2 DEF Phases
<1>11. Plans'
  <2>1. pc' = "prefill" /\ 0 < snap /\ snap * MC <= pos' => shot
    <3>1. HAVE pc' = "prefill" /\ 0 < snap /\ snap * MC <= pos'
    <3>2. snap * MC < (k + 1) * MC
      BY <1>1, <1>2, <1>5, <1>8, <3>1
    <3>3. snap + 1 <= k + 1
      BY <1>3, <1>5, <3>2, Sizes, TimesCancel
    <3>4. snap * MC <= pos
      BY <1>3, <1>4, <1>5, <3>3, Sizes, TimesMonotone
    <3> QED BY <1>0, <1>1, <3>1, <3>4 DEF Plans
  <2>2. shot => snap * MC <= pos' /\ pc' = "prefill"
    BY <1>0, <1>1, <1>2, Sizes DEF Plans
  <2> QED BY <1>0, <1>1, <2>1, <2>2 DEF Plans
<1>12. Contents'
  <2>1. ASSUME Trusted
        PROVE  /\ \A q \in 0 .. pos' - 1 : glob'[q] = Cold(q)
               /\ \A q \in Window(pos + MC) : ring'[q % WIN] = Cold(q)
    <3>1. /\ \A q \in 0 .. pos - 1 : glob[q] = Cold(q)
          /\ \A q \in Window(pos) : ring[q % WIN] = Cold(q)
      BY <1>0, <1>1, <2>1 DEF Contents, Active
    <3>2. \A q \in pos .. pos + MC - 1 : Cold(q) = KV(toks, q, "chunk")
      BY <1>2, <1>8 DEF Cold
    <3>3. /\ \A q \in 0 .. pos + MC - 1 : glob'[q] = Cold(q)
          /\ \A q \in Window((pos + MC - 1) + 1) : ring'[q % WIN] = Cold(q)
      BY <1>1, <1>2, <1>8, <3>1, <3>2, WriteKeepsContents
    <3>4. (pos + MC - 1) + 1 = pos + MC /\ pos' - 1 = pos + MC - 1
      BY <1>1, <1>2, Sizes
    <3> QED BY <3>3, <3>4
  <2>2. /\ Trusted' = Trusted /\ Window(pos)' = Window(pos + MC) /\ \A q : Cold(q)' = Cold(q)
        /\ HoldsPrefix(sglob, sring, toks, snap * MC)' = HoldsPrefix(sglob, sring, toks, snap * MC)
    BY <1>1, <1>7 DEF Trusted, Window, Cold, KV, HoldsPrefix
  <2>3. shot /\ Trusted => HoldsPrefix(sglob, sring, toks, snap * MC)
    BY <1>0 DEF Contents
  <2> QED BY <1>1, <2>1, <2>2, <2>3 DEF Contents
<1>13. LedgerHonest'
  BY <1>0, <1>1, LedgerKept DEF snapVars
<1> QED BY <1>9, <1>10, <1>11, <1>12, <1>13 DEF IInv

\* The snapshot copies exactly the prefilled prefix it is said to hold.
LEMMA SnapshotInv == IInv /\ Snapshot => IInv'
<1> SUFFICES ASSUME IInv, Snapshot PROVE IInv'
  OBVIOUS
<1>0. TypeOK /\ Phases /\ Plans /\ Contents /\ LedgerHonest
  BY DEF IInv
<1>1. /\ pc = "snapshot" /\ pc' = "prefill" /\ shot' = TRUE
      /\ sglob' = [q \in SnapSlots |-> glob[q]] /\ sring' = ring
      /\ UNCHANGED <<glob, ring, pref, req, n, reuse, snap, snapArg, toks, pos, wedged, tainted>>
  BY DEF Snapshot, kvVars, jobVars
<1>2. /\ nfull \in Nat /\ nfull * MC \in Nat
      /\ snap * MC \in Nat /\ snap * MC <= nfull * MC /\ snap * MC <= CACHE_MAX
      /\ n \in Nat /\ Len(toks) \in Nat /\ pos \in Nat
  BY <1>0, JobFits
<1>3. 0 < snap /\ pos = snap * MC /\ snap \in 0 .. nfull /\ nfull' = nfull
  BY <1>0, <1>1, <1>2, CmaxTimes DEF Phases, TypeOK, nfull
<1>4. TypeOK'
  <2>1. sglob' \in [SnapSlots -> Entry] /\ sring' \in [RingSlots -> Entry]
    <3>1. SnapSlots \subseteq GlobalSlots
      BY Sizes DEF SnapSlots, GlobalSlots
    <3> QED BY <1>0, <1>1, <3>1 DEF TypeOK
  <2> QED BY <1>0, <1>1, <2>1 DEF TypeOK
<1>5. Phases'
  BY <1>0, <1>1, <1>3 DEF Phases
<1>6. Plans'
  BY <1>0, <1>1, <1>2, <1>3 DEF Plans
<1>7. Contents'
  <2>1. Trusted' = Trusted /\ Window(pos)' = Window(pos) /\ \A q : Cold(q)' = Cold(q)
    BY <1>1, <1>3 DEF Trusted, Window, Cold, KV
  <2>2. Trusted => /\ \A q \in 0 .. pos - 1 : glob[q] = Cold(q)
                   /\ \A q \in Window(pos) : ring[q % WIN] = Cold(q)
    BY <1>0, <1>1 DEF Contents, Active
  <2>3. ASSUME NEW q \in 0 .. pos - 1
        PROVE  q \in SnapSlots /\ Cold(q) = KV(toks, q, "chunk")
    BY <1>2, <1>3, Sizes DEF SnapSlots, Cold
  <2>4. ASSUME NEW q \in Window(pos)
        PROVE  q \in 0 .. pos - 1
    BY <1>2, <2>4, WindowMember, Sizes
  <2>5. Trusted => HoldsPrefix(sglob', sring', toks, pos)
    BY <1>1, <2>2, <2>3, <2>4 DEF HoldsPrefix
  <2>6. HoldsPrefix(sglob, sring, toks, snap * MC)' = HoldsPrefix(sglob', sring', toks, pos)
    BY <1>1, <1>3 DEF HoldsPrefix, Window, KV
  <2> QED BY <1>1, <2>1, <2>2, <2>5, <2>6 DEF Contents
<1>8. LedgerHonest'
  BY <1>1 DEF LedgerHonest
<1> QED BY <1>4, <1>5, <1>6, <1>7, <1>8 DEF IInv

\* A token forwarded through the decode path at the next position.
LEMMA ForwardContents ==
    ASSUME IInv, Forward, Active, n' = n, toks' = toks, reuse' = reuse, tainted' = tainted,
           pos < Len(toks), pos < MAXT, nfull * MC <= pos
    PROVE  /\ glob' \in [GlobalSlots -> Entry] /\ ring' \in [RingSlots -> Entry]
           /\ Trusted' => /\ \A q \in 0 .. pos' - 1 : glob'[q] = Cold(q)'
                          /\ \A q \in Window(pos') : ring'[q % WIN] = Cold(q)'
<1>0. TypeOK /\ Phases /\ Contents
  BY DEF IInv
<1>1. /\ glob' = WriteGlobal(glob, toks, pos, pos, "decode")
      /\ ring' = WriteRing(ring, toks, pos, pos, "decode")
      /\ pos' = pos + 1
  BY DEF Forward
<1>2. pos \in Nat /\ nfull * MC \in Nat
  BY <1>0, JobFits
<1>3. glob' \in [GlobalSlots -> Entry] /\ ring' \in [RingSlots -> Entry]
  BY <1>0, <1>1, <1>2, WriteTypes DEF TypeOK
<1>4. Trusted' = Trusted /\ \A q : Cold(q)' = Cold(q)
  BY DEF Trusted, Cold, nfull, KV
<1>5. \A q \in pos .. pos : Cold(q) = KV(toks, q, "decode")
  BY <1>2 DEF Cold
<1>6. ASSUME Trusted
      PROVE  /\ \A q \in 0 .. pos : glob'[q] = Cold(q)
             /\ \A q \in Window(pos + 1) : ring'[q % WIN] = Cold(q)
  <2>1. /\ \A q \in 0 .. pos - 1 : glob[q] = Cold(q)
        /\ \A q \in Window(pos) : ring[q % WIN] = Cold(q)
    BY <1>0, <1>6 DEF Contents
  <2>2. pos <= pos
    BY <1>2
  <2> QED BY <1>1, <1>2, <1>5, <2>1, <2>2, WriteKeepsContents
<1>7. pos' - 1 = pos
  BY <1>1, <1>2
<1> QED BY <1>1, <1>3, <1>4, <1>6, <1>7

\* A prompt token goes through the decode path.
LEMMA TailTokenInv == IInv /\ TailToken => IInv'
<1> SUFFICES ASSUME IInv, TailToken PROVE IInv'
  OBVIOUS
<1>0. TypeOK /\ Phases /\ Plans /\ Contents /\ LedgerHonest
  BY DEF IInv
<1>1. /\ pc = "prefill" /\ nfull * MC <= pos /\ pos < n /\ Forward /\ pos' = pos + 1
      /\ pc' = IF pos' = n THEN "sample" ELSE "prefill"
      /\ UNCHANGED <<sglob, sring, pref, req, n, reuse, snap, snapArg, toks, wedged, shot, tainted>>
  BY DEF TailToken, Forward, snapVars, jobVars
<1>2. /\ nfull \in Nat /\ nfull * MC \in Nat /\ snap * MC \in Nat /\ snap * MC <= nfull * MC
      /\ n \in Nat /\ Len(toks) \in Nat /\ pos \in Nat
  BY <1>0, JobFits
<1>3. n = Len(toks) /\ n < MAXT /\ nfull' = nfull
  BY <1>0, <1>1 DEF Phases, TypeOK, nfull
<1>4. pos < MAXT /\ pos' \in 0 .. MAXT - 1 /\ pos' <= Len(toks) /\ nfull * MC <= pos'
      /\ (pos' # n => pos' < n) /\ 0 < n /\ snap * MC <= pos
  BY <1>1, <1>2, <1>3, Sizes
<1>5. /\ glob' \in [GlobalSlots -> Entry] /\ ring' \in [RingSlots -> Entry]
      /\ Trusted' => /\ \A q \in 0 .. pos' - 1 : glob'[q] = Cold(q)'
                     /\ \A q \in Window(pos') : ring'[q % WIN] = Cold(q)'
  <2>1. Active /\ pos < Len(toks)
    BY <1>1, <1>3 DEF Active
  <2> QED BY <1>1, <1>4, <2>1, ForwardContents
<1>6. TypeOK'
  BY <1>0, <1>1, <1>4, <1>5 DEF TypeOK
<1>7. Phases'
  BY <1>0, <1>1, <1>3, <1>4 DEF Phases
<1>8. Plans'
  <2>1. 0 < snap => shot
    BY <1>0, <1>1, <1>4 DEF Plans
  <2>2. shot => snap * MC <= pos' /\ pc' \in {"prefill", "sample", "commit"}
    BY <1>1, <1>2, <1>4
  <2> QED BY <1>0, <1>1, <1>3, <2>1, <2>2 DEF Plans
<1>9. Contents'
  <2>1. /\ Trusted' = Trusted
        /\ HoldsPrefix(sglob, sring, toks, snap * MC)' = HoldsPrefix(sglob, sring, toks, snap * MC)
    BY <1>1 DEF Trusted, HoldsPrefix, Window, KV
  <2> QED BY <1>0, <1>1, <1>5, <2>1 DEF Contents, Window
<1>10. LedgerHonest'
  BY <1>0, <1>1, LedgerKept DEF snapVars
<1> QED BY <1>6, <1>7, <1>8, <1>9, <1>10 DEF IInv

\* A generated token goes through the decode path.
LEMMA ResumeInv == IInv /\ Resume => IInv'
<1> SUFFICES ASSUME IInv, Resume PROVE IInv'
  OBVIOUS
<1>0. TypeOK /\ Phases /\ Plans /\ Contents /\ LedgerHonest
  BY DEF IInv
<1>1. /\ pc = "yielded" /\ pos < MAXT - 1 /\ Forward /\ pos' = pos + 1 /\ pc' = "sample"
      /\ UNCHANGED <<sglob, sring, pref, req, n, reuse, snap, snapArg, toks, wedged, shot, tainted>>
  BY DEF Resume, Forward, snapVars, jobVars
<1>2. /\ nfull \in Nat /\ nfull * MC \in Nat /\ nfull * MC <= n
      /\ n \in Nat /\ Len(toks) \in Nat /\ pos \in Nat
  BY <1>0, JobFits
<1>3. 0 < n /\ n <= pos /\ pos = Len(toks) - 1 /\ nfull' = nfull /\ shot = FALSE
  BY <1>0, <1>1 DEF Phases, Plans, TypeOK, nfull
<1>4. pos < MAXT /\ pos' \in 0 .. MAXT - 1 /\ pos' = Len(toks) /\ nfull * MC <= pos
      /\ Len(toks) # n /\ pos < Len(toks)
  BY <1>1, <1>2, <1>3, Sizes
<1>5. /\ glob' \in [GlobalSlots -> Entry] /\ ring' \in [RingSlots -> Entry]
      /\ Trusted' => /\ \A q \in 0 .. pos' - 1 : glob'[q] = Cold(q)'
                     /\ \A q \in Window(pos') : ring'[q % WIN] = Cold(q)'
  BY <1>1, <1>4, ForwardContents DEF Active
<1>6. TypeOK'
  BY <1>0, <1>1, <1>2, <1>4, <1>5 DEF TypeOK
<1>7. Phases'
  BY <1>0, <1>1, <1>3, <1>4 DEF Phases
<1>8. Plans'
  BY <1>0, <1>1, <1>3, <1>4 DEF Plans
<1>9. Contents'
  BY <1>1, <1>3, <1>5 DEF Contents, Window
<1>10. LedgerHonest'
  BY <1>0, <1>1, LedgerKept DEF snapVars
<1> QED BY <1>6, <1>7, <1>8, <1>9, <1>10 DEF IInv

\* A sampled token joins the context; the entries before it stay those of a
\* cold run.
LEMMA SampleTokenInv == ASSUME NEW t \in Tokens PROVE IInv /\ SampleToken(t) => IInv'
<1> SUFFICES ASSUME IInv, SampleToken(t) PROVE IInv'
  OBVIOUS
<1>0. TypeOK /\ Phases /\ Plans /\ Contents /\ LedgerHonest
  BY DEF IInv
<1>1. /\ pc = "sample" /\ toks' = Append(toks, t)
      /\ pc' = IF Len(toks) = n THEN "commit" ELSE "yielded"
      /\ UNCHANGED <<glob, ring, sglob, sring, pref, req, n, reuse, snap, snapArg, pos, wedged, shot, tainted>>
  BY DEF SampleToken, MoreToSample, kvVars, snapVars, jobVars
<1>2. /\ nfull \in Nat /\ nfull * MC \in Nat /\ nfull * MC <= n
      /\ snap * MC \in Nat /\ snap * MC <= nfull * MC
      /\ n \in Nat /\ Len(toks) \in Nat /\ pos \in Nat
  BY <1>0, JobFits
<1>3. /\ toks \in Seq(Tokens) /\ n <= Len(toks) /\ 0 < n /\ pos = Len(toks)
      /\ nfull' = nfull
  BY <1>0, <1>1 DEF Phases, TypeOK, nfull
<1>4. Len(toks') = Len(toks) + 1 /\ toks' \in Seq(Tokens)
  BY <1>1, <1>3, AppendProperties
<1>5. TypeOK'
  BY <1>0, <1>1, <1>2, <1>3, <1>4 DEF TypeOK
<1>6. Phases'
  BY <1>0, <1>1, <1>2, <1>3, <1>4 DEF Phases
<1>7. Plans'
  <2>1. SubSeq(toks', 1, snap * MC) = SubSeq(toks, 1, snap * MC)
    BY <1>1, <1>2, <1>3, PrefixOfAppend
  <2> QED BY <1>0, <1>1, <2>1 DEF Plans
<1>8. Contents'
  <2>1. ASSUME NEW q \in 0 .. pos - 1, NEW via
        PROVE  KV(toks', q, via) = KV(toks, q, via)
    BY <1>1, <1>3, AppendEntries
  <2>2. ASSUME NEW q \in 0 .. pos - 1
        PROVE  Cold(q)' = Cold(q)
    <3>1. Cold(q)' = KV(toks', q, IF q < nfull * MC THEN "chunk" ELSE "decode")
      BY <1>3 DEF Cold, KV
    <3> QED BY <2>1, <3>1 DEF Cold
  <2>3. Trusted' = Trusted /\ Window(pos)' = Window(pos) /\ pos' = pos
    BY <1>1 DEF Trusted, Window
  <2>4. ASSUME NEW len \in Nat, len <= pos, NEW q \in Window(len)
        PROVE  q \in 0 .. pos - 1
    BY <1>2, <2>4, WindowMember, Sizes
  <2>5. Trusted => /\ \A q \in 0 .. pos - 1 : glob'[q] = Cold(q)'
                   /\ \A q \in Window(pos) : ring'[q % WIN] = Cold(q)'
    <3>1. HAVE Trusted
    <3>2. /\ \A q \in 0 .. pos - 1 : glob[q] = Cold(q)
          /\ \A q \in Window(pos) : ring[q % WIN] = Cold(q)
      BY <1>0, <1>1, <3>1 DEF Contents, Active
    <3>3. pos <= pos /\ pos \in Nat
      BY <1>2
    <3> QED BY <1>1, <2>2, <2>4, <3>2, <3>3
  <2>6. shot /\ Trusted => HoldsPrefix(sglob, sring, toks', snap * MC)
    <3>1. HAVE shot /\ Trusted
    <3>2. HoldsPrefix(sglob, sring, toks, snap * MC)
      BY <1>0, <3>1 DEF Contents
    <3>3. snap * MC <= pos
      BY <1>2, <1>3
    <3>4. \A q \in 0 .. snap * MC - 1 : q \in 0 .. pos - 1
      BY <1>2, <3>3
    <3> QED BY <1>2, <2>1, <2>4, <3>2, <3>3, <3>4 DEF HoldsPrefix
  <2>7. HoldsPrefix(sglob, sring, toks, snap * MC)' = HoldsPrefix(sglob, sring, toks', snap * MC)
    BY <1>1 DEF HoldsPrefix, Window, KV
  <2> QED BY <1>1, <2>3, <2>5, <2>6, <2>7 DEF Contents
<1>9. LedgerHonest'
  BY <1>0, <1>1, LedgerKept DEF snapVars
<1> QED BY <1>5, <1>6, <1>7, <1>8, <1>9 DEF IInv

\* The commit makes the ledger name the prefix this job snapshotted, or marks
\* the two as separated.
LEMMA CommitInv == IInv /\ Commit => IInv'
<1> SUFFICES ASSUME IInv, Commit PROVE IInv'
  OBVIOUS
<1>0. TypeOK /\ Phases /\ Plans /\ Contents /\ LedgerHonest
  BY DEF IInv
<1>1. /\ pc = "commit" /\ shot' = FALSE
      /\ pref' = IF snapArg > 0
                 THEN [ids |-> SubSeq(req, 1, snapArg * MC), chunks |-> snapArg] ELSE pref
      /\ tainted' = IF snapArg > 0 THEN IF snap = 0 THEN TRUE ELSE tainted /\ reuse > 0 ELSE tainted
      /\ UNCHANGED <<glob, ring, sglob, sring, wedged>>
  BY DEF Commit, kvVars, snapVars
<1>2. /\ nfull \in Nat /\ nfull * MC \in Nat /\ nfull * MC <= n
      /\ snap * MC \in Nat /\ snap * MC <= nfull * MC
      /\ n \in Nat /\ Len(toks) \in Nat /\ pos \in Nat
  BY <1>0, JobFits
<1>3. /\ snapArg \in 0 .. CMAX /\ CMAX \in Nat /\ snap \in 0 .. CMAX /\ reuse \in 0 .. CMAX
      /\ req \in Seq(Tokens) /\ toks \in Seq(Tokens) /\ n <= Len(toks)
      /\ Len(req) \in Nat /\ snapArg * MC \in Nat /\ snapArg * MC <= Len(req)
      /\ tainted \in BOOLEAN /\ shot \in BOOLEAN
  <2>1. snapArg \in 0 .. CMAX
    BY <1>0 DEF TypeOK
  <2>2. req \in Seq(Tokens) /\ Len(req) \in Nat
    BY <1>0, LenProperties DEF TypeOK
  <2> QED BY <1>0, <2>1, <2>2, CmaxTimes, ChunksFitSnapshot DEF TypeOK, Plans
<1>4. pref' \in [ids : Seq(Tokens), chunks : 0 .. CMAX] /\ Len(pref'.ids) = pref'.chunks * MC
  <2>1. SubSeq(req, 1, snapArg * MC) \in Seq(Tokens) /\ Len(SubSeq(req, 1, snapArg * MC)) = snapArg * MC
    BY <1>3, PrefixType
  <2> QED BY <1>0, <1>1, <1>3, <2>1 DEF TypeOK, Plans
<1>5. wedged' \in BOOLEAN /\ tainted' \in BOOLEAN
  BY <1>0, <1>1, <1>3 DEF TypeOK
<1>6. LedgerHonest'
  <2>1. CASE snapArg = 0
    <3>1. snap = 0 /\ shot = FALSE
      BY <1>0, <1>3, <2>1 DEF Plans
    <3>2. pref' = pref /\ tainted' = tainted
      BY <1>1, <2>1
    <3> QED BY <1>0, <1>1, <3>1, <3>2, LedgerKept DEF snapVars
  <2>2. CASE snapArg > 0 /\ snap = 0
    BY <1>1, <2>2 DEF LedgerHonest
  <2>3. CASE snapArg > 0 /\ snap # 0
    <3>1. 0 < snap /\ snapArg = snap /\ shot /\ SubSeq(toks, 1, snap * MC) = SubSeq(req, 1, snap * MC)
      BY <1>0, <1>1, <1>3, <2>3 DEF Plans
    <3>2. pref' = [ids |-> SubSeq(toks, 1, snap * MC), chunks |-> snap] /\ tainted' = (tainted /\ reuse > 0)
      BY <1>1, <2>3, <3>1
    <3>3. ~tainted' => HoldsPrefix(sglob, sring, toks, snap * MC)
      BY <1>0, <1>3, <3>1, <3>2 DEF Contents, Trusted
    <3>4. snap * MC \in 0 .. Len(toks)
      BY <1>2, <1>3
    <3>5. \A q \in 0 .. snap * MC - 1 : KV(pref'.ids, q, "chunk") = KV(toks, q, "chunk")
      BY <1>3, <3>2, <3>4, PrefixEntries
    <3>6. \A q \in Window(snap * MC) : q \in 0 .. snap * MC - 1
      BY <1>2, WindowMember, Sizes
    <3>7. ~tainted' => HoldsPrefix(sglob, sring, pref'.ids, snap * MC)
      BY <3>3, <3>5, <3>6 DEF HoldsPrefix
    <3>8. pref'.chunks = snap
      BY <3>2
    <3> QED BY <1>1, <3>7, <3>8 DEF LedgerHonest, HoldsPrefix, Window, KV
  <2> QED BY <1>3, <2>1, <2>2, <2>3
<1>7. CASE Len(toks) > n
  <2>1. pc' = "yielded" /\ UNCHANGED <<req, n, reuse, snap, snapArg, toks, pos>>
    BY <1>7 DEF Commit, jobVars
  <2>2. nfull' = nfull
    BY <2>1 DEF nfull
  <2>3. TypeOK'
    BY <1>0, <1>1, <1>4, <1>5, <2>1 DEF TypeOK
  <2>4. Phases'
    <3>1. 0 < n /\ pos = n /\ pos = Len(toks) - 1
      BY <1>0, <1>1, <1>2, <1>7 DEF Phases
    <3> QED BY <1>0, <1>2, <2>1, <2>2, <3>1 DEF Phases
  <2>5. Plans'
    BY <1>0, <1>1, <1>4, <2>1 DEF Plans
  <2>6. Contents'
    <3>1. Trusted' => Trusted
      BY <1>0, <1>1, <1>3, <2>1 DEF Trusted, Plans
    <3>2. Window(pos)' = Window(pos) /\ \A q : Cold(q)' = Cold(q)
      BY <2>1, <2>2 DEF Window, Cold, KV
    <3>3. Trusted => /\ \A q \in 0 .. pos - 1 : glob[q] = Cold(q)
                     /\ \A q \in Window(pos) : ring[q % WIN] = Cold(q)
      BY <1>0, <1>1 DEF Contents, Active
    <3> QED BY <1>1, <2>1, <3>1, <3>2, <3>3 DEF Contents
  <2> QED BY <1>6, <2>3, <2>4, <2>5, <2>6 DEF IInv
<1>8. CASE ~(Len(toks) > n)
  <2>1. EndJob /\ UNCHANGED <<kvVars, snapVars>>
    BY <1>8 DEF Commit
  <2> QED BY <1>1, <1>4, <1>5, <1>6, <2>1, EndJobInv
<1> QED BY <1>7, <1>8

\* A stuttering step.
LEMMA StutterInv == IInv /\ UNCHANGED vars => IInv'
<1> SUFFICES ASSUME IInv, UNCHANGED vars PROVE IInv'
  OBVIOUS
<1> USE DEF vars, kvVars, snapVars, jobVars, IInv
<1>1. nfull' = nfull
  BY DEF nfull
<1>2. TypeOK'
  BY DEF TypeOK
<1>3. Phases'
  BY <1>1 DEF Phases
<1>4. Plans'
  BY DEF Plans
<1>5. Contents'
  BY <1>1 DEF Contents, Active, Trusted, Cold, Window, HoldsPrefix, KV
<1>6. LedgerHonest'
  BY LedgerKept
<1> QED BY <1>2, <1>3, <1>4, <1>5, <1>6

-----------------------------------------------------------------------------
(* What attention reads *)

\* A short ring run has not wrapped: the slot of a position is the position.
LEMMA SlotOfShortRun ==
    ASSUME NEW q \in Nat, q < WIN
    PROVE  q % WIN = q
<1>1. q = WIN * 0 + q /\ q \in 0 .. WIN - 1 /\ WIN \in Nat \ {0}
  BY Sizes
<1> QED BY <1>1, ModUnique

\* The masked slots of a token are those of the positions up to its own that
\* the ring still holds.
LEMMA RingReads ==
    ASSUME NEW last \in Nat, pos = last + 1, NEW p \in 0 .. last,
           \A q \in Window(pos) : ring[q % WIN] = Cold(q)
    PROVE  ChunkReadsRing(ring, last, p) = {Cold(q) : q \in Max2(0, pos - WIN) .. p}
<1>1. WIN \in Nat \ {0} /\ p \in Nat /\ p <= last
  BY Sizes
<1>2. ASSUME NEW t \in 0 .. Min2(p + 1, WIN) - 1, RingPos(last, t) <= p
      PROVE  RingPos(last, t) \in Max2(0, pos - WIN) .. p /\ ring[t] = Cold(RingPos(last, t))
  <2>1. t \in RingSlots /\ t \in Nat /\ t <= p /\ t < WIN
    BY <1>1 DEF RingSlots, Min2
  <2>2. /\ RingPos(last, t) \in Int /\ last - WIN < RingPos(last, t)
        /\ RingPos(last, t) % WIN = t
    BY <2>1, RingPosRange, RingPosSlot
  <2>3. 0 <= RingPos(last, t)
    <3>1. CASE last + 1 >= WIN
      BY <1>1, <2>2, <3>1
    <3>2. CASE last + 1 < WIN
      <4>1. last - WIN < t /\ t <= last
        BY <1>1, <2>1, <3>2
      <4>2. RingPos(last, t % WIN) = t
        BY <2>1, <4>1, RingPosOfSlot
      <4>3. t % WIN = t
        BY <2>1, SlotOfShortRun
      <4> QED BY <2>1, <4>2, <4>3
    <3> QED BY <1>1, <3>1, <3>2
  <2>4. RingPos(last, t) \in Max2(0, pos - WIN) .. p
    BY <1>1, <1>2, <2>2, <2>3 DEF Max2
  <2>5. RingPos(last, t) \in Window(pos)
    BY <1>1, <1>2, <2>2, <2>3 DEF Window, Max2
  <2> QED BY <2>2, <2>4, <2>5
<1>3. ASSUME NEW q \in Max2(0, pos - WIN) .. p
      PROVE  /\ q % WIN \in 0 .. Min2(p + 1, WIN) - 1
             /\ RingPos(last, q % WIN) <= p /\ ring[q % WIN] = Cold(q)
  <2>1. q \in Nat /\ q <= p /\ last - WIN < q /\ q <= last
    BY <1>1, <1>3 DEF Max2
  <2>2. RingPos(last, q % WIN) = q
    BY <2>1, RingPosOfSlot
  <2>3. q % WIN \in RingSlots
    BY <2>1, SlotType
  <2>4. q % WIN <= p
    <3>1. CASE q < WIN
      BY <2>1, <3>1, SlotOfShortRun
    <3>2. CASE q >= WIN
      <4>1. \A s \in RingSlots : s <= q
        BY <1>1, <2>1, <3>2 DEF RingSlots
      <4>2. \A s \in RingSlots : s <= p
        BY <1>1, <2>1, <4>1 DEF RingSlots
      <4> QED BY <2>3, <4>2
    <3> QED BY <1>1, <2>1, <3>1, <3>2
  <2>5. \A s \in RingSlots : s <= p => s \in 0 .. Min2(p + 1, WIN) - 1
    BY <1>1 DEF RingSlots, Min2
  <2>6. q \in Window(pos)
    BY <1>1, <2>1 DEF Window, Max2
  <2> QED BY <2>1, <2>2, <2>3, <2>4, <2>5, <2>6
<1>4. ASSUME NEW e \in ChunkReadsRing(ring, last, p)
      PROVE  e \in {Cold(q) : q \in Max2(0, pos - WIN) .. p}
  <2>1. PICK t \in 0 .. Min2(p + 1, WIN) - 1 : RingPos(last, t) <= p /\ e = ring[t]
    BY <1>4 DEF ChunkReadsRing
  <2> QED BY <1>2, <2>1
<1>5. ASSUME NEW e \in {Cold(q) : q \in Max2(0, pos - WIN) .. p}
      PROVE  e \in ChunkReadsRing(ring, last, p)
  <2>1. PICK q \in Max2(0, pos - WIN) .. p : e = Cold(q)
    BY <1>5
  <2>2. PICK s \in 0 .. Min2(p + 1, WIN) - 1 : s = q % WIN /\ RingPos(last, s) <= p /\ ring[s] = Cold(q)
    BY <1>3
  <2> QED BY <2>1, <2>2 DEF ChunkReadsRing
<1> QED BY <1>4, <1>5

\* The inductive invariant gives the decode path the entries of a cold run.
LEMMA ReadsFromInvariant == IInv => DecodeReadsExact
<1> SUFFICES ASSUME IInv, Trusted, pc \in {"prefill", "sample"}, pos > nfull * MC
             PROVE  DecodeReadsCold
  BY DEF DecodeReadsExact
<1>1. /\ pos \in Nat /\ nfull * MC \in Nat
  BY JobFits DEF IInv
<1>2. /\ \A q \in 0 .. pos - 1 : glob[q] = Cold(q)
      /\ \A q \in Window(pos) : ring[q % WIN] = Cold(q)
  BY DEF IInv, Contents, Active
<1>3. DecodeReadsGlobal(glob, pos - 1) = {Cold(q) : q \in 0 .. pos - 1}
  BY <1>2 DEF DecodeReadsGlobal
<1>4. PICK last \in Nat : pos = last + 1 /\ last = pos - 1
  <2>1. pos - 1 \in Nat /\ pos = (pos - 1) + 1
    BY <1>1
  <2> QED BY <2>1
<1>5. ChunkReadsRing(ring, last, last) = {Cold(q) : q \in Max2(0, pos - WIN) .. last}
  BY <1>2, <1>4, RingReads
<1>6. DecodeReadsRing(ring, last) = ChunkReadsRing(ring, last, last)
  <2>1. \A t \in 0 .. Min2(last + 1, WIN) - 1 : RingPos(last, t) <= last
    <3>1. \A t \in 0 .. Min2(last + 1, WIN) - 1 : t \in RingSlots
      BY Sizes DEF RingSlots, Min2
    <3> QED BY <3>1, RingPosRange
  <2> QED BY <2>1 DEF DecodeReadsRing, ChunkReadsRing
<1> QED BY <1>3, <1>4, <1>5, <1>6 DEF DecodeReadsCold, Window

\* ... and every token of a chunk the entries the ring can still give it.
LEMMA ChunkReadsFromInvariant == IInv => ChunkReadsExact
<1> SUFFICES ASSUME IInv, Trusted, pc \in {"prefill", "snapshot"},
                    reuse * MC < pos, pos <= nfull * MC,
                    NEW p \in pos - MC .. pos - 1
             PROVE  ChunkReadsRing(ring, pos - 1, p) = {Cold(q) : q \in Max2(0, pos - WIN) .. p}
  BY DEF ChunkReadsExact
<1>0. TypeOK /\ Phases
  BY DEF IInv
<1>1. /\ pos \in Nat /\ nfull \in Nat /\ nfull * MC \in Nat /\ reuse * MC \in Nat /\ 0 < pos
  <2>1. pos \in Nat /\ nfull \in Nat /\ nfull * MC \in Nat /\ reuse * MC \in Nat
    BY <1>0, JobFits
  <2> QED BY <2>1
<1>2. \A q \in Window(pos) : ring[q % WIN] = Cold(q)
  BY DEF IInv, Contents, Active
<1>3. PICK k \in Nat : pos = k * MC
  <2>1. snap \in Nat
    BY <1>0, CmaxTimes DEF TypeOK
  <2>2. nfull * MC <= pos => pos = nfull * MC
    BY <1>1
  <2>3. (\E k \in 0 .. nfull : pos = k * MC) => \E k \in Nat : pos = k * MC
    BY <1>1
  <2> QED BY <1>0, <1>1, <2>1, <2>2, <2>3 DEF Phases
<1>4. MC <= pos
  <2>1. k # 0
    BY <1>1, <1>3, Sizes
  <2> QED BY <1>3, <2>1, Sizes, TimesAtLeast
<1>5. PICK last \in Nat : pos = last + 1 /\ last = pos - 1 /\ p \in 0 .. last
  <2>1. pos - 1 \in Nat /\ pos = (pos - 1) + 1 /\ p \in 0 .. pos - 1
    BY <1>1, <1>4, Sizes
  <2> QED BY <2>1
<1>6. ChunkReadsRing(ring, last, p) = {Cold(q) : q \in Max2(0, pos - WIN) .. p}
  BY <1>2, <1>5, RingReads
<1> QED BY <1>5, <1>6

-----------------------------------------------------------------------------
(* Theorems *)

\* The invariant is inductive.
LEMMA NextInv == IInv /\ [Next]_vars => IInv'
<1> SUFFICES ASSUME IInv, [Next]_vars PROVE IInv'
  OBVIOUS
<1>1. ASSUME NEW ids \in Prompts, Begin(ids) PROVE IInv'
  BY <1>1, BeginInv
<1>2. ASSUME NEW t \in Tokens, SampleToken(t) PROVE IInv'
  BY <1>2, SampleTokenInv
<1>3. CASE UNCHANGED vars
  BY <1>3, StutterInv
<1> QED BY <1>1, <1>2, <1>3, RestoreInv, PrefillChunkInv, SnapshotInv, TailTokenInv,
           SampleStopInv, RaiseInv, ExhaustedInv, CommitInv, ResumeInv, FinishInv,
           FenceTimeoutInv DEF Next

\* Plan, engine and buffers stay in step through every job of serve.py's _run
\* and vk_engine.py's generate, for every model and cache size and every
\* sequence of prompts, failures included.
THEOREM Inductive == Spec => []IInv
<1>1. Init => IInv
  BY InitInv
<1>2. IInv /\ [Next]_vars => IInv'
  BY NextInv
<1> QED BY <1>1, <1>2, PTL DEF Spec

\* No position, no chunk count and no buffer index of generate leaves its
\* range: neither a prompt of any length nor the tokens sampled after it leave
\* the context.
THEOREM TypeCorrect == Spec => []TypeOK
<1>1. IInv => TypeOK
  BY DEF IInv
<1> QED BY <1>1, Inductive, PTL

\* Between jobs the snapshot buffers hold the prefix _pref_cache names, unless
\* a commit without a snapshot or a job that died holding one separated them.
THEOREM LedgerCorrect == Spec => []LedgerHonest
<1>1. IInv => LedgerHonest
  BY DEF IInv
<1> QED BY <1>1, Inductive, PTL

\* A request that reuses the snapshot reads, for every token it decodes, what a
\* cold full prefill of the same prompt would have put in the cache.
THEOREM DecodeReadsCorrect == Spec => []DecodeReadsExact
BY Inductive, ReadsFromInvariant, PTL

\* A token of a prefilled chunk attends to nothing of an earlier job and to
\* nothing in its own future.
THEOREM ChunkReadsCorrect == Spec => []ChunkReadsExact
BY Inductive, ChunkReadsFromInvariant, PTL

-----------------------------------------------------------------------------
(* The prefix cache is invisible and worth having: the engine with the     *)
(* cache implements the one without, and one turn of a conversation warms   *)
(* it.                                                                     *)

\* No token is sampled from anything but a cold prefill's entries.
SampledFromAll == pc = "sample" => ~ReadsAstray

\* The invariant says so of every job that may trust its snapshot.
LEMMA LogitsWhole == IInv => SampledFromAll
<1> SUFFICES ASSUME IInv, pc = "sample", Trusted PROVE DecodeReadsCold
  BY DEF SampledFromAll, ReadsAstray
<1>1. 0 < n /\ pos = Len(toks) /\ n <= Len(toks)
  BY LenProperties DEF IInv, TypeOK, Phases
<1>2. nfull * MC \in Nat /\ nfull * MC < n /\ n \in Nat /\ pos \in Nat
  BY <1>1, JobFits DEF IInv
<1> QED
  BY <1>1, <1>2, ReadsFromInvariant DEF DecodeReadsExact

-----------------------------------------------------------------------------
(* Each step of the engine is a step of the cold one, or none *)

\* Before the first job nothing has been asked for.
LEMMA ColdInit == Init => ColdSpec!Init
  BY DEF Init, ColdSpec!Init, EngineState

\* A job begins with the prompt, cut to fit.
LEMMA BeginIsAccept ==
    ASSUME IInv, NEW ids \in Prompts, Begin(ids)
    PROVE  ColdSpec!Next
<1>1. ids \in Seq(Tokens) /\ Len(ids) \in Nat
  BY PromptsAssumption, LenProperties
<1>2. Truncate(ids) = ColdSpec!Fit(ids)
  BY <1>1, Sizes DEF Truncate, TooLong, ColdSpec!Fit
<1>3. EngineState = "idle" /\ pc' # "sample" /\ pc' # "idle" /\ toks' = Truncate(ids)
  BY DEF Begin, EngineState
<1>4. EngineState' = IF ids = <<>> THEN "ending" ELSE "working"
  <2>1. CASE ids = <<>>
    <3>1. pc' = "commit" /\ toks' = <<>> /\ n' = Len(toks') /\ Len(toks') = 0
      BY <1>1, <2>1, Sizes DEF Begin, Truncate, TooLong
    <3> QED
      BY <2>1, <3>1 DEF EngineState
  <2>2. CASE ids # <<>>
    <3>1. pc' \in {"restore", "prefill"}
      BY <2>2 DEF Begin
    <3> QED
      BY <2>2, <3>1 DEF EngineState
  <2> QED
    BY <2>1, <2>2
<1>5. ColdSpec!Accept(ids)
  BY <1>2, <1>3, <1>4 DEF ColdSpec!Accept
<1> QED
  BY <1>5 DEF ColdSpec!Next

\* However it ends, a job is over.
LEMMA EndJobIsEnd ==
    ASSUME IInv, EndJob, pc # "idle"
    PROVE  ColdSpec!Next
<1>1. EngineState # "idle"
  BY DEF EngineState, IInv, TypeOK
<1>2. EngineState' = "idle"
  BY DEF EndJob, EngineState
<1>3. ColdSpec!End
  BY <1>1, <1>2 DEF EndJob, ColdSpec!End
<1> QED
  BY <1>3 DEF ColdSpec!Next

\* The step that reaches "sample" has computed the logits of the whole context.
LEMMA ReadyIsCompute ==
    ASSUME SampledFromAll', EngineState \in {"working", "out"}, pc # "idle",
           pc' = "sample", toks' = toks
    PROVE  ColdSpec!Next
<1>1. ~ReadsAstray'
  BY DEF SampledFromAll
<1>2. EngineState' = "ready"
  BY DEF EngineState
<1>3. ColdSpec!Compute
  BY <1>1, <1>2 DEF ColdSpec!Compute
<1> QED
  BY <1>3 DEF ColdSpec!Next

\* A sampled token, or a stop token, comes from those logits.
LEMMA SampleIsEmit ==
    ASSUME IInv, SampledFromAll
    PROVE  /\ \A t \in Tokens : SampleToken(t) => ColdSpec!Next
           /\ SampleStop => ColdSpec!Next
<1>1. n \in Nat /\ Len(toks) \in Nat /\ n <= Len(toks) /\ toks \in Seq(Tokens)
  BY LenProperties DEF IInv, TypeOK
<1>2. ASSUME NEW t \in Tokens, SampleToken(t) PROVE ColdSpec!Next
  <2>1. pc = "sample" /\ toks' = Append(toks, t) /\ n' = n /\ pc' \in {"commit", "yielded"}
    BY <1>2 DEF SampleToken, MoreToSample, jobVars
  <2>2. ~ReadsAstray
    BY <2>1 DEF SampledFromAll
  <2>3. Len(toks') > n'
    BY <1>1, <2>1
  <2>4. EngineState = "ready" /\ EngineState' = "out"
    BY <2>1, <2>3 DEF EngineState
  <2>5. ColdSpec!Emit(t)
    BY <2>1, <2>2, <2>4 DEF ColdSpec!Emit
  <2> QED
    BY <2>5 DEF ColdSpec!Next
<1>3. ASSUME SampleStop PROVE ColdSpec!Next
  <2>1. pc = "sample"
    BY <1>3 DEF SampleStop, MoreToSample
  <2>2. CASE Len(toks) # n
    BY <1>3, <2>1, <2>2, EndJobIsEnd DEF SampleStop
  <2>3. CASE Len(toks) = n
    <3>1. pc' = "commit" /\ toks' = toks /\ n' = n
      BY <1>3, <2>3 DEF SampleStop, jobVars
    <3>2. ~ReadsAstray
      BY <2>1 DEF SampledFromAll
    <3>3. EngineState = "ready" /\ EngineState' = "ending"
      BY <2>1, <2>3, <3>1, <1>1 DEF EngineState
    <3>4. ColdSpec!Stop
      BY <2>1, <3>1, <3>2, <3>3 DEF ColdSpec!Stop
    <3> QED
      BY <3>4 DEF ColdSpec!Next
  <2> QED
    BY <2>2, <2>3
<1> QED
  BY <1>2, <1>3

\* Restoring, prefilling and taking the snapshot cannot be seen.
LEMMA PrefillIsStutter ==
    ASSUME Restore \/ PrefillChunk \/ Snapshot \/ (TailToken /\ pc' # "sample")
    PROVE  UNCHANGED ColdSpec!vars
<1>1. /\ pc \in {"restore", "prefill", "snapshot"} /\ pc' \in {"restore", "prefill", "snapshot"}
      /\ toks' = toks
  BY DEF Restore, PrefillChunk, Snapshot, TailToken, Forward
<1> QED
  BY <1>1 DEF EngineState, ColdSpec!vars

\* The ledger is updated between a token and its delivery.
LEMMA CommitIsStutterOrEnd ==
    ASSUME IInv, Commit
    PROVE  [ColdSpec!Next]_(ColdSpec!vars)
<1>1. CASE Len(toks) > n
  <2>1. pc = "commit" /\ pc' = "yielded" /\ toks' = toks /\ n' = n
    BY <1>1 DEF Commit, jobVars
  <2> QED
    BY <1>1, <2>1 DEF EngineState, ColdSpec!vars
<1>2. CASE ~(Len(toks) > n)
  <2>1. EndJob /\ pc # "idle"
    BY <1>2 DEF Commit
  <2> QED
    BY <2>1, EndJobIsEnd
<1> QED
  BY <1>1, <1>2

\* Each step of the cached engine is a step of the cold one or leaves it be.
LEMMA ColdStep ==
    IInv /\ SampledFromAll /\ SampledFromAll' /\ [Next]_vars
        => [ColdSpec!Next]_(ColdSpec!vars)
<1> SUFFICES ASSUME IInv, SampledFromAll, SampledFromAll', [Next]_vars
             PROVE  [ColdSpec!Next]_(ColdSpec!vars)
  OBVIOUS
<1>1. ASSUME NEW ids \in Prompts, Begin(ids) PROVE ColdSpec!Next
  BY <1>1, BeginIsAccept
<1>2. CASE Restore \/ PrefillChunk \/ Snapshot \/ (TailToken /\ pc' # "sample")
  BY <1>2, PrefillIsStutter
<1>3. CASE TailToken /\ pc' = "sample"
  <2>1. EngineState = "working" /\ pc # "idle" /\ toks' = toks
    BY <1>3 DEF TailToken, EngineState
  <2> QED
    BY <1>3, <2>1, ReadyIsCompute
<1>4. CASE (\E t \in Tokens : SampleToken(t)) \/ SampleStop
  BY <1>4, SampleIsEmit
<1>5. CASE Raise \/ Exhausted \/ Finish \/ FenceTimeout
  <2>1. EndJob /\ pc # "idle"
    BY <1>5 DEF Raise, Exhausted, Finish, FenceTimeout, MoreToSample
  <2> QED
    BY <2>1, EndJobIsEnd
<1>6. CASE Commit
  BY <1>6, CommitIsStutterOrEnd
<1>7. CASE Resume
  <2>1. pc = "yielded" /\ pc' = "sample" /\ toks' = toks
    BY <1>7 DEF Resume
  <2>2. Len(toks) > n
    BY <2>1, LenProperties DEF IInv, TypeOK, Phases
  <2>3. EngineState = "out"
    BY <2>1, <2>2 DEF EngineState
  <2> QED
    BY <2>1, <2>3, ReadyIsCompute
<1>8. CASE UNCHANGED vars
  BY <1>8 DEF vars, kvVars, jobVars, EngineState, ColdSpec!vars, ReadsAstray, Trusted,
     DecodeReadsCold, Cold, nfull
<1> QED
  BY <1>1, <1>2, <1>3, <1>4, <1>5, <1>6, <1>7, <1>8 DEF Next

\* Nobody can tell the engine of vk_engine.py's generate and its prefix cache
\* from one that prefills every prompt from nothing (test_prefix_cache.py:1-2),
\* short, empty or cut to fit, whatever its logits are, but for the jobs that
\* restore a snapshot the ledger does not describe.
THEOREM CacheInvisible == Spec => ImplementsColdEngine
<1>1. Init => ColdSpec!Init
  BY ColdInit
<1>2. IInv /\ SampledFromAll /\ SampledFromAll' /\ [Next]_vars
          => [ColdSpec!Next]_(ColdSpec!vars)
  BY ColdStep
<1>3. IInv => SampledFromAll
  BY LogitsWhole
<1> QED
  BY <1>1, <1>2, <1>3, Inductive, PTL DEF Spec, ImplementsColdEngine, ColdSpec!Spec

-----------------------------------------------------------------------------
(* When there are no such jobs *)

\* Prompts that fit the context, and logits that are numbers: the cases in
\* which the ledger is not cut loose from the snapshot.
NothingCutsLoose ==
    /\ NaNPrompts = {}
    /\ \A ids \in Prompts : Len(ids) < MAXT

\* What is committed is what was snapshotted, and only a job that died with the
\* device can have separated them; a dead device computes no logits.
InStep ==
    /\ snapArg = snap
    /\ tainted => wedged
    /\ wedged => pc \notin {"sample", "yielded"}
    /\ wedged /\ pc = "commit" => Len(toks) = n

\* The plan of a prompt that fits is not changed by the engine.
LEMMA BeginInStep ==
    ASSUME NothingCutsLoose, IInv, InStep, NEW ids \in Prompts, Begin(ids)
    PROVE  InStep'
<1>1. ids \in Seq(Tokens) /\ Len(ids) \in Nat /\ ~TooLong(ids)
  BY PromptsAssumption, LenProperties, Sizes DEF NothingCutsLoose, TooLong
<1>2. /\ PlanSnap(ids) \in 0 .. CMAX /\ PlanSnap(ids) <= Full(ids)
      /\ Full(ids) \in Nat /\ CMAX \in Nat
  BY <1>1, PlanFits, FullFits, CmaxTimes DEF IInv, Full
<1>3. EngineSnap(ids) = PlanSnap(ids)
  BY <1>1, <1>2 DEF EngineSnap, Min2
<1>4. ids = <<>> => toks' = <<>> /\ n' = 0 /\ Len(<<>>) = 0
  BY <1>1 DEF Begin, Truncate
<1> QED
  BY <1>3, <1>4 DEF Begin, InStep

\* Every step of a job keeps commit and snapshot together.
LEMMA NextInStep ==
    ASSUME NothingCutsLoose
    PROVE  IInv /\ InStep /\ [Next]_vars => InStep'
<1> SUFFICES ASSUME IInv, InStep, [Next]_vars PROVE InStep'
  OBVIOUS
<1>1. ASSUME NEW ids \in Prompts, Begin(ids) PROVE InStep'
  BY <1>1, BeginInStep
<1>2. CASE Restore \/ PrefillChunk \/ Snapshot \/ TailToken \/ Resume
  BY <1>2 DEF Restore, PrefillChunk, Snapshot, TailToken, Resume, Forward, InStep,
     kvVars, snapVars, jobVars
<1>3. ASSUME NEW t \in Tokens, SampleToken(t) PROVE InStep'
  BY <1>3 DEF SampleToken, MoreToSample, InStep, kvVars, snapVars, jobVars
<1>4. CASE SampleStop \/ Exhausted \/ Finish
  BY <1>4 DEF SampleStop, Exhausted, Finish, MoreToSample, EndJob, InStep, jobVars
<1>5. CASE Raise
  BY <1>5 DEF Raise, NothingCutsLoose
<1>6. CASE FenceTimeout
  BY <1>6 DEF FenceTimeout, EndJob, InStep
<1>7. CASE Commit
  <2>1. snap \in 0 .. CMAX /\ n \in 0 .. Len(toks) /\ Len(toks) \in Nat
    BY LenProperties DEF IInv, TypeOK
  <2>2. tainted' => tainted
    <3>1. snapArg > 0 => snap # 0
      BY <2>1 DEF InStep
    <3> QED
      BY <1>7, <3>1, Zenon DEF Commit
  <2>3. CASE Len(toks) > n
    BY <1>7, <2>1, <2>2, <2>3 DEF Commit, InStep, jobVars
  <2>4. CASE ~(Len(toks) > n)
    BY <1>7, <2>2, <2>4 DEF Commit, EndJob, InStep
  <2> QED
    BY <2>3, <2>4
<1>8. CASE UNCHANGED vars
  BY <1>8 DEF vars, jobVars, InStep
<1> QED
  BY <1>1, <1>2, <1>3, <1>4, <1>5, <1>6, <1>7, <1>8 DEF Next

\* A job that samples has a live device, so its snapshot is the ledger's.
LEMMA InStepReads == IInv /\ InStep => ReuseEqualsCold
<1> SUFFICES ASSUME IInv, InStep, pc = "sample" PROVE DecodeReadsCold
  BY DEF ReuseEqualsCold
<1>1. Trusted
  BY DEF InStep, Trusted
<1> QED
  BY <1>1, LogitsWhole DEF SampledFromAll, ReadsAstray

\* As long as prompts fit and logits are numbers there are none: every token of
\* every job, reuse or not, comes from what a cold prefill leaves
\* (test_prefix_cache.py:1-2).
THEOREM ReuseIsCold ==
    ASSUME NothingCutsLoose
    PROVE  Spec => []ReuseEqualsCold
<1>1. Init => InStep
  BY DEF Init, InStep
<1>2. IInv /\ InStep /\ [Next]_vars => InStep'
  BY NextInStep
<1>3. IInv /\ InStep => ReuseEqualsCold
  BY InStepReads
<1> QED
  BY <1>1, <1>2, <1>3, Inductive, PTL DEF Spec

-----------------------------------------------------------------------------
(* One turn warms the cache *)

\* The chunks of a request's prompt that the snapshot can hold.
Cacheable == Min2(Full(req), CMAX)

\* Committed from the first token a job has delivered on.
Committed == pc = "yielded" \/ (pc = "sample" /\ Len(toks) > n)

\* Up to the commit, the ledger is the one the job was planned with; from then
\* on it names the whole cacheable prefix of the job's prompt.
Warmth ==
    /\ pc # "idle" /\ ~Committed => snapArg = PlanSnap(req)
    /\ Committed /\ 0 < Cacheable =>
           pref = [ids |-> SubSeq(req, 1, Cacheable * MC), chunks |-> Cacheable]

\* What the commit leaves: the new prefix, or the one that was reused whole.
LEMMA CommitWarms ==
    ASSUME IInv, Warmth, Commit
    PROVE  Warmth'
<1>1. CASE ~(Len(toks) > n)
  BY <1>1 DEF Commit, EndJob, Warmth, Committed
<1>2. CASE Len(toks) > n
  <2>1. /\ pc = "commit" /\ pc' = "yielded" /\ req' = req /\ snapArg = PlanSnap(req)
        /\ pref' = IF snapArg > 0
                   THEN [ids |-> SubSeq(req, 1, snapArg * MC), chunks |-> snapArg]
                   ELSE pref
    BY <1>2 DEF Commit, Warmth, Committed, jobVars
  <2>2. Cacheable' = Cacheable
    BY <2>1 DEF Cacheable
  <2>3. /\ req \in Seq(Tokens) /\ Full(req) \in Nat /\ CMAX \in Nat /\ Cacheable \in Nat
        /\ Cacheable <= CMAX /\ Cacheable <= Full(req)
    <3>1. req \in Seq(Tokens) /\ Len(req) \in Nat
      BY LenProperties DEF IInv, TypeOK
    <3>2. Full(req) \in Nat /\ CMAX \in Nat
      BY <3>1, FullFits, CmaxTimes DEF Full
    <3> QED
      BY <3>1, <3>2 DEF Cacheable, Min2
  <2>4. /\ PlanReuse(req) \in 0 .. CMAX /\ PlanReuse(req) <= Full(req)
        /\ 0 < PlanReuse(req) => PlanReuse(req) = pref.chunks
                                 /\ SubSeq(req, 1, pref.chunks * MC) = pref.ids
    BY <2>3, PlanFits DEF IInv
  <2>5. CASE PlanReuse(req) < Cacheable
    <3>1. snapArg = Cacheable
      BY <2>1, <2>5 DEF PlanSnap, Cacheable
    <3> QED
      BY <2>1, <2>2, <2>3, <3>1 DEF Warmth, Committed
  <2>6. CASE ~(PlanReuse(req) < Cacheable)
    <3>1. snapArg = 0
      BY <2>1, <2>3, <2>4, <2>6 DEF PlanSnap, Cacheable
    <3>2. PlanReuse(req) = Cacheable
      BY <2>3, <2>4, <2>6 DEF Cacheable, Min2
    <3>3. 0 < Cacheable => pref = [ids |-> SubSeq(req, 1, Cacheable * MC), chunks |-> Cacheable]
      BY <2>3, <2>4, <3>2 DEF IInv, TypeOK
    <3> QED
      BY <2>1, <2>2, <3>1, <3>3 DEF Warmth, Committed
  <2> QED
    BY <2>5, <2>6
<1> QED
  BY <1>1, <1>2

\* Every other step leaves ledger and plan alone.
LEMMA NextWarms == IInv /\ Warmth /\ [Next]_vars => Warmth'
<1> SUFFICES ASSUME IInv, Warmth, [Next]_vars PROVE Warmth'
  OBVIOUS
<1>0. n \in Nat /\ Len(toks) \in Nat /\ n <= Len(toks) /\ toks \in Seq(Tokens)
  BY LenProperties DEF IInv, TypeOK
<1>1. ASSUME UNCHANGED <<pref, req, snapArg>>, pc # "idle", Committed' <=> Committed
      PROVE  Warmth'
  <2>1. PlanSnap(req)' = PlanSnap(req) /\ Cacheable' = Cacheable
    BY <1>1 DEF PlanSnap, PlanReuse, Reusable, Full, Cacheable
  <2> QED
    BY <1>1, <2>1 DEF Warmth
<1>2. ASSUME NEW ids \in Prompts, Begin(ids) PROVE Warmth'
  <2>1. /\ pc' \in {"commit", "restore", "prefill"} /\ req' = ids /\ snapArg' = PlanSnap(ids)
        /\ pref' = pref
    BY <1>2 DEF Begin
  <2>2. PlanSnap(ids)' = PlanSnap(ids)
    BY <2>1 DEF PlanSnap, PlanReuse, Reusable, Full
  <2> QED
    BY <2>1, <2>2 DEF Warmth, Committed
<1>3. CASE Restore \/ PrefillChunk \/ Snapshot
  <2>1. UNCHANGED <<pref, req, snapArg>> /\ pc # "idle" /\ ~Committed /\ ~Committed'
    BY <1>3 DEF Restore, PrefillChunk, Snapshot, Committed, jobVars
  <2> QED
    BY <1>1, <2>1
<1>4. CASE TailToken
  <2>1. n = Len(toks)
    BY <1>4 DEF TailToken, IInv, Phases
  <2>2. UNCHANGED <<pref, req, snapArg>> /\ pc # "idle" /\ ~Committed /\ ~Committed'
    BY <1>0, <1>4, <2>1 DEF TailToken, Committed, jobVars
  <2> QED
    BY <1>1, <2>2
<1>5. ASSUME NEW t \in Tokens, SampleToken(t) PROVE Warmth'
  <2>1. UNCHANGED <<pref, req, snapArg>> /\ pc = "sample" /\ n' = n
        /\ pc' = IF Len(toks) = n THEN "commit" ELSE "yielded"
    BY <1>5 DEF SampleToken, MoreToSample, jobVars
  <2>2. Committed' <=> Committed
    BY <1>0, <2>1 DEF Committed
  <2> QED
    BY <1>1, <2>1, <2>2
<1>6. CASE Resume
  <2>1. UNCHANGED <<pref, req, snapArg, n, toks>> /\ pc = "yielded" /\ pc' = "sample"
    BY <1>6 DEF Resume, jobVars
  <2>2. Len(toks) > n
    BY <1>0, <2>1 DEF IInv, TypeOK, Phases
  <2>3. Committed /\ Committed'
    BY <2>1, <2>2 DEF Committed
  <2> QED
    BY <1>1, <2>1, <2>3
<1>7. CASE Commit
  BY <1>7, CommitWarms
<1>8. CASE SampleStop
  <2>1. CASE Len(toks) = n
    <3>1. UNCHANGED <<pref, req, snapArg>> /\ pc = "sample" /\ pc' = "commit"
      BY <1>8, <2>1 DEF SampleStop, MoreToSample, jobVars
    <3> QED
      BY <1>0, <1>1, <2>1, <3>1 DEF Committed
  <2>2. CASE Len(toks) # n
    BY <1>8, <2>2 DEF SampleStop, EndJob, Warmth, Committed
  <2> QED
    BY <2>1, <2>2
<1>9. CASE Raise \/ Exhausted \/ Finish \/ FenceTimeout
  BY <1>9 DEF Raise, Exhausted, Finish, FenceTimeout, EndJob, Warmth, Committed
<1>10. CASE UNCHANGED vars
  BY <1>10 DEF vars, jobVars, Warmth, Committed, Cacheable, PlanSnap, PlanReuse, Reusable, Full
<1> QED
  BY <1>2, <1>3, <1>4, <1>5, <1>6, <1>7, <1>8, <1>9, <1>10 DEF Next

\* A prompt that starts with what the ledger names reuses all of it.
LEMMA WarmReuses == IInv /\ Warmth => WarmAfterOneTurn
<1> SUFFICES ASSUME IInv, Warmth, pc = "yielded", 0 < Cacheable, NEW ids \in Prompts,
                    Full(ids) >= Cacheable,
                    SubSeq(ids, 1, Cacheable * MC) = SubSeq(req, 1, Cacheable * MC)
             PROVE  PlanReuse(ids) = Cacheable
  BY DEF WarmAfterOneTurn, Cacheable
<1>1. pref = [ids |-> SubSeq(req, 1, Cacheable * MC), chunks |-> Cacheable]
  BY DEF Warmth, Committed
<1> QED
  BY <1>1 DEF PlanReuse, Reusable

\* "the very next request that shares it reuses immediately"
\* (serve.py:148-149), whatever was cached before and whatever failed.
THEOREM WarmCorrect == Spec => []WarmAfterOneTurn
<1>1. Init => Warmth
  BY DEF Init, Warmth, Committed
<1>2. IInv /\ Warmth /\ [Next]_vars => Warmth'
  BY NextWarms
<1>3. IInv /\ Warmth => WarmAfterOneTurn
  BY WarmReuses
<1> QED
  BY <1>1, <1>2, <1>3, Inductive, PTL DEF Spec
=============================================================================
