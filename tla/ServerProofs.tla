---------------------------- MODULE ServerProofs ----------------------------
(***************************************************************************)
(* Proofs about Server: for any finite set of requests, any number of      *)
(* threads and any number of chunks, one generation at a time is inside    *)
(* the engine, the locks are held by exactly the handlers inside them, and *)
(* the latch is set by nothing but a wedge.                                *)
(***************************************************************************)
EXTENDS Server, FiniteSetTheorems, TLAPS

-----------------------------------------------------------------------------
(* Threads and the queue *)

\* The handlers that run are finitely many.
LEMMA BusyFinite == IsFiniteSet(Busy)
BY FS_Subset, ServerAssumption DEF Busy

\* A step that starts no handler keeps the bound of the pool.
LEMMA NoMoreBusy ==
    ASSUME ThreadBound, Busy' \subseteq Busy
    PROVE  ThreadBound'
<1>1. IsFiniteSet(Busy)
  BY BusyFinite
<1>2. IsFiniteSet(Busy') /\ Cardinality(Busy') <= Cardinality(Busy)
  BY <1>1, FS_Subset
<1>3. Cardinality(Busy) \in Nat /\ Cardinality(Busy') \in Nat
  BY <1>1, <1>2, FS_CardinalityType
<1> QED
  BY <1>2, <1>3, ServerAssumption DEF ThreadBound

\* Of a queue to which r is added at the end.
LEMMA Appended ==
    ASSUME NEW q \in Seq(Requests), NEW r \in Requests
    PROVE  /\ Append(q, r) \in Seq(Requests)
           /\ Len(Append(q, r)) = Len(q) + 1 /\ Len(q) \in Nat
           /\ \A i \in 1 .. Len(q) : Append(q, r)[i] = q[i]
           /\ Append(q, r)[Len(q) + 1] = r
OBVIOUS

\* Of a queue that loses its first element.
LEMMA Tailed ==
    ASSUME NEW q \in Seq(Requests), q # <<>>
    PROVE  /\ Head(q) \in Requests /\ Head(q) = q[1]
           /\ Tail(q) \in Seq(Requests)
           /\ Len(q) \in Nat \ {0} /\ Len(Tail(q)) = Len(q) - 1
           /\ \A i \in 1 .. Len(q) - 1 : Tail(q)[i] = q[i + 1]
OBVIOUS

\* Of two queues, one behind the other.
LEMMA Joined ==
    ASSUME NEW a \in Seq(Requests), NEW b \in Seq(Requests)
    PROVE  /\ a \o b \in Seq(Requests) /\ Len(a \o b) = Len(a) + Len(b)
           /\ \A i \in 1 .. Len(a) + Len(b) :
                  (a \o b)[i] = IF i <= Len(a) THEN a[i] ELSE b[i - Len(a)]
OBVIOUS

\* Of a queue that loses its k-th element.
LEMMA Removed ==
    ASSUME NEW q \in Seq(Requests), NEW k \in 1 .. Len(q)
    PROVE  LET p == SubSeq(q, 1, k - 1) \o SubSeq(q, k + 1, Len(q))
           IN  /\ p \in Seq(Requests)
               /\ Len(p) = Len(q) - 1
               /\ \A i \in 1 .. Len(p) : p[i] = IF i < k THEN q[i] ELSE q[i + 1]
<1> DEFINE a == SubSeq(q, 1, k - 1)
           b == SubSeq(q, k + 1, Len(q))
<1>1. a \in Seq(Requests) /\ Len(a) = k - 1 /\ \A i \in 1 .. k - 1 : a[i] = q[i]
  OBVIOUS
<1>2. b \in Seq(Requests) /\ Len(b) = Len(q) - k /\ \A i \in 1 .. Len(q) - k : b[i] = q[k + i]
  OBVIOUS
<1> HIDE DEF a, b
<1>3. /\ a \o b \in Seq(Requests) /\ Len(a \o b) = Len(a) + Len(b)
      /\ \A i \in 1 .. Len(a) + Len(b) :
             (a \o b)[i] = IF i <= Len(a) THEN a[i] ELSE b[i - Len(a)]
  BY <1>1, <1>2, Joined
<1>4. Len(q) \in Nat /\ k \in Nat /\ 1 <= k /\ k <= Len(q)
  OBVIOUS
<1>5. Len(a \o b) = Len(q) - 1
  BY <1>1, <1>2, <1>3, <1>4
<1>6. ASSUME NEW i \in 1 .. Len(q) - 1
      PROVE  (a \o b)[i] = IF i < k THEN q[i] ELSE q[i + 1]
  <2>0. i \in 1 .. Len(a) + Len(b)
    BY <1>1, <1>2, <1>4
  <2>1. CASE i < k
    BY <1>1, <1>3, <1>4, <2>0, <2>1
  <2>2. CASE ~(i < k)
    <3>1. i - (k - 1) \in 1 .. Len(q) - k /\ ~(i <= Len(a))
      BY <1>1, <1>4, <2>2
    <3>2. (a \o b)[i] = b[i - (k - 1)]
      BY <1>1, <1>3, <2>0, <3>1
    <3>3. b[i - (k - 1)] = q[k + (i - (k - 1))] /\ k + (i - (k - 1)) = i + 1
      BY <1>2, <1>4, <3>1
    <3> QED
      BY <2>2, <3>2, <3>3
  <2> QED
    BY <2>1, <2>2
<1> QED
  BY <1>3, <1>5, <1>6 DEF a, b

-----------------------------------------------------------------------------
(* What a step of one request leaves alone *)

\* The variables the invariant reads of every other request are unchanged, and a
\* lock changes hands only between r and nobody.
Only(r) ==
    /\ \A q \in Requests \ {r} :
           /\ kind'[q] = kind[q] /\ st'[q] = st[q]
           /\ at'[q] = at[q] /\ left'[q] = left[q]
    /\ gpuLock' = gpuLock \/ (gpuLock \in {None, r} /\ gpuLock' \in {None, r})
    /\ genLock' = genLock \/ (genLock \in {None, r} /\ genLock' \in {None, r})
    /\ dead' = dead

\* A handler's places and locks are its own: a step of another leaves them.
LEMMA Elsewhere ==
    ASSUME NEW r \in Requests, NEW q \in Requests, q # r, Only(r), Places(q), Holding(q)
    PROVE  Places(q)' /\ Holding(q)'
<1>1. /\ kind'[q] = kind[q] /\ st'[q] = st[q] /\ at'[q] = at[q] /\ left'[q] = left[q]
      /\ (gpuLock' = q <=> gpuLock = q) /\ (genLock' = q <=> genLock = q) /\ dead' = dead
  BY ServerAssumption DEF Only, None
<1> QED
  BY <1>1 DEF Places, Holding, Live, UsesGPU, Completion, Streams

\* So for a step of one request only that request has to be looked at.
LEMMA OneMoves ==
    ASSUME IInv, NEW r \in Requests, Only(r), Places(r)', Holding(r)',
           TypeOK', ThreadBound', PoolIsQueued', LatchMeansWedge'
    PROVE  IInv'
<1>1. \A q \in Requests : Places(q)' /\ Holding(q)'
  <2> SUFFICES ASSUME NEW q \in Requests PROVE Places(q)' /\ Holding(q)'
    OBVIOUS
  <2>1. CASE q = r
    BY <2>1
  <2>2. CASE q # r
    BY <2>2, Elsewhere DEF IInv, LocksMatchHandlers
  <2> QED
    BY <2>1, <2>2
<1> QED
  BY <1>1 DEF IInv, LocksMatchHandlers

\* Nobody enters or leaves the queue.
LEMMA SameQueue ==
    ASSUME PoolIsQueued, pool' = pool,
           \A q \in Requests : st'[q] = "queued" <=> st[q] = "queued"
    PROVE  PoolIsQueued'
BY DEF PoolIsQueued

\* r joins the end of the queue.
LEMMA Queues ==
    ASSUME PoolIsQueued, pool \in Seq(Requests), NEW r \in Requests, st[r] # "queued",
           pool' = Append(pool, r), st'[r] = "queued",
           \A q \in Requests \ {r} : st'[q] = st[q]
    PROVE  PoolIsQueued'
<1>1. /\ Len(pool') = Len(pool) + 1 /\ Len(pool) \in Nat
      /\ \A i \in 1 .. Len(pool) : pool'[i] = pool[i]
      /\ pool'[Len(pool) + 1] = r
  BY Appended
<1>2. \A i \in 1 .. Len(pool) : pool[i] # r /\ pool[i] \in Requests
  BY DEF PoolIsQueued
<1>3. \A i, j \in 1 .. Len(pool') : pool'[i] = pool'[j] => i = j
  BY <1>1, <1>2 DEF PoolIsQueued
<1>4. ASSUME NEW q \in Requests
      PROVE  st'[q] = "queued" <=> \E i \in 1 .. Len(pool') : pool'[i] = q
  <2>1. CASE q = r
    BY <1>1, <2>1
  <2>2. CASE q # r
    BY <1>1, <2>2 DEF PoolIsQueued
  <2> QED
    BY <2>1, <2>2
<1> QED
  BY <1>3, <1>4 DEF PoolIsQueued

\* The k-th of the queue leaves it.
LEMMA Unqueues ==
    ASSUME PoolIsQueued, pool \in Seq(Requests), NEW k \in 1 .. Len(pool),
           Len(pool') = Len(pool) - 1,
           \A i \in 1 .. Len(pool) - 1 : pool'[i] = pool[IF i < k THEN i ELSE i + 1],
           st'[pool[k]] # "queued",
           \A q \in Requests \ {pool[k]} : st'[q] = st[q]
    PROVE  PoolIsQueued'
<1> DEFINE N == Len(pool)
           old(i) == IF i < k THEN i ELSE i + 1
           new(i) == IF i < k THEN i ELSE i - 1
<1>1. N \in Nat /\ k \in Nat /\ 1 <= k /\ k <= N /\ pool[k] \in Requests
  OBVIOUS
<1>2. Len(pool') = N - 1 /\ \A i \in 1 .. N - 1 : pool'[i] = pool[old(i)]
  OBVIOUS
<1>3. \A i, j \in 1 .. N : pool[i] = pool[j] => i = j
  BY DEF PoolIsQueued
<1>4. \A q \in Requests : st[q] = "queued" <=> \E i \in 1 .. N : pool[i] = q
  BY DEF PoolIsQueued
<1>5. \A i \in 1 .. N - 1 : old(i) \in 1 .. N /\ old(i) # k
  BY <1>1
<1>6. \A i, j \in 1 .. N - 1 : old(i) = old(j) => i = j
  BY <1>1
<1>7. \A i \in 1 .. N : i # k => new(i) \in 1 .. N - 1 /\ old(new(i)) = i
  BY <1>1
<1>8. k \in 1 .. N
  OBVIOUS
<1> HIDE DEF N, old, new
<1>9. \A i, j \in 1 .. N - 1 : pool'[i] = pool'[j] => i = j
  <2> SUFFICES ASSUME NEW i \in 1 .. N - 1, NEW j \in 1 .. N - 1, pool'[i] = pool'[j]
               PROVE  i = j
    OBVIOUS
  <2>1. pool[old(i)] = pool[old(j)] /\ old(i) \in 1 .. N /\ old(j) \in 1 .. N
    BY <1>2, <1>5
  <2>2. old(i) = old(j)
    BY <1>3, <2>1
  <2> QED
    BY <1>6, <2>2
<1>10. ASSUME NEW q \in Requests
       PROVE  st'[q] = "queued" <=> \E i \in 1 .. N - 1 : pool'[i] = q
  <2>1. CASE q = pool[k]
    <3>1. ASSUME NEW i \in 1 .. N - 1 PROVE pool'[i] # q
      <4>1. pool'[i] = pool[old(i)] /\ old(i) \in 1 .. N /\ old(i) # k
        BY <1>2, <1>5
      <4>2. pool[old(i)] # pool[k]
        BY <1>3, <1>8, <4>1
      <4> QED
        BY <2>1, <4>1, <4>2
    <3> QED
      BY <2>1, <3>1
  <2>2. CASE q # pool[k]
    <3>1. st'[q] = st[q]
      BY <2>2
    <3>2. ASSUME NEW i \in 1 .. N, pool[i] = q
          PROVE  \E j \in 1 .. N - 1 : pool'[j] = q
      <4>1. i # k
        BY <2>2, <3>2
      <4>2. new(i) \in 1 .. N - 1 /\ pool'[new(i)] = q
        BY <1>2, <1>7, <3>2, <4>1
      <4> QED
        BY <4>2
    <3>3. ASSUME NEW j \in 1 .. N - 1, pool'[j] = q
          PROVE  \E i \in 1 .. N : pool[i] = q
      BY <1>2, <1>5, <3>3
    <3> QED
      BY <1>4, <3>1, <3>2, <3>3
  <2> QED
    BY <2>1, <2>2
<1> QED
  BY <1>2, <1>9, <1>10 DEF PoolIsQueued

\* A step after which the latch is no less set, and set for a dead device only.
LEMMA LatchKept ==
    ASSUME LatchMeansWedge, latch => latch', latch' => dead',
           \A q \in Requests : outcome'[q] = "refused" => outcome[q] = "refused" \/ latch'
    PROVE  LatchMeansWedge'
BY DEF LatchMeansWedge

-----------------------------------------------------------------------------
(* Every step preserves the invariant *)

\* The first events of a stream hold no lock.
LEMMA HelloStep ==
    ASSUME IInv, NEW r \in Requests, Hello(r)
    PROVE  IInv'
<1>1. TypeOK'
  BY ServerAssumption DEF IInv, TypeOK, Points, None, Running, Hello, Park, AllKinds
<1>2. ThreadBound'
  <2>1. Busy' \subseteq Busy
    BY DEF IInv, TypeOK, Points, None, Running, Hello, Park, Busy, InPool
  <2> QED
    BY <2>1, NoMoreBusy DEF IInv
<1>3. PoolIsQueued'
  <2>1. \A q \in Requests : st'[q] = "queued" <=> st[q] = "queued"
    BY DEF IInv, TypeOK, Points, None, Running, Hello, Park
  <2> QED
    BY <2>1, SameQueue DEF IInv, Hello, Park
<1>4. Only(r)
  BY DEF IInv, TypeOK, Points, None, Running, Hello, Park, Only
<1>5. Places(r)' /\ Holding(r)'
  <2>1. Places(r) /\ Holding(r)
    BY DEF IInv, LocksMatchHandlers
  <2> QED
    BY <2>1, ServerAssumption DEF IInv, TypeOK, Points, None, Running, Hello, Park, Places, Holding, Live, Streams, UsesGPU, Completion, AllKinds
<1>6. LatchMeansWedge'
  <2>1. \A q \in Requests : outcome'[q] = "refused" => outcome[q] = "refused"
    BY DEF IInv, TypeOK, Points, None, Running, Hello, Park
  <2> QED
    BY <2>1, LatchKept DEF IInv, LatchMeansWedge, Hello, Park
<1> QED
  BY <1>1, <1>2, <1>3, <1>4, <1>5, <1>6, OneMoves

\* GPU goes from nobody to a handler of its kind.
LEMMA TakeGPUStep ==
    ASSUME IInv, NEW r \in Requests, TakeGPU(r)
    PROVE  IInv'
<1>1. TypeOK'
  BY ServerAssumption DEF IInv, TypeOK, Points, None, Running, TakeGPU, Park, Continue, AllKinds
<1>2. ThreadBound'
  <2>1. Busy' \subseteq Busy
    BY DEF IInv, TypeOK, Points, None, Running, TakeGPU, Park, Continue, Busy, InPool
  <2> QED
    BY <2>1, NoMoreBusy DEF IInv
<1>3. PoolIsQueued'
  <2>1. \A q \in Requests : st'[q] = "queued" <=> st[q] = "queued"
    BY DEF IInv, TypeOK, Points, None, Running, TakeGPU, Park, Continue
  <2> QED
    BY <2>1, SameQueue DEF IInv, TakeGPU, Park, Continue
<1>4. Only(r)
  BY DEF IInv, TypeOK, Points, None, Running, TakeGPU, Park, Continue, Only
<1>5. Places(r)' /\ Holding(r)'
  <2>1. Places(r) /\ Holding(r)
    BY DEF IInv, LocksMatchHandlers
  <2>2. /\ st[r] = "running" /\ at[r] = "gpu" /\ gpuLock' = r
        /\ kind'[r] = kind[r] /\ left'[r] = left[r] /\ genLock' = genLock
        /\ at'[r] = "gen" /\ st'[r] \in {"running", "parked"}
    BY ServerAssumption DEF IInv, TypeOK, Points, None, Running, TakeGPU, Park, Continue
  <2> QED
    BY <2>1, <2>2, ServerAssumption DEF Places, Holding, Live, Streams, UsesGPU, Completion, None
<1>6. LatchMeansWedge'
  <2>1. \A q \in Requests : outcome'[q] = "refused" => outcome[q] = "refused"
    BY DEF IInv, TypeOK, Points, None, Running, TakeGPU, Park, Continue
  <2> QED
    BY <2>1, LatchKept DEF IInv, LatchMeansWedge, TakeGPU, Park, Continue
<1> QED
  BY <1>1, <1>2, <1>3, <1>4, <1>5, <1>6, OneMoves

\* A completion fails with GPU released.
LEMMA MissingFieldStep ==
    ASSUME IInv, NEW r \in Requests, MissingField(r)
    PROVE  IInv'
<1>1. TypeOK'
  BY ServerAssumption DEF IInv, TypeOK, Points, None, Running, MissingField, Free, Finished, AllKinds
<1>2. ThreadBound'
  <2>1. Busy' \subseteq Busy
    BY DEF IInv, TypeOK, Points, None, Running, MissingField, Free, Finished, Busy, InPool
  <2> QED
    BY <2>1, NoMoreBusy DEF IInv
<1>3. PoolIsQueued'
  <2>1. \A q \in Requests : st'[q] = "queued" <=> st[q] = "queued"
    BY DEF IInv, TypeOK, Points, None, Running, MissingField, Free, Finished
  <2> QED
    BY <2>1, SameQueue DEF IInv, MissingField, Free, Finished
<1>4. Only(r)
  BY DEF IInv, TypeOK, Points, None, Running, MissingField, Free, Finished, Only
<1>5. Places(r)' /\ Holding(r)'
  <2>1. Places(r) /\ Holding(r)
    BY DEF IInv, LocksMatchHandlers
  <2> QED
    BY <2>1, ServerAssumption DEF IInv, TypeOK, Points, None, Running, MissingField, Free, Finished, Places, Holding, Live, Streams, UsesGPU, Completion, AllKinds
<1>6. LatchMeansWedge'
  <2>1. \A q \in Requests : outcome'[q] = "refused" => outcome[q] = "refused"
    BY DEF IInv, TypeOK, Points, None, Running, MissingField, Free, Finished
  <2> QED
    BY <2>1, LatchKept DEF IInv, LatchMeansWedge, MissingField, Free, Finished
<1> QED
  BY <1>1, <1>2, <1>3, <1>4, <1>5, <1>6, OneMoves

\* _gen_lock goes from nobody to a handler that enters the engine.
LEMMA TakeGenStep ==
    ASSUME IInv, NEW r \in Requests, TakeGen(r)
    PROVE  IInv'
<1>1. TypeOK'
  BY ServerAssumption DEF IInv, TypeOK, Points, None, Running, TakeGen, Continue, AllKinds
<1>2. ThreadBound'
  <2>1. Busy' \subseteq Busy
    BY DEF IInv, TypeOK, Points, None, Running, TakeGen, Continue, Busy, InPool
  <2> QED
    BY <2>1, NoMoreBusy DEF IInv
<1>3. PoolIsQueued'
  <2>1. \A q \in Requests : st'[q] = "queued" <=> st[q] = "queued"
    BY DEF IInv, TypeOK, Points, None, Running, TakeGen, Continue
  <2> QED
    BY <2>1, SameQueue DEF IInv, TakeGen, Continue
<1>4. Only(r)
  BY DEF IInv, TypeOK, Points, None, Running, TakeGen, Continue, Only
<1>5. Places(r)' /\ Holding(r)'
  <2>1. Places(r) /\ Holding(r)
    BY DEF IInv, LocksMatchHandlers
  <2> QED
    BY <2>1, ServerAssumption DEF IInv, TypeOK, Points, None, Running, TakeGen, Continue, Places, Holding, Live, Streams, UsesGPU, Completion, AllKinds
<1>6. LatchMeansWedge'
  <2>1. \A q \in Requests : outcome'[q] = "refused" => outcome[q] = "refused"
    BY DEF IInv, TypeOK, Points, None, Running, TakeGen, Continue
  <2> QED
    BY <2>1, LatchKept DEF IInv, LatchMeansWedge, TakeGen, Continue
<1> QED
  BY <1>1, <1>2, <1>3, <1>4, <1>5, <1>6, OneMoves

\* A chunk less is left; the locks stay.
LEMMA SubmitStep ==
    ASSUME IInv, NEW r \in Requests, Submit(r)
    PROVE  IInv'
<1>1. TypeOK'
  <2>1. left[r] \in 1 .. Steps /\ left[r] - 1 \in 0 .. Steps
    <3>1. left[r] > 0
      <4>1. Places(r)
        BY DEF IInv
      <4> QED
        BY <4>1 DEF Submit, Running, Places
    <3>2. left[r] \in 0 .. Steps
      BY DEF IInv, TypeOK
    <3> QED
      BY <3>1, <3>2, ServerAssumption
  <2> QED
    BY <2>1 DEF IInv, TypeOK, Points, None, Running, Submit, Park, Continue
<1>2. ThreadBound'
  <2>1. Busy' \subseteq Busy
    BY DEF IInv, TypeOK, Points, None, Running, Submit, Park, Continue, Busy, InPool
  <2> QED
    BY <2>1, NoMoreBusy DEF IInv
<1>3. PoolIsQueued'
  <2>1. \A q \in Requests : st'[q] = "queued" <=> st[q] = "queued"
    BY DEF IInv, TypeOK, Points, None, Running, Submit, Park, Continue
  <2> QED
    BY <2>1, SameQueue DEF IInv, Submit, Park, Continue
<1>4. Only(r)
  BY DEF IInv, TypeOK, Points, None, Running, Submit, Park, Continue, Only
<1>5. Places(r)' /\ Holding(r)'
  <2>1. Places(r) /\ Holding(r)
    BY DEF IInv, LocksMatchHandlers
  <2>2. /\ st[r] = "running" /\ at[r] = "engine" /\ left[r] \in 0 .. Steps
        /\ kind'[r] = kind[r] /\ left'[r] = left[r] - 1
        /\ genLock' = genLock /\ gpuLock' = gpuLock
        /\ at'[r] = IF left[r] = 1 THEN "finish" ELSE "engine"
        /\ st'[r] \in {"running", "parked"}
    BY ServerAssumption DEF IInv, TypeOK, Points, None, Running, Submit, Park, Continue
  <2> QED
    BY <2>1, <2>2, ServerAssumption DEF Places, Holding, Live, Streams, UsesGPU, Completion, None
<1>6. LatchMeansWedge'
  <2>1. \A q \in Requests : outcome'[q] = "refused" => outcome[q] = "refused"
    BY DEF IInv, TypeOK, Points, None, Running, Submit, Park, Continue
  <2> QED
    BY <2>1, LatchKept DEF IInv, LatchMeansWedge, Submit, Park, Continue
<1> QED
  BY <1>1, <1>2, <1>3, <1>4, <1>5, <1>6, OneMoves

\* _gen_lock is released by the handler that holds it.
LEMMA FinishStep ==
    ASSUME IInv, NEW r \in Requests, Finish(r)
    PROVE  IInv'
<1>1. TypeOK'
  BY ServerAssumption DEF IInv, TypeOK, Points, None, Running, Finish, Park, Free, Finished, AllKinds
<1>2. ThreadBound'
  <2>1. Busy' \subseteq Busy
    BY DEF IInv, TypeOK, Points, None, Running, Finish, Park, Free, Finished, Busy, InPool
  <2> QED
    BY <2>1, NoMoreBusy DEF IInv
<1>3. PoolIsQueued'
  <2>1. \A q \in Requests : st'[q] = "queued" <=> st[q] = "queued"
    BY DEF IInv, TypeOK, Points, None, Running, Finish, Park, Free, Finished
  <2> QED
    BY <2>1, SameQueue DEF IInv, Finish, Park, Free, Finished
<1>4. Only(r)
  <2>1. genLock = r
    BY DEF IInv, TypeOK, Points, None, Running, Finish, Park, Free, Finished, LocksMatchHandlers, Holding, Live
  <2> QED
    BY <2>1 DEF IInv, TypeOK, Points, None, Running, Finish, Park, Free, Finished, Only
<1>5. Places(r)' /\ Holding(r)'
  <2>1. Places(r) /\ Holding(r)
    BY DEF IInv, LocksMatchHandlers
  <2>2. /\ st[r] = "running" /\ at[r] = "finish"
        /\ kind'[r] = kind[r] /\ left'[r] = left[r] /\ genLock' = "none"
        /\ \/ st'[r] = "parked" /\ at'[r] = "bye" /\ gpuLock' = gpuLock
           \/ st'[r] = "done" /\ at'[r] = "finish" /\ gpuLock' = Free(gpuLock, r)
    BY ServerAssumption DEF IInv, TypeOK, Points, None, Running, Finish, Park, Free, Finished
  <2> QED
    BY <2>1, <2>2, ServerAssumption DEF Places, Holding, Live, Streams, UsesGPU, Completion, None, Free
<1>6. LatchMeansWedge'
  <2>1. \A q \in Requests : outcome'[q] = "refused" => outcome[q] = "refused"
    BY DEF IInv, TypeOK, Points, None, Running, Finish, Park, Free, Finished
  <2> QED
    BY <2>1, LatchKept DEF IInv, LatchMeansWedge, Finish, Park, Free, Finished
<1> QED
  BY <1>1, <1>2, <1>3, <1>4, <1>5, <1>6, OneMoves

\* The last events are sent, and GPU released.
LEMMA ByeStep ==
    ASSUME IInv, NEW r \in Requests, Bye(r)
    PROVE  IInv'
<1>1. TypeOK'
  BY ServerAssumption DEF IInv, TypeOK, Points, None, Running, Bye, Free, Finished, AllKinds
<1>2. ThreadBound'
  <2>1. Busy' \subseteq Busy
    BY DEF IInv, TypeOK, Points, None, Running, Bye, Free, Finished, Busy, InPool
  <2> QED
    BY <2>1, NoMoreBusy DEF IInv
<1>3. PoolIsQueued'
  <2>1. \A q \in Requests : st'[q] = "queued" <=> st[q] = "queued"
    BY DEF IInv, TypeOK, Points, None, Running, Bye, Free, Finished
  <2> QED
    BY <2>1, SameQueue DEF IInv, Bye, Free, Finished
<1>4. Only(r)
  BY DEF IInv, TypeOK, Points, None, Running, Bye, Free, Finished, Only
<1>5. Places(r)' /\ Holding(r)'
  <2>1. Places(r) /\ Holding(r)
    BY DEF IInv, LocksMatchHandlers
  <2> QED
    BY <2>1, ServerAssumption DEF IInv, TypeOK, Points, None, Running, Bye, Free, Finished, Places, Holding, Live, Streams, UsesGPU, Completion, AllKinds
<1>6. LatchMeansWedge'
  <2>1. \A q \in Requests : outcome'[q] = "refused" => outcome[q] = "refused"
    BY DEF IInv, TypeOK, Points, None, Running, Bye, Free, Finished
  <2> QED
    BY <2>1, LatchKept DEF IInv, LatchMeansWedge, Bye, Free, Finished
<1> QED
  BY <1>1, <1>2, <1>3, <1>4, <1>5, <1>6, OneMoves

\* An exception releases both locks, those of others stay.
LEMMA EngineErrorStep ==
    ASSUME IInv, NEW r \in Requests, EngineError(r)
    PROVE  IInv'
<1>1. TypeOK'
  BY ServerAssumption DEF IInv, TypeOK, Points, None, Running, EngineError, Free, Finished, AllKinds
<1>2. ThreadBound'
  <2>1. Busy' \subseteq Busy
    BY DEF IInv, TypeOK, Points, None, Running, EngineError, Free, Finished, Busy, InPool
  <2> QED
    BY <2>1, NoMoreBusy DEF IInv
<1>3. PoolIsQueued'
  <2>1. \A q \in Requests : st'[q] = "queued" <=> st[q] = "queued"
    BY DEF IInv, TypeOK, Points, None, Running, EngineError, Free, Finished
  <2> QED
    BY <2>1, SameQueue DEF IInv, EngineError, Free, Finished
<1>4. Only(r)
  <2>1. genLock = r
    BY DEF IInv, TypeOK, Points, None, Running, EngineError, Free, Finished, LocksMatchHandlers, Holding, Live
  <2> QED
    BY <2>1 DEF IInv, TypeOK, Points, None, Running, EngineError, Free, Finished, Only
<1>5. Places(r)' /\ Holding(r)'
  <2>1. Places(r) /\ Holding(r)
    BY DEF IInv, LocksMatchHandlers
  <2> QED
    BY <2>1, ServerAssumption DEF IInv, TypeOK, Points, None, Running, EngineError, Free, Finished, Places, Holding, Live, Streams, UsesGPU, Completion, AllKinds
<1>6. LatchMeansWedge'
  <2>1. \A q \in Requests : outcome'[q] = "refused" => outcome[q] = "refused"
    BY DEF IInv, TypeOK, Points, None, Running, EngineError, Free, Finished
  <2> QED
    BY <2>1, LatchKept DEF IInv, LatchMeansWedge, EngineError, Free, Finished
<1> QED
  BY <1>1, <1>2, <1>3, <1>4, <1>5, <1>6, OneMoves

\* So does a fence timeout, but for GPU of a stream.
LEMMA FenceTimeoutStep ==
    ASSUME IInv, NEW r \in Requests, FenceTimeout(r)
    PROVE  IInv'
<1>1. TypeOK'
  BY ServerAssumption DEF IInv, TypeOK, Points, None, Running, FenceTimeout, Free, Finished, Continue, Latches, AllKinds
<1>2. ThreadBound'
  <2>1. Busy' \subseteq Busy
    BY DEF IInv, TypeOK, Points, None, Running, FenceTimeout, Free, Finished, Continue, Latches, Busy, InPool
  <2> QED
    BY <2>1, NoMoreBusy DEF IInv
<1>3. PoolIsQueued'
  <2>1. \A q \in Requests : st'[q] = "queued" <=> st[q] = "queued"
    BY DEF IInv, TypeOK, Points, None, Running, FenceTimeout, Free, Finished, Continue, Latches
  <2> QED
    BY <2>1, SameQueue DEF IInv, FenceTimeout, Free, Finished, Continue, Latches
<1>4. Only(r)
  <2>1. genLock = r
    BY DEF IInv, TypeOK, Points, None, Running, FenceTimeout, Free, Finished, Continue, LocksMatchHandlers, Holding, Live
  <2> QED
    BY <2>1 DEF IInv, TypeOK, Points, None, Running, FenceTimeout, Free, Finished, Continue, Only
<1>5. Places(r)' /\ Holding(r)'
  <2>1. Places(r) /\ Holding(r)
    BY DEF IInv, LocksMatchHandlers
  <2> QED
    BY <2>1, ServerAssumption DEF IInv, TypeOK, Points, None, Running, FenceTimeout, Free, Finished, Continue, Latches, Places, Holding, Live, Streams, UsesGPU, Completion, AllKinds
<1>6. LatchMeansWedge'
  <2>1. \A q \in Requests : outcome'[q] = "refused" => outcome[q] = "refused"
    BY DEF IInv, TypeOK, Points, None, Running, FenceTimeout, Free, Finished, Continue, Latches
  <2> QED
    BY <2>1, LatchKept DEF IInv, LatchMeansWedge, FenceTimeout, Free, Finished, Continue, Latches
<1> QED
  BY <1>1, <1>2, <1>3, <1>4, <1>5, <1>6, OneMoves

\* The latch is set by a handler that saw the device dead.
LEMMA MarkStep ==
    ASSUME IInv, NEW r \in Requests, Mark(r)
    PROVE  IInv'
<1>1. TypeOK'
  BY ServerAssumption DEF IInv, TypeOK, Points, None, Running, Mark, Park, Finished, AllKinds
<1>2. ThreadBound'
  <2>1. Busy' \subseteq Busy
    BY DEF IInv, TypeOK, Points, None, Running, Mark, Park, Finished, Busy, InPool
  <2> QED
    BY <2>1, NoMoreBusy DEF IInv
<1>3. PoolIsQueued'
  <2>1. \A q \in Requests : st'[q] = "queued" <=> st[q] = "queued"
    BY DEF IInv, TypeOK, Points, None, Running, Mark, Park, Finished
  <2> QED
    BY <2>1, SameQueue DEF IInv, Mark, Park, Finished
<1>4. Only(r)
  BY DEF IInv, TypeOK, Points, None, Running, Mark, Park, Finished, Only
<1>5. Places(r)' /\ Holding(r)'
  <2>1. Places(r) /\ Holding(r)
    BY DEF IInv, LocksMatchHandlers
  <2> QED
    BY <2>1, ServerAssumption DEF IInv, TypeOK, Points, None, Running, Mark, Park, Finished, Places, Holding, Live, Streams, UsesGPU, Completion, AllKinds
<1>6. LatchMeansWedge'
  <2>1. \A q \in Requests : outcome'[q] = "refused" => outcome[q] = "refused"
    BY DEF IInv, TypeOK, Points, None, Running, Mark, Park, Finished
  <2>2. latch' /\ dead'
    <3>1. Places(r)
      BY DEF IInv
    <3> QED
      BY <3>1 DEF IInv, TypeOK, Points, None, Running, Mark, Places
  <2> QED
    BY <2>1, <2>2, LatchKept DEF IInv, LatchMeansWedge, Mark
<1> QED
  BY <1>1, <1>2, <1>3, <1>4, <1>5, <1>6, OneMoves

\* A refused handler saw the latch; a stream goes back to the queue.
LEMMA GuardStep ==
    ASSUME IInv, NEW r \in Requests, Guard(r)
    PROVE  IInv'
<1>1. TypeOK'
  <2>1. pool' \in Seq(Requests)
    <3>1. Append(pool, r) \in Seq(Requests)
      BY Appended DEF IInv, TypeOK
    <3> QED
      BY <3>1 DEF IInv, TypeOK, Guard, Finished, Continue
  <2> QED
    BY <2>1 DEF IInv, TypeOK, Points, None, Running, Guard, Finished, Continue
<1>2. ThreadBound'
  <2>1. Busy' \subseteq Busy
    BY DEF IInv, TypeOK, Points, None, Running, Guard, Finished, Continue, Busy, InPool
  <2> QED
    BY <2>1, NoMoreBusy DEF IInv
<1>3. PoolIsQueued'
  <2>1. CASE pool' = pool /\ \A q \in Requests : st'[q] = "queued" <=> st[q] = "queued"
    BY <2>1, SameQueue DEF IInv
  <2>2. CASE /\ pool' = Append(pool, r) /\ st'[r] = "queued"
             /\ \A q \in Requests \ {r} : st'[q] = st[q]
    BY <2>2, Queues DEF IInv, TypeOK, Points, None, Running, Guard
  <2> QED
    BY <2>1, <2>2 DEF IInv, TypeOK, Points, None, Running, Guard, Finished, Continue
<1>4. Only(r)
  BY DEF IInv, TypeOK, Points, None, Running, Guard, Park, Continue, Finished, Only
<1>5. Places(r)' /\ Holding(r)'
  <2>1. Places(r) /\ Holding(r)
    BY DEF IInv, LocksMatchHandlers
  <2> QED
    BY <2>1, ServerAssumption DEF IInv, TypeOK, Points, None, Running, Guard, Park, Continue, Finished, Places, Holding, Live, Streams, UsesGPU, Completion, AllKinds
<1>6. LatchMeansWedge'
  <2>1. \A q \in Requests : outcome'[q] = "refused" => outcome[q] = "refused" \/ latch'
    BY DEF IInv, TypeOK, Points, None, Running, Guard, Finished, Continue
  <2> QED
    BY <2>1, LatchKept DEF IInv, LatchMeansWedge, Guard
<1> QED
  BY <1>1, <1>2, <1>3, <1>4, <1>5, <1>6, OneMoves

\* A parked stream joins the queue.
LEMMA PullStep ==
    ASSUME IInv, NEW r \in Requests, Pull(r)
    PROVE  IInv'
<1>1. TypeOK'
  BY Appended DEF IInv, TypeOK, Points, None, Running, Pull
<1>2. ThreadBound'
  <2>1. Busy' \subseteq Busy
    BY DEF IInv, TypeOK, Points, None, Running, Pull, Busy, InPool
  <2> QED
    BY <2>1, NoMoreBusy DEF IInv
<1>3. PoolIsQueued'
  BY Queues DEF IInv, TypeOK, Points, None, Running, Pull
<1>4. Only(r)
  BY DEF IInv, TypeOK, Points, None, Running, Pull, Only
<1>5. Places(r)' /\ Holding(r)'
  <2>1. Places(r) /\ Holding(r)
    BY DEF IInv, LocksMatchHandlers
  <2> QED
    BY <2>1, ServerAssumption DEF IInv, TypeOK, Points, None, Running, Pull, Places, Holding, Live, Streams, UsesGPU, Completion, AllKinds
<1>6. LatchMeansWedge'
  <2>1. \A q \in Requests : outcome'[q] = "refused" => outcome[q] = "refused"
    BY DEF IInv, TypeOK, Points, None, Running, Pull
  <2> QED
    BY <2>1, LatchKept DEF IInv, LatchMeansWedge, Pull
<1> QED
  BY <1>1, <1>2, <1>3, <1>4, <1>5, <1>6, OneMoves

\* A new request joins it, or is a session's worker.
LEMMA ArriveStep ==
    ASSUME IInv, NEW r \in Requests, NEW k \in Kinds, Arrive(r, k)
    PROVE  IInv'
<1>1. TypeOK'
  <2>1. pool' \in Seq(Requests)
    <3>1. Append(pool, r) \in Seq(Requests)
      BY Appended DEF IInv, TypeOK
    <3> QED
      BY <3>1 DEF IInv, TypeOK, Arrive, Finished, Continue
  <2> QED
    BY <2>1, ServerAssumption DEF IInv, TypeOK, Points, None, Running, Arrive
<1>2. ThreadBound'
  <2>1. Busy' \subseteq Busy
    BY DEF IInv, TypeOK, Points, None, Running, Arrive, Busy, InPool
  <2> QED
    BY <2>1, NoMoreBusy DEF IInv
<1>3. PoolIsQueued'
  <2>1. CASE k = "ws"
    <3>1. \A q \in Requests : st'[q] = "queued" <=> st[q] = "queued"
      BY <2>1 DEF IInv, TypeOK, Points, None, Running, Arrive
    <3> QED
      BY <2>1, <3>1, SameQueue DEF IInv, Arrive
  <2>2. CASE k # "ws"
    BY <2>2, Queues DEF IInv, TypeOK, Points, None, Running, Arrive
  <2> QED
    BY <2>1, <2>2
<1>4. Only(r)
  BY DEF IInv, TypeOK, Points, None, Running, Arrive, Only
<1>5. Places(r)' /\ Holding(r)'
  <2>1. Places(r) /\ Holding(r)
    BY DEF IInv, LocksMatchHandlers
  <2>2. /\ st[r] = "new" /\ kind'[r] = k /\ left'[r] = left[r]
        /\ gpuLock' = gpuLock /\ genLock' = genLock
        /\ \/ k = "ws" /\ st'[r] = "running" /\ at'[r] = "gen"
           \/ st'[r] = "queued" /\ at'[r] = at[r]
    BY DEF IInv, TypeOK, Points, None, Running, Arrive
  <2> QED
    BY <2>1, <2>2, ServerAssumption DEF Places, Holding, Live, Streams, UsesGPU, Completion, None
<1>6. LatchMeansWedge'
  BY LatchKept DEF IInv, LatchMeansWedge, Arrive
<1> QED
  BY <1>1, <1>2, <1>3, <1>4, <1>5, <1>6, OneMoves

\* The first of the queue gets a thread, if there is one.
LEMMA DispatchStep ==
    ASSUME IInv, Dispatch
    PROVE  IInv'
<1>1. PICK r \in Requests : r = Head(pool)
  BY Tailed DEF IInv, TypeOK, Dispatch
<1>2. /\ r = pool[1] /\ 1 \in 1 .. Len(pool)
      /\ pool' \in Seq(Requests) /\ Len(pool') = Len(pool) - 1
      /\ \A i \in 1 .. Len(pool) - 1 : pool'[i] = pool[i + 1]
  <2>1. pool \in Seq(Requests) /\ pool # <<>> /\ pool' = Tail(pool)
    BY DEF IInv, TypeOK, Dispatch
  <2>2. Len(pool) \in Nat \ {0}
    BY <2>1, Tailed
  <2> QED
    BY <1>1, <2>1, <2>2, Tailed
<1>3. st[r] = "queued" /\ st' = [st EXCEPT ![r] = "running"]
  BY <1>1, <1>2 DEF IInv, PoolIsQueued, Dispatch
<1>4. TypeOK'
  <2>1. st' \in [Requests -> {"new", "queued", "running", "parked", "done"}]
    BY <1>3 DEF IInv, TypeOK
  <2>2. UNCHANGED <<kind, at, left, outcome, gpuLock, genLock, latch, dead>>
    BY DEF Dispatch
  <2> QED
    BY <1>2, <2>1, <2>2 DEF IInv, TypeOK
<1>5. ThreadBound'
  <2>1. IsFiniteSet(Busy) /\ Cardinality(Busy) \in Nat
    BY BusyFinite, FS_CardinalityType
  <2>2. Busy' \subseteq Busy \cup {r}
    BY <1>3 DEF IInv, TypeOK, Dispatch, Busy, InPool
  <2>3. IsFiniteSet(Busy \cup {r}) /\ Cardinality(Busy \cup {r}) <= Cardinality(Busy) + 1
    <3>1. /\ IsFiniteSet(Busy \cup {r})
          /\ \/ Cardinality(Busy \cup {r}) = Cardinality(Busy)
             \/ Cardinality(Busy \cup {r}) = Cardinality(Busy) + 1
      BY <2>1, FS_AddElement
    <3> QED
      BY <2>1, <3>1
  <2>4. Cardinality(Busy') <= Cardinality(Busy \cup {r}) /\ IsFiniteSet(Busy')
    BY <2>2, <2>3, FS_Subset
  <2>5. Cardinality(Busy \cup {r}) \in Nat /\ Cardinality(Busy') \in Nat
    BY <2>3, <2>4, FS_CardinalityType
  <2> QED
    BY <2>1, <2>3, <2>4, <2>5, ServerAssumption DEF ThreadBound, Dispatch
<1>6. PoolIsQueued'
  <2>1. st'[pool[1]] # "queued" /\ \A q \in Requests \ {pool[1]} : st'[q] = st[q]
    BY <1>2, <1>3 DEF IInv, TypeOK
  <2>2. \A i \in 1 .. Len(pool) - 1 : i \in Int /\ ~(i < 1)
    BY <1>2
  <2>3. \A i \in 1 .. Len(pool) - 1 : pool'[i] = pool[IF i < 1 THEN i ELSE i + 1]
    BY <1>2, <2>2
  <2> QED
    BY <1>2, <2>1, <2>3, Unqueues DEF IInv, TypeOK
<1>7. Only(r)
  BY <1>3 DEF IInv, TypeOK, Dispatch, Only
<1>8. Places(r)' /\ Holding(r)'
  <2>1. Places(r) /\ Holding(r)
    BY DEF IInv, LocksMatchHandlers
  <2>2. /\ st[r] = "queued" /\ st'[r] = "running" /\ kind' = kind /\ at' = at /\ left' = left
        /\ gpuLock' = gpuLock /\ genLock' = genLock /\ dead' = dead
    BY <1>3 DEF IInv, TypeOK, Dispatch
  <2> QED
    BY <2>1, <2>2 DEF Places, Holding, Live, Streams, UsesGPU, Completion
<1>9. LatchMeansWedge'
  BY LatchKept DEF IInv, LatchMeansWedge, Dispatch
<1> QED
  BY <1>4, <1>5, <1>6, <1>7, <1>8, <1>9, OneMoves

\* A dropped stream leaves the queue and both locks.
LEMMA DisconnectStep ==
    ASSUME IInv, NEW r \in Requests, Disconnect(r)
    PROVE  IInv'
<1>1. /\ pool' \in Seq(Requests) /\ PoolIsQueued'
  <2>1. st'[r] = "done" /\ \A q \in Requests \ {r} : st'[q] = st[q]
    BY DEF IInv, TypeOK, Disconnect, Finished
  <2>2. CASE st[r] = "queued"
    <3>1. PICK k \in 1 .. Len(pool) :
              /\ pool[k] = r
              /\ pool' = SubSeq(pool, 1, k - 1) \o SubSeq(pool, k + 1, Len(pool))
      BY <2>2 DEF Disconnect, LeavesPool
    <3>2. /\ pool' \in Seq(Requests) /\ Len(pool') = Len(pool) - 1 /\ Len(pool) \in Nat
          /\ \A i \in 1 .. Len(pool') : pool'[i] = IF i < k THEN pool[i] ELSE pool[i + 1]
      <4>1. pool \in Seq(Requests)
        BY DEF IInv, TypeOK
      <4>2. Len(pool) \in Nat
        BY <4>1
      <4> QED
        BY <3>1, <4>1, <4>2, Removed
    <3> QED
      BY <2>1, <3>1, <3>2, Unqueues DEF IInv, TypeOK
  <2>3. CASE st[r] # "queued"
    <3>1. pool' = pool /\ \A q \in Requests : st'[q] = "queued" <=> st[q] = "queued"
      BY <2>1, <2>3 DEF Disconnect, LeavesPool
    <3> QED
      BY <3>1, SameQueue DEF IInv, TypeOK
  <2> QED
    BY <2>2, <2>3
<1>2. TypeOK'
  BY <1>1 DEF IInv, TypeOK, Points, None, Running, Disconnect, Finished, Free
<1>3. ThreadBound'
  <2>1. Busy' \subseteq Busy
    BY DEF IInv, TypeOK, Points, None, Running, Disconnect, Finished, Busy, InPool
  <2> QED
    BY <2>1, NoMoreBusy DEF IInv
<1>4. Only(r)
  BY DEF IInv, TypeOK, Points, None, Running, Disconnect, Finished, Free, Only
<1>5. Places(r)' /\ Holding(r)'
  <2>1. Places(r) /\ Holding(r)
    BY DEF IInv, LocksMatchHandlers
  <2>2. /\ st'[r] = "done" /\ kind' = kind /\ at' = at /\ left' = left /\ dead' = dead
        /\ gpuLock' # r /\ genLock' # r /\ (at[r] = "guard" => FALSE)
    BY ServerAssumption DEF IInv, TypeOK, Points, None, Running, Disconnect, Finished, Free
  <2> QED
    BY <2>1, <2>2 DEF Places, Holding, Live, Streams, UsesGPU, Completion
<1>6. LatchMeansWedge'
  <2>1. \A q \in Requests : outcome'[q] = "refused" => outcome[q] = "refused"
    BY DEF IInv, TypeOK, Points, None, Running, Disconnect, Finished
  <2> QED
    BY <2>1, LatchKept DEF IInv, LatchMeansWedge, Disconnect
<1> QED
  BY <1>1, <1>2, <1>3, <1>4, <1>5, <1>6, OneMoves

\* The device's death changes nothing but what it allows.
LEMMA DeviceDiesStep ==
    ASSUME IInv, DeviceDies
    PROVE  IInv'
<1>1. TypeOK' /\ Busy' = Busy /\ PoolIsQueued'
  BY DEF IInv, DeviceDies, TypeOK, Busy, InPool, PoolIsQueued
<1>2. ASSUME NEW r \in Requests
      PROVE  Places(r)' /\ Holding(r)'
  <2>1. Places(r) /\ Holding(r)
    BY DEF IInv, LocksMatchHandlers
  <2> QED
    BY <2>1 DEF DeviceDies, Places, Holding, Live, Streams, UsesGPU, Completion
<1>3. LatchMeansWedge'
  BY DEF IInv, DeviceDies, LatchMeansWedge
<1> QED
  BY <1>1, <1>2, <1>3 DEF IInv, ThreadBound, LocksMatchHandlers

-----------------------------------------------------------------------------
(* The theorems *)

\* The server starts idle, with both locks free.
LEMMA Initially == Init => IInv
<1> SUFFICES ASSUME Init PROVE IInv
  OBVIOUS
<1>1. TypeOK
  <2>1. pool \in Seq(Requests)
    BY DEF Init
  <2>2. left \in [Requests -> 0 .. Steps]
    BY ServerAssumption DEF Init
  <2> QED
    BY <2>1, <2>2 DEF Init, TypeOK, AllKinds, Points, None
<1>2. ThreadBound
  <2>1. Busy = {}
    BY DEF Init, Busy
  <2> QED
    BY <2>1, FS_EmptySet, ServerAssumption DEF ThreadBound
<1>3. PoolIsQueued
  BY DEF Init, PoolIsQueued
<1>4. \A r \in Requests : Places(r) /\ Holding(r)
  BY ServerAssumption DEF Init, Places, Holding, Live, Streams, UsesGPU, Completion, None
<1>5. LatchMeansWedge
  BY DEF Init, LatchMeansWedge
<1> QED
  BY <1>1, <1>2, <1>3, <1>4, <1>5 DEF IInv, LocksMatchHandlers

\* Nothing the invariant reads changes in a step that changes nothing.
LEMMA Stuttering ==
    ASSUME IInv, UNCHANGED vars
    PROVE  IInv'
<1>1. /\ TypeOK' /\ Busy' = Busy /\ PoolIsQueued' /\ LatchMeansWedge'
  BY DEF IInv, vars, TypeOK, Busy, InPool, PoolIsQueued, LatchMeansWedge
<1>2. ASSUME NEW r \in Requests
      PROVE  Places(r)' /\ Holding(r)'
  <2>1. Places(r) /\ Holding(r)
    BY DEF IInv, LocksMatchHandlers
  <2> QED
    BY <2>1 DEF vars, Places, Holding, Live, Streams, UsesGPU, Completion
<1> QED
  BY <1>1, <1>2 DEF IInv, ThreadBound, LocksMatchHandlers

\* Every step keeps the invariant, one lemma a case.
LEMMA Preserved == IInv /\ [Next]_vars => IInv'
<1> SUFFICES ASSUME IInv, [Next]_vars PROVE IInv'
  OBVIOUS
<1>1. CASE \E r \in Requests : \E k \in Kinds : Arrive(r, k)
  BY <1>1, ArriveStep
<1>2. CASE Dispatch
  BY <1>2, DispatchStep
<1>3. CASE \E r \in Requests : Serve(r)
  <2>1. PICK r \in Requests : Serve(r)
    BY <1>3
  <2> QED
    BY <2>1, GuardStep, HelloStep, TakeGPUStep, MissingFieldStep, TakeGenStep, SubmitStep,
       FinishStep, ByeStep, EngineErrorStep, FenceTimeoutStep, MarkStep DEF Serve
<1>4. CASE \E r \in Requests : Pull(r)
  BY <1>4, PullStep
<1>5. CASE \E r \in Requests : Disconnect(r)
  BY <1>5, DisconnectStep
<1>6. CASE DeviceDies
  BY <1>6, DeviceDiesStep
<1>7. CASE AllDone \/ UNCHANGED vars
  BY <1>7, Stuttering DEF AllDone
<1> QED
  BY <1>1, <1>2, <1>3, <1>4, <1>5, <1>6, <1>7 DEF Next

\* Types, threads, queue, places and locks, of every behaviour of the server
\* (serve.py:443-772).
THEOREM Inductive == Spec => []IInv
BY Initially, Preserved, PTL DEF Spec

\* Both locks are held by exactly the handlers inside their with, however a
\* handler leaves it (serve.py:549-580).
THEOREM LocksCorrect == Spec => []LocksMatchHandlers
<1>1. IInv => LocksMatchHandlers
  BY DEF IInv
<1> QED
  BY <1>1, Inductive, PTL

\* Two generations are never both inside the engine (serve.py:4-5, 404).
THEOREM GenerationsExclude == Spec => []OneGeneration
<1>1. IInv => OneGeneration
  BY DEF IInv, LocksMatchHandlers, Holding, OneGeneration
<1> QED
  BY <1>1, Inductive, PTL

\* The latch is set by a wedge and nothing else (serve.py:44-58).
THEOREM LatchCorrect == Spec => []LatchMeansWedge
<1>1. IInv => LatchMeansWedge
  BY DEF IInv
<1> QED
  BY <1>1, Inductive, PTL
=============================================================================
