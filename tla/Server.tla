------------------------------- MODULE Server -------------------------------
(***************************************************************************)
(* Concurrent requests in serve.py: the thread pool that runs the sync     *)
(* endpoints and every step of a streaming generator, the two locks (GPU,  *)
(* _gen_lock) that a generator keeps while it is suspended at a yield, the *)
(* wedge latch, clients that go away, and a device that stops answering.   *)
(*                                                                         *)
(* One engine submit stands for the submits between two yields; what they  *)
(* compute is in PrefixCache and Generate.                                 *)
(***************************************************************************)
EXTENDS Integers, Sequences, FiniteSets

CONSTANTS
    Requests,
    Kinds,     \* the kinds of request clients send, of AllKinds
    Threads,   \* thread-pool tokens (external: 40 in anyio)
    Steps      \* chunks one generation yields, the one with the finish reason included

\* chat, completions and their streams; tool calls; the responses API; a
\* message on a session WebSocket; and the health check.
AllKinds == {"chat", "chatStream", "comp", "compStream", "tools", "toolsStream",
             "resp", "respStream", "ws", "health"}

ASSUME ServerAssumption ==
    /\ IsFiniteSet(Requests) /\ "none" \notin Requests
    /\ Kinds \subseteq AllKinds
    /\ Threads \in Nat \ {0} /\ Steps \in Nat \ {0}

VARIABLES
    kind,     \* what each request asks for
    st,       \* "new", "queued" for a thread, "running", "parked" at a yield, "done"
    at,       \* where its handler is, or will resume
    left,     \* chunks its generation still has to yield
    outcome,
    pool,     \* requests waiting for a thread, in order
    gpuLock,  \* holder of GPU
    genLock,  \* holder of _gen_lock
    latch,    \* _GPU_WEDGED
    dead      \* the device has stopped answering

vars == <<kind, st, at, left, outcome, pool, gpuLock, genLock, latch, dead>>

None == "none"

Streams(r) == kind[r] \in {"chatStream", "compStream", "toolsStream", "respStream"}
Completion(r) == kind[r] \in {"comp", "compStream"}
UsesGPU(r) == kind[r] \in {"chat", "chatStream"} \/ Completion(r)
Guarded(r) == kind[r] \notin {"ws", "health"}
\* Handlers that catch RuntimeError and call _mark_wedged.
Latches(r) == kind[r] \notin {"resp", "respStream", "ws", "health"}
\* A session's worker runs in the loop's default executor, not in the pool.
InPool(r) == kind[r] # "ws"

\* The thread-pool tokens in use.
Busy == {r \in Requests : st[r] = "running" /\ InPool(r)}

-----------------------------------------------------------------------------
Init ==
    /\ kind = [r \in Requests |-> "chat"]
    /\ st = [r \in Requests |-> "new"]
    /\ at = [r \in Requests |-> "guard"]
    /\ left = [r \in Requests |-> Steps]
    /\ outcome = [r \in Requests |-> "none"]
    /\ pool = <<>>
    /\ gpuLock = None /\ genLock = None
    /\ latch = FALSE /\ dead = FALSE

\* The endpoint is called: it needs a thread.  A session needs none of the
\* pool's and goes straight to _run, which takes _gen_lock.
Arrive(r, k) ==
    /\ st[r] = "new"
    /\ kind' = [kind EXCEPT ![r] = k]
    /\ IF k = "ws"
       THEN /\ st' = [st EXCEPT ![r] = "running"]
            /\ at' = [at EXCEPT ![r] = "gen"]
            /\ UNCHANGED pool
       ELSE /\ st' = [st EXCEPT ![r] = "queued"]
            /\ pool' = Append(pool, r)
            /\ UNCHANGED at
    /\ UNCHANGED <<left, outcome, gpuLock, genLock, latch, dead>>

\* A free thread serves the request that has waited longest.
Dispatch ==
    /\ pool # <<>> /\ Cardinality(Busy) < Threads
    /\ st' = [st EXCEPT ![Head(pool)] = "running"]
    /\ pool' = Tail(pool)
    /\ UNCHANGED <<kind, at, left, outcome, gpuLock, genLock, latch, dead>>

Running(r, where) == st[r] = "running" /\ at[r] = where

Free(lock, r) == IF lock = r THEN None ELSE lock

Finished(r, how) ==
    /\ st' = [st EXCEPT ![r] = "done"]
    /\ outcome' = [outcome EXCEPT ![r] = how]

\* The generator yields a chunk and gives its thread back.
Park(r, resume) ==
    /\ st' = [st EXCEPT ![r] = "parked"]
    /\ at' = [at EXCEPT ![r] = resume]

Continue(r, next) ==
    /\ at' = [at EXCEPT ![r] = next]
    /\ UNCHANGED st

\* The start of an endpoint, up to its first lock: 503 behind the latch, the
\* answer of /health, or the generator object of a stream, whose first step is
\* then queued for a thread like any other.
Guard(r) ==
    /\ Running(r, "guard")
    /\ UNCHANGED <<kind, left, gpuLock, genLock, latch, dead>>
    /\ \/ /\ Guarded(r) /\ latch
          /\ Finished(r, "refused")
          /\ UNCHANGED <<at, pool>>
       \/ /\ kind[r] = "health"
          /\ Finished(r, "ok")
          /\ UNCHANGED <<at, pool>>
       \/ /\ Guarded(r) /\ ~latch /\ Streams(r)
          /\ st' = [st EXCEPT ![r] = "queued"]
          /\ pool' = Append(pool, r)
          /\ at' = [at EXCEPT ![r] = IF UsesGPU(r) THEN "gpu" ELSE "hello"]
          /\ UNCHANGED outcome
       \/ /\ Guarded(r) /\ ~latch /\ ~Streams(r)
          /\ Continue(r, IF UsesGPU(r) THEN "gpu" ELSE "gen")
          /\ UNCHANGED <<pool, outcome>>

\* The streams of tools and responses yield their first events with no lock.
Hello(r) ==
    /\ Running(r, "hello")
    /\ Park(r, "gen")
    /\ UNCHANGED <<kind, left, outcome, pool, gpuLock, genLock, latch, dead>>

\* with GPU: -- a chat stream then yields the role chunk, still holding it.
TakeGPU(r) ==
    /\ Running(r, "gpu") /\ gpuLock = None
    /\ gpuLock' = r
    /\ IF kind[r] = "chatStream" THEN Park(r, "gen") ELSE Continue(r, "gen")
    /\ UNCHANGED <<kind, left, outcome, pool, genLock, latch, dead>>

\* CompReq has no top_k, min_p and repetition_penalty: the AttributeError of the
\* call of _run leaves "with GPU" and the handler.
MissingField(r) ==
    /\ Running(r, "gen") /\ Completion(r)
    /\ gpuLock' = Free(gpuLock, r)
    /\ Finished(r, "failed")
    /\ UNCHANGED <<kind, at, left, pool, genLock, latch, dead>>

\* Mutant: tool calls rely on GPU alone being free.
TakeGenUnlocked(r) ==
    /\ Running(r, "gen") /\ ~Completion(r)
    /\ genLock = None \/ kind[r] \in {"tools", "toolsStream"}
    /\ genLock' = r
    /\ Continue(r, "engine")
    /\ UNCHANGED <<kind, left, outcome, pool, gpuLock, latch, dead>>

\* with _gen_lock: in _run and _run_tool
TakeGen(r) ==
    /\ Running(r, "gen") /\ ~Completion(r) /\ genLock = None
    /\ genLock' = r
    /\ Continue(r, "engine")
    /\ UNCHANGED <<kind, left, outcome, pool, gpuLock, latch, dead>>

\* The engine produces a token, or finds that there is none left after its last
\* submit; a stream yields the chunk, with its locks held.
Submit(r) ==
    /\ Running(r, "engine") /\ ~dead
    /\ left' = [left EXCEPT ![r] = @ - 1]
    /\ LET next == IF left[r] = 1 THEN "finish" ELSE "engine"
       IN  IF Streams(r) THEN Park(r, next) ELSE Continue(r, next)
    /\ UNCHANGED <<kind, outcome, pool, gpuLock, genLock, latch, dead>>

\* The generation is over: _gen_lock is released, and a stream yields its last
\* events -- a chat stream inside "with GPU".
Finish(r) ==
    /\ Running(r, "finish")
    /\ genLock' = None
    /\ IF Streams(r)
       THEN Park(r, "bye") /\ UNCHANGED <<gpuLock, outcome>>
       ELSE /\ gpuLock' = Free(gpuLock, r)
            /\ Finished(r, "ok")
            /\ UNCHANGED at
    /\ UNCHANGED <<kind, left, pool, latch, dead>>

Bye(r) ==
    /\ Running(r, "bye")
    /\ gpuLock' = Free(gpuLock, r)
    /\ Finished(r, IF left[r] = 0 THEN "ok" ELSE "timed out")
    /\ UNCHANGED <<kind, at, left, pool, genLock, latch, dead>>

\* Mutant: any exception of the engine is taken for a wedge.
EngineErrorLatches(r) ==
    /\ Running(r, "engine") /\ ~dead
    /\ genLock' = None
    /\ gpuLock' = Free(gpuLock, r)
    /\ Finished(r, "failed")
    /\ latch' = TRUE
    /\ UNCHANGED <<kind, at, left, pool, dead>>

\* An exception that is no fence timeout (sampling from NaN, a Vulkan error):
\* every handler lets it through, and both withs are left.
EngineError(r) ==
    /\ Running(r, "engine") /\ ~dead
    /\ genLock' = None
    /\ gpuLock' = Free(gpuLock, r)
    /\ Finished(r, "failed")
    /\ UNCHANGED <<kind, at, left, pool, latch, dead>>

\* The device stops answering.
DeviceDies ==
    /\ ~dead
    /\ dead' = TRUE
    /\ UNCHANGED <<kind, st, at, left, outcome, pool, gpuLock, genLock, latch>>

\* Mutant: the exception leaves _gen_lock taken (acquire and release without with).
FenceTimeoutKeepsLock(r) ==
    /\ Running(r, "engine") /\ dead
    /\ gpuLock' = IF Streams(r) THEN gpuLock ELSE Free(gpuLock, r)
    /\ IF Latches(r)
       THEN Continue(r, "mark") /\ UNCHANGED outcome
       ELSE Finished(r, "timed out") /\ UNCHANGED at
    /\ UNCHANGED <<kind, left, pool, genLock, latch, dead>>

\* 60 seconds later _wait_fence raises.  Leaving _run releases _gen_lock; the
\* handler of a plain request has left "with GPU" when it catches the exception,
\* that of a chat stream is inside it.
FenceTimeout(r) ==
    /\ Running(r, "engine") /\ dead
    /\ genLock' = None
    /\ gpuLock' = IF Streams(r) THEN gpuLock ELSE Free(gpuLock, r)
    /\ IF Latches(r)
       THEN Continue(r, "mark") /\ UNCHANGED outcome
       ELSE Finished(r, "timed out") /\ UNCHANGED at
    /\ UNCHANGED <<kind, left, pool, latch, dead>>

\* _mark_wedged; a stream then yields an error chunk and [DONE].
Mark(r) ==
    /\ Running(r, "mark")
    /\ latch' = TRUE
    /\ IF Streams(r)
       THEN Park(r, "bye") /\ UNCHANGED outcome
       ELSE Finished(r, "timed out") /\ UNCHANGED at
    /\ UNCHANGED <<kind, left, pool, gpuLock, genLock, dead>>

\* The client has read the chunk: the next step of the generator needs a thread.
Pull(r) ==
    /\ st[r] = "parked"
    /\ st' = [st EXCEPT ![r] = "queued"]
    /\ pool' = Append(pool, r)
    /\ UNCHANGED <<kind, at, left, outcome, gpuLock, genLock, latch, dead>>

\* A request that waits for a thread no longer does.
LeavesPool(r) ==
    IF st[r] = "queued"
    THEN \E i \in 1 .. Len(pool) :
            /\ pool[i] = r
            /\ pool' = SubSeq(pool, 1, i - 1) \o SubSeq(pool, i + 1, Len(pool))
    ELSE UNCHANGED pool

\* Mutant: a generator that is dropped keeps GPU.
DisconnectKeepsGPU(r) ==
    /\ Streams(r) /\ at[r] # "guard"
    /\ st[r] \in {"parked", "queued"}
    /\ LeavesPool(r)
    /\ genLock' = Free(genLock, r)
    /\ Finished(r, "gone")
    /\ UNCHANGED <<kind, at, left, gpuLock, latch, dead>>

\* The client of a stream goes away while the generator is suspended or waits
\* for a thread: the generator is closed and GeneratorExit leaves both withs.
\* A step that is running ends first.
Disconnect(r) ==
    /\ Streams(r) /\ at[r] # "guard"
    /\ st[r] \in {"parked", "queued"}
    /\ LeavesPool(r)
    /\ gpuLock' = Free(gpuLock, r)
    /\ genLock' = Free(genLock, r)
    /\ Finished(r, "gone")
    /\ UNCHANGED <<kind, at, left, latch, dead>>

\* Everything has been answered.
AllDone ==
    /\ \A r \in Requests : st[r] = "done"
    /\ UNCHANGED vars

\* What the server and its threads do by themselves.
Serve(r) ==
    \/ Guard(r)
    \/ Hello(r)
    \/ TakeGPU(r)
    \/ MissingField(r)
    \/ TakeGen(r)
    \/ Submit(r)
    \/ Finish(r)
    \/ Bye(r)
    \/ EngineError(r)
    \/ FenceTimeout(r)
    \/ Mark(r)

Next ==
    \/ \E r \in Requests : \E k \in Kinds : Arrive(r, k)
    \/ Dispatch
    \/ \E r \in Requests : Serve(r)
    \/ \E r \in Requests : Pull(r)
    \/ \E r \in Requests : Disconnect(r)
    \/ DeviceDies
    \/ AllDone

\* Threads run, and every client reads its stream or goes away; requests need
\* not arrive, and the device need not die.  Nothing orders the waiters of a
\* lock, but with finitely many requests every lock is won in the end.
Fairness ==
    /\ WF_vars(Dispatch)
    /\ \A r \in Requests : WF_vars(Serve(r)) /\ WF_vars(Pull(r))

Spec == Init /\ [][Next]_vars
FairSpec == Spec /\ Fairness

-----------------------------------------------------------------------------
(* Properties *)

Points == {"guard", "hello", "gpu", "gen", "engine", "finish", "mark", "bye"}

TypeOK ==
    /\ kind \in [Requests -> AllKinds]
    /\ st \in [Requests -> {"new", "queued", "running", "parked", "done"}]
    /\ at \in [Requests -> Points]
    /\ left \in [Requests -> 0 .. Steps]
    /\ outcome \in [Requests -> {"none", "ok", "refused", "failed", "timed out", "gone"}]
    /\ pool \in Seq(Requests)
    /\ gpuLock \in Requests \cup {None}
    /\ genLock \in Requests \cup {None}
    /\ latch \in BOOLEAN /\ dead \in BOOLEAN

Live(r) == st[r] \in {"queued", "running", "parked"}

\* "all generation is serialized behind a single lock" (serve.py:4-5), although
\* tool calls, responses and sessions never take GPU: two generations are never
\* both inside the engine, even when one is suspended.
OneGeneration ==
    \A r, s \in Requests :
        /\ Live(r) /\ at[r] \in {"engine", "finish"}
        /\ Live(s) /\ at[s] \in {"engine", "finish"}
        => r = s

\* A lock is held exactly by the live request that is past its with: every exit
\* (answer, refusal, fence timeout, disconnect) has released both.
Holding(r) ==
    /\ genLock = r <=> Live(r) /\ at[r] \in {"engine", "finish"}
    /\ gpuLock = r =>
           Live(r) /\ UsesGPU(r) /\ at[r] \in {"gen", "engine", "finish", "mark", "bye"}
    /\ Live(r) /\ kind[r] \in {"chatStream", "compStream"}
       /\ at[r] \in {"gen", "engine", "finish", "mark", "bye"} => gpuLock = r

LocksMatchHandlers == \A r \in Requests : Holding(r)

\* The latch is set by a wedge and nothing else, it stays, and a refused
\* request was refused because of it.
LatchMeansWedge ==
    /\ latch => dead
    /\ \A r \in Requests : outcome[r] = "refused" => latch

\* No more handlers run than the pool has threads.
ThreadBound == Cardinality(Busy) <= Threads

\* The strengthening the proofs use: the pool is the queued requests, each
\* once, and what a request's place in its handler says of its kind, of the
\* chunks it still has to yield and of the device.
PoolIsQueued ==
    /\ \A i, j \in 1 .. Len(pool) : pool[i] = pool[j] => i = j
    /\ \A r \in Requests : st[r] = "queued" <=> \E i \in 1 .. Len(pool) : pool[i] = r

Places(r) ==
    /\ st[r] = "new" => at[r] = "guard"
    /\ at[r] = "hello" => ~UsesGPU(r)
    /\ at[r] = "gpu" => UsesGPU(r)
    /\ at[r] = "mark" => dead
    /\ at[r] = "mark" /\ gpuLock = r => Streams(r)
    /\ at[r] \in {"guard", "hello", "gpu", "gen", "engine"} => left[r] > 0

IInv ==
    /\ TypeOK
    /\ ThreadBound
    /\ PoolIsQueued
    /\ \A r \in Requests : Places(r)
    /\ LocksMatchHandlers
    /\ LatchMeansWedge

\* With a thread for every request each one is answered in the end, also when
\* the device dies, when clients go away and when streams hold locks across
\* their yields.
EveryRequestEnds == \A r \in Requests : Live(r) ~> st[r] = "done"
=============================================================================
