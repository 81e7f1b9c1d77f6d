------------------------------- MODULE Session -------------------------------
(***************************************************************************)
(* The session WebSocket of serve.py (sessions): one coroutine per         *)
(* connection keeps the conversation, and hands each message to a worker   *)
(* thread that generates under _gen_lock and feeds the coroutine through   *)
(* an asyncio queue.  Clients leave at any moment, also while their worker *)
(* generates; generations fail.                                            *)
(*                                                                         *)
(* A delta is named by its turn and its number, the user's message by its   *)
(* turn and 0; a text is a sequence of them.  Prompts are not tokenised:   *)
(* the messages stand for them.                                            *)
(***************************************************************************)
EXTENDS Integers, Sequences

CONSTANTS
    Sessions,
    MaxTurns,   \* bound: messages per session
    MaxDeltas   \* bound: deltas of one generation (max_new in the code)

ASSUME SessionAssumption ==
    /\ MaxTurns \in Nat /\ MaxDeltas \in Nat
    /\ "none" \notin Sessions

VARIABLES
    client,    \* "here" or "gone"
    handler,   \* the coroutine: "new", "receive", "turn", "join" (await fut), "closed"
    history,   \* st["history"]
    worker,    \* "none", "waiting" for the lock, "running", "finished", "failed"
    parts,     \* the worker's parts
    queue,     \* q, with the callbacks of call_soon_threadsafe on their way to it
    genLock,
    turns,     \* messages received (they number the deltas)
    draft,     \* auxiliary: deltas relayed to the client in this turn
    view       \* auxiliary: the conversation as its frames tell it to the client

server == <<history, worker, parts, queue, genLock, turns>>
vars == <<client, handler, history, worker, parts, queue, genLock,
          turns, draft, view>>

None == "none"

User(s) == [role |-> "user", content |-> <<<<turns[s], 0>>>>]
Assistant(text) == [role |-> "assistant", content |-> text]
Delta(text) == [type |-> "delta", text |-> text]
Done(text) == [type |-> "done", text |-> text]

-----------------------------------------------------------------------------
Init ==
    /\ client = [s \in Sessions |-> "here"]
    /\ handler = [s \in Sessions |-> "new"]
    /\ history = [s \in Sessions |-> <<>>]
    /\ worker = [s \in Sessions |-> "none"]
    /\ parts = [s \in Sessions |-> <<>>]
    /\ queue = [s \in Sessions |-> <<>>]
    /\ genLock = None
    /\ turns = [s \in Sessions |-> 0]
    /\ draft = [s \in Sessions |-> <<>>]
    /\ view = [s \in Sessions |-> <<>>]

\* A frame is sent to a client that is there.  For one that has left the send
\* raises or is dropped, as uvicorn has noticed or not; either exception ends
\* the coroutine, and nothing else does anything about the worker.
Sending(s, ok, next) ==
    /\ ok \/ client[s] = "gone"
    /\ handler' = [handler EXCEPT ![s] = IF ok THEN next ELSE "closed"]

Connect(s) ==
    /\ handler[s] = "new"
    /\ \E ok \in BOOLEAN : Sending(s, ok, "receive")
    /\ UNCHANGED <<server, client, draft, view>>

\* A mutant: reset is acknowledged and forgotten.
ConfigureKeepsHistory(s) ==
    /\ handler[s] = "receive" /\ client[s] = "here"
    /\ view' = [view EXCEPT ![s] = <<>>]
    /\ UNCHANGED <<client, handler, history, worker, parts, queue, genLock, turns, draft>>

\* configure with a reset, and session.updated; without one it only changes
\* settings, which are data to everything below.
Configure(s) ==
    /\ handler[s] = "receive" /\ client[s] = "here"
    /\ history' = [history EXCEPT ![s] = <<>>]
    /\ view' = [view EXCEPT ![s] = <<>>]
    /\ UNCHANGED <<client, handler, worker, parts, queue, genLock, turns, draft>>

\* A message: history, response.start, a new queue, and a worker in the
\* executor.  The client may leave before response.start: then no worker starts.
Message(s) ==
    /\ handler[s] = "receive" /\ client[s] = "here" /\ turns[s] < MaxTurns
    /\ turns' = [turns EXCEPT ![s] = @ + 1]
    /\ history' = [history EXCEPT ![s] = Append(@, User(s)')]
    /\ \/ /\ handler' = [handler EXCEPT ![s] = "turn"]
          /\ worker' = [worker EXCEPT ![s] = "waiting"]
          /\ parts' = [parts EXCEPT ![s] = <<>>]
          /\ queue' = [queue EXCEPT ![s] = <<>>]
          /\ draft' = [draft EXCEPT ![s] = <<>>]
          /\ UNCHANGED client
       \/ /\ client' = [client EXCEPT ![s] = "gone"]
          /\ handler' = [handler EXCEPT ![s] = "closed"]
          /\ UNCHANGED <<worker, parts, queue, draft>>
    /\ UNCHANGED <<genLock, view>>

\* A frame that is no JSON, or messages the chat template rejects: the outer
\* handler reports and the connection is over.
BadFrame(s) ==
    /\ handler[s] = "receive" /\ client[s] = "here"
    /\ handler' = [handler EXCEPT ![s] = "closed"]
    /\ UNCHANGED <<server, client, draft, view>>

-----------------------------------------------------------------------------
\* The worker enters _run.
TakeGen(s) ==
    /\ worker[s] = "waiting" /\ genLock = None
    /\ worker' = [worker EXCEPT ![s] = "running"]
    /\ genLock' = s
    /\ UNCHANGED <<client, handler, history, parts, queue, turns, draft, view>>

Generate(s) ==
    /\ worker[s] = "running" /\ Len(parts[s]) < MaxDeltas
    /\ LET d == <<turns[s], Len(parts[s]) + 1>> IN
         /\ parts' = [parts EXCEPT ![s] = Append(@, d)]
         /\ queue' = [queue EXCEPT ![s] = Append(@, Delta(<<d>>))]
    /\ UNCHANGED <<client, handler, history, worker, genLock, turns, draft, view>>

\* Mutants: done is queued after the loop, not in a finally; a generation that
\* fails keeps the lock.
WorkerEndsSilently(s) ==
    /\ worker[s] = "running"
    /\ genLock' = None
    /\ \/ /\ worker' = [worker EXCEPT ![s] = "finished"]
          /\ queue' = [queue EXCEPT ![s] = Append(@, Done(parts[s]))]
       \/ /\ worker' = [worker EXCEPT ![s] = "failed"]
          /\ UNCHANGED queue
    /\ UNCHANGED <<client, handler, history, parts, turns, draft, view>>

WorkerEndsLocked(s) ==
    /\ worker[s] = "running"
    /\ \/ worker' = [worker EXCEPT ![s] = "finished"] /\ genLock' = None
       \/ worker' = [worker EXCEPT ![s] = "failed"] /\ UNCHANGED genLock
    /\ queue' = [queue EXCEPT ![s] = Append(@, Done(parts[s]))]
    /\ UNCHANGED <<client, handler, history, parts, turns, draft, view>>

\* _run is exhausted, or raises: the lock is released, and the finally queues
\* what there is either way, as an ordinary answer.
WorkerEnds(s) ==
    /\ worker[s] = "running"
    /\ genLock' = None
    /\ \E how \in {"finished", "failed"} : worker' = [worker EXCEPT ![s] = how]
    /\ queue' = [queue EXCEPT ![s] = Append(@, Done(parts[s]))]
    /\ UNCHANGED <<client, handler, history, parts, turns, draft, view>>

-----------------------------------------------------------------------------
Received(s, type) ==
    /\ handler[s] = "turn" /\ queue[s] # <<>> /\ Head(queue[s]).type = type
    /\ queue' = [queue EXCEPT ![s] = Tail(@)]

RelayDelta(s) ==
    /\ Received(s, "delta")
    /\ \E ok \in BOOLEAN : Sending(s, ok, "turn")
    /\ draft' = [draft EXCEPT ![s] = @ \o Head(queue[s]).text]
    /\ UNCHANGED <<client, history, worker, parts, genLock, turns, view>>

\* The answer enters the history before response.done is sent.
RelayDone(s) ==
    /\ Received(s, "done")
    /\ history' = [history EXCEPT ![s] = Append(@, Assistant(Head(queue[s]).text))]
    /\ \E ok \in BOOLEAN : Sending(s, ok, "join")
    /\ view' = [view EXCEPT ![s] = @ \o <<User(s), Assistant(draft[s])>>]
    /\ UNCHANGED <<client, worker, parts, genLock, turns, draft>>

\* await fut: only now is the worker's exception seen; it is reported and the
\* connection is over.
Join(s) ==
    /\ handler[s] = "join"
    /\ \/ worker[s] = "finished" /\ handler' = [handler EXCEPT ![s] = "receive"]
       \/ worker[s] = "failed" /\ handler' = [handler EXCEPT ![s] = "closed"]
    /\ UNCHANGED <<server, client, draft, view>>

NoticeLeave(s) ==
    /\ handler[s] = "receive" /\ client[s] = "gone"
    /\ handler' = [handler EXCEPT ![s] = "closed"]
    /\ UNCHANGED <<server, client, draft, view>>

\* The client closes its end, or is lost (external).
Leave(s) ==
    /\ client[s] = "here"
    /\ client' = [client EXCEPT ![s] = "gone"]
    /\ UNCHANGED <<server, handler, draft, view>>

Worker(s) == TakeGen(s) \/ Generate(s) \/ WorkerEnds(s)
Coroutine(s) == RelayDelta(s) \/ RelayDone(s) \/ Join(s) \/ NoticeLeave(s)
Frame(s) == Connect(s) \/ Configure(s) \/ Message(s) \/ BadFrame(s)

Next == \E s \in Sessions : Frame(s) \/ Worker(s) \/ Coroutine(s) \/ Leave(s)

\* Threads and the event loop run; a generation is bounded by max_new.  No
\* client need send anything, or stay.
Fairness == \A s \in Sessions : WF_vars(Worker(s)) /\ WF_vars(Coroutine(s))

Spec == Init /\ [][Next]_vars
FairSpec == Spec /\ Fairness

-----------------------------------------------------------------------------
Ended(s) == worker[s] \in {"finished", "failed"}

Text == Seq(Nat \X Nat)

\* Types and ranges of the state.
TypeOK ==
    /\ client \in [Sessions -> {"here", "gone"}]
    /\ handler \in [Sessions -> {"new", "receive", "turn", "join", "closed"}]
    /\ worker \in [Sessions -> {"none", "waiting", "running", "finished", "failed"}]
    /\ genLock \in Sessions \cup {None}
    /\ turns \in [Sessions -> 0..MaxTurns]
    /\ parts \in [Sessions -> Text]
    /\ draft \in [Sessions -> Text]
    /\ history \in [Sessions -> Seq([role : {"user", "assistant"}, content : Text])]
    /\ view \in [Sessions -> Seq([role : {"user", "assistant"}, content : Text])]
    /\ queue \in [Sessions -> Seq([type : {"delta", "done"}, text : Text])]

\* Between turns the server's conversation is the one the client was told:
\* what it sent, the deltas it received, nothing from before a reset.  During
\* a turn the server has one message more, the client's.  Two threads and a
\* queue are between the two copies (serve.py:737-765).
Agrees(s) ==
    /\ handler[s] \in {"receive", "join"} => history[s] = view[s]
    /\ handler[s] = "turn" => history[s] = Append(view[s], User(s))

ConversationAgrees == \A s \in Sessions : Agrees(s)

\* Roles alternate, beginning with the user, as the chat template wants them,
\* whatever was reset, abandoned or failed (serve.py:737, 761).
Alternates(s) ==
    \A i \in 1..Len(history[s]) :
        history[s][i].role = IF i % 2 = 1 THEN "user" ELSE "assistant"

Alternating == \A s \in Sessions : Alternates(s)

\* The strengthening the proofs use.  The lock is the running worker's; only a
\* turn has a worker to wait for, a closed connection may have left one behind.
LockedWorker(s) == genLock = s <=> worker[s] = "running"

Phase(s) ==
    /\ handler[s] \in {"new", "receive"} => worker[s] \in {"none", "finished"}
    /\ handler[s] = "new" => history[s] = <<>> /\ view[s] = <<>>
    /\ handler[s] = "turn" => worker[s] # "none" /\ Len(history[s]) % 2 = 1
    /\ handler[s] \in {"receive", "join"} => Len(history[s]) % 2 = 0
    /\ handler[s] = "join" => Ended(s)

\* What the client does not have yet is in the queue, in order, with the whole
\* text behind it once the worker has ended.
Streaming(s) ==
    LET sent == Len(draft[s])
        rest == Len(parts[s]) - sent IN
    handler[s] = "turn" =>
        /\ rest >= 0
        /\ \A i \in 1..sent : draft[s][i] = parts[s][i]
        /\ Len(queue[s]) = IF Ended(s) THEN rest + 1 ELSE rest
        /\ \A i \in 1..rest : queue[s][i] = Delta(<<parts[s][sent + i]>>)
        /\ Ended(s) => queue[s][rest + 1] = Done(parts[s])

IInv ==
    /\ TypeOK
    /\ \A s \in Sessions : LockedWorker(s) /\ Phase(s) /\ Streaming(s)
    /\ ConversationAgrees
    /\ Alternating

\* Every turn ends, also behind a worker whose client has left and which goes
\* on generating with the lock (serve.py:754, 768).
TurnsEnd == \A s \in Sessions : handler[s] = "turn" ~> handler[s] \in {"receive", "closed"}

\* A worker nobody listens to gives the lock back in the end (serve.py:745-754).
WorkersEnd == \A s \in Sessions : worker[s] = "waiting" ~> Ended(s)
=============================================================================
