------------------------------ MODULE Responses ------------------------------
(***************************************************************************)
(* /v1/responses of serve.py and its store: a request copies the stored    *)
(* conversation it continues, generates under _gen_lock, and stores the    *)
(* longer conversation under an id of its own.  A streamed response tells  *)
(* its id before it generates, so a client can continue it while it runs,  *)
(* or after it has left it; conversations fork.                            *)
(*                                                                         *)
(* A message is its role and its name: the request and the number of the   *)
(* item, or the deltas of an answer.  The wedge latch is in Server.        *)
(***************************************************************************)
EXTENDS Integers, Sequences

CONSTANTS
    Requests,    \* requests; a request is also the response id it gets
    Shapes,      \* instructions, store, stream of a request
    Inputs,      \* req.input: sequences of [type, role]
    MaxDeltas    \* bound: deltas of one generation

ASSUME ResponsesAssumption ==
    /\ MaxDeltas \in Nat
    /\ "none" \notin Requests
    /\ Shapes \subseteq [instructions : BOOLEAN, store : BOOLEAN, stream : BOOLEAN]
    /\ \A input \in Inputs : input \in Seq([type : STRING, role : STRING])

VARIABLES
    req,          \* the request: prev, instructions, store, stream, input
    phase,        \* "new", "waiting", "running", "generated", "stored",
                  \* "answered"; "failed", "left"
    msgs,         \* the request's message list
    parts,        \* its deltas
    fin,          \* "none", "stop", "length"
    _resp_store,  \* the conversations stored, by response id
    genLock,
    events        \* what the client of r has been told: "nothing", "created", "last"

vars == <<req, phase, msgs, parts, fin, _resp_store, genLock, events>>

Message(role, r, i) == [role |-> role, content |-> <<<<r, "item", i>>>>]
Assistant(text) == [role |-> "assistant", content |-> text]
Stored(id) == id \in DOMAIN _resp_store
Put(id, messages) ==
    [i \in DOMAIN _resp_store \cup {id} |->
        IF i = id THEN messages ELSE _resp_store[i]]

Roles == {"user", "assistant", "system"}

\* The message items of an input, the others are skipped; a role the chat
\* template does not know becomes "user".
InputMessages(r, input) ==
    LET role(i) == IF input[i].role \in Roles THEN input[i].role ELSE "user"
        kept[i \in 0..Len(input)] ==
            IF i = 0 THEN <<>>
            ELSE IF input[i].type # "message" THEN kept[i - 1]
            ELSE Append(kept[i - 1], Message(role(i), r, i))
    IN kept[Len(input)]

\* Where a request begins: the conversation it continues, else its instructions.
Base(r, q) ==
    IF Stored(q.prev) THEN _resp_store[q.prev]
    ELSE IF q.instructions THEN <<Message("system", r, 0)>> ELSE <<>>

NoRequest == [prev |-> "none", instructions |-> FALSE, store |-> FALSE,
              stream |-> FALSE, input |-> <<>>]

Init ==
    /\ req = [r \in Requests |-> NoRequest]
    /\ phase = [r \in Requests |-> "new"]
    /\ msgs = [r \in Requests |-> <<>>]
    /\ parts = [r \in Requests |-> <<>>]
    /\ fin = [r \in Requests |-> "none"]
    /\ _resp_store = <<>>
    /\ genLock = "none"
    /\ events = [r \in Requests |-> "nothing"]

-----------------------------------------------------------------------------
\* The ids a client can name: those it was told.  None at all is as good as an
\* id that was never issued.
Known == {r \in Requests : events[r] # "nothing"} \cup {"none"}

RequestsNow ==
    {[prev |-> id, instructions |-> s.instructions, store |-> s.store,
      stream |-> s.stream, input |-> input] : id \in Known, s \in Shapes, input \in Inputs}

Receive(r, q) ==
    /\ phase[r] = "new"
    /\ req' = [req EXCEPT ![r] = q]
    /\ phase' = [phase EXCEPT ![r] = "waiting"]
    /\ msgs' = [msgs EXCEPT ![r] = Base(r, q) \o InputMessages(r, q.input)]
    \* a stream sends response.created before it asks for the lock
    /\ events' = [events EXCEPT ![r] = IF q.stream THEN "created" ELSE @]
    /\ UNCHANGED <<parts, fin, genLock>>

\* A mutant: the stored list itself is extended, not a copy of it.
ArriveAliased(r) ==
    \E q \in RequestsNow :
        /\ Receive(r, q)
        /\ _resp_store' = IF Stored(q.prev) THEN Put(q.prev, msgs'[r]) ELSE _resp_store

Arrive(r) == \E q \in RequestsNow : Receive(r, q) /\ UNCHANGED _resp_store

TakeGen(r) ==
    /\ phase[r] = "waiting" /\ genLock = "none"
    /\ genLock' = r
    /\ phase' = [phase EXCEPT ![r] = "running"]
    /\ UNCHANGED <<req, msgs, parts, fin, _resp_store, events>>

Delta(r) ==
    /\ phase[r] = "running" /\ Len(parts[r]) < MaxDeltas
    /\ parts' = [parts EXCEPT ![r] = Append(@, <<r, "delta", Len(@) + 1>>)]
    /\ UNCHANGED <<req, phase, msgs, fin, _resp_store, genLock, events>>

GenerationEnds(r) ==
    /\ phase[r] = "running"
    /\ \E f \in {"stop", "length"} : fin' = [fin EXCEPT ![r] = f]
    /\ phase' = [phase EXCEPT ![r] = "generated"]
    /\ genLock' = "none"
    /\ UNCHANGED <<req, msgs, parts, _resp_store, events>>

GenerationFails(r) ==
    /\ phase[r] = "running"
    /\ phase' = [phase EXCEPT ![r] = "failed"]
    /\ genLock' = "none"
    /\ UNCHANGED <<req, msgs, parts, fin, _resp_store, events>>

-----------------------------------------------------------------------------
Conversation(r) == Append(msgs[r], Assistant(parts[r]))

\* Mutants: the answer is stored after the last event, which the client may
\* not wait for; an incomplete answer is not stored.
FinalizeLate(r) ==
    /\ phase[r] = "generated"
    /\ phase' = [phase EXCEPT ![r] = "stored"]
    /\ events' = [events EXCEPT ![r] = "last"]
    /\ UNCHANGED <<req, msgs, parts, fin, _resp_store, genLock>>

FinalizeOnlyComplete(r) ==
    /\ phase[r] = "generated"
    /\ phase' = [phase EXCEPT ![r] = "stored"]
    /\ _resp_store' = IF req[r].store /\ fin[r] = "stop"
                      THEN Put(r, Conversation(r)) ELSE _resp_store
    /\ UNCHANGED <<req, msgs, parts, fin, genLock, events>>

\* _finalize, complete or incomplete, and only if the request says so.
Finalize(r) ==
    /\ phase[r] = "generated"
    /\ phase' = [phase EXCEPT ![r] = "stored"]
    /\ _resp_store' = IF req[r].store THEN Put(r, Conversation(r)) ELSE _resp_store
    /\ UNCHANGED <<req, msgs, parts, fin, genLock, events>>

\* response.completed, response.incomplete, or the body of a plain answer.
Answer(r) ==
    /\ phase[r] = "stored"
    /\ phase' = [phase EXCEPT ![r] = "answered"]
    /\ events' = [events EXCEPT ![r] = "last"]
    /\ UNCHANGED <<req, msgs, parts, fin, _resp_store, genLock>>

\* The client of a stream leaves at one of its yields; the generator is closed
\* and what follows the yield is not done.  A plain request runs to its end.
Leave(r) ==
    /\ req[r].stream /\ phase[r] \in {"waiting", "running", "generated", "stored"}
    /\ phase' = [phase EXCEPT ![r] = "left"]
    /\ genLock' = IF genLock = r THEN "none" ELSE genLock
    /\ UNCHANGED <<req, msgs, parts, fin, _resp_store, events>>

Next ==
    \E r \in Requests :
        \/ Arrive(r) \/ TakeGen(r) \/ Delta(r) \/ GenerationEnds(r)
        \/ GenerationFails(r) \/ Finalize(r) \/ Answer(r) \/ Leave(r)

Spec == Init /\ [][Next]_vars

-----------------------------------------------------------------------------
\* Types and ranges of the state; what a conversation holds is up to ChainExact.
TypeOK ==
    /\ req \in [Requests -> [prev : Requests \cup {"none"},
                             instructions : BOOLEAN, store : BOOLEAN,
                             stream : BOOLEAN, input : Inputs \cup {<<>>}]]
    /\ phase \in [Requests -> {"new", "waiting", "running", "generated", "stored",
                               "answered", "failed", "left"}]
    /\ DOMAIN msgs = Requests
    /\ parts \in [Requests -> Seq(Requests \X {"delta"} \X Nat)]
    /\ fin \in [Requests -> {"none", "stop", "length"}]
    /\ DOMAIN _resp_store \subseteq Requests
    /\ genLock \in Requests \cup {"none"}
    /\ events \in [Requests -> {"nothing", "created", "last"}]

Begins(r, base) == msgs[r] = base \o InputMessages(r, req[r].input)
Instructions(r) == IF req[r].instructions THEN <<Message("system", r, 0)>> ELSE <<>>
OwnBase(r) ==
    \/ Stored(req[r].prev) /\ Begins(r, _resp_store[req[r].prev])
    \/ Begins(r, Instructions(r))

\* A stored conversation is the one its request continued and its own turn, no
\* message of any other request in between, however the two overlapped or the
\* conversation forked (serve.py:626, 664).
ChainExact ==
    \A r \in Requests : Stored(r) => _resp_store[r] = Conversation(r) /\ OwnBase(r)

\* Only a generation that came to its end is stored; what was left or failed in
\* the middle leaves nothing to continue (serve.py:679-693).
StoredIsWhole ==
    \A r \in Requests : Stored(r) => req[r].store /\ fin[r] # "none"

\* The strengthening the proofs use: the phases a request goes through, and
\* what holds of it in each.
IInv ==
    /\ TypeOK
    /\ \A r \in Requests :
         /\ phase[r] # "new" => OwnBase(r)
         /\ Stored(r) => phase[r] \in {"stored", "answered", "left"}
         /\ phase[r] \in {"generated", "stored", "answered"} => fin[r] # "none"
         /\ phase[r] \in {"stored", "answered"} /\ req[r].store => Stored(r)
         /\ events[r] = "last" => phase[r] = "answered"
         /\ phase[r] = "new" => events[r] = "nothing"
         /\ genLock = r <=> phase[r] = "running"
    /\ ChainExact
    /\ StoredIsWhole

\* The store only grows: nobody who continues a conversation changes it for the
\* others who do (serve.py:626, 664).
StoreGrows ==
    [][\A r \in Requests : Stored(r) => _resp_store'[r] = _resp_store[r]]_vars

\* Once its client has been told the end of a response it can be continued: it is
\* in the store, incomplete answers too, and a request that names it begins with
\* its conversation, not with an empty one (serve.py:614-626, 663-664, 693-694).
ContinuesWhatItNames ==
    [][\A r \in Requests :
         /\ phase[r] = "new" /\ phase'[r] = "waiting"
         /\ req'[r].prev \in Requests
         /\ events[req'[r].prev] = "last" /\ req[req'[r].prev].store
         => /\ Stored(req'[r].prev)
            /\ msgs'[r] = _resp_store[req'[r].prev] \o InputMessages(r, req'[r].input)]_vars
=============================================================================
