--------------------------- MODULE ResponsesProofs ---------------------------
(***************************************************************************)
(* Proofs about Responses, for any number of requests that overlap and     *)
(* fork.  What a request began with stays what it was told because the     *)
(* store never changes an entry: an id is stored once, by its own request, *)
(* when its generation has ended.                                          *)
(***************************************************************************)
EXTENDS Responses, TLAPS

\* What the invariant says of one request.
Fine(r) ==
    /\ phase[r] # "new" => OwnBase(r)
    /\ Stored(r) => phase[r] \in {"stored", "answered", "left"}
    /\ phase[r] \in {"generated", "stored", "answered"} => fin[r] # "none"
    /\ phase[r] \in {"stored", "answered"} /\ req[r].store => Stored(r)
    /\ events[r] = "last" => phase[r] = "answered"
    /\ phase[r] = "new" => events[r] = "nothing"
    /\ genLock = r <=> phase[r] = "running"
    /\ Stored(r) => _resp_store[r] = Conversation(r) /\ OwnBase(r)
    /\ Stored(r) => req[r].store /\ fin[r] # "none"

\* The invariant, request by request ...
LEMMA FineNow ==
    ASSUME IInv, NEW r \in Requests
    PROVE  Fine(r)
BY DEF IInv, ChainExact, StoredIsWhole, Fine

\* ... and back.
LEMMA AllFine ==
    ASSUME TypeOK', \A r \in Requests : Fine(r)'
    PROVE  IInv'
BY DEF IInv, ChainExact, StoredIsWhole, Fine

-----------------------------------------------------------------------------
(* The store *)

\* The entries there are stay as they are.
Grows ==
    /\ DOMAIN _resp_store \subseteq DOMAIN _resp_store'
    /\ \A i \in DOMAIN _resp_store : _resp_store'[i] = _resp_store[i]

\* What a request began with stays what it was told, while the store only grows.
LEMMA BaseStays ==
    ASSUME Grows, NEW r \in Requests, OwnBase(r),
           msgs'[r] = msgs[r], req'[r] = req[r]
    PROVE  OwnBase(r)'
<1>1. CASE Stored(req[r].prev) /\ Begins(r, _resp_store[req[r].prev])
  BY <1>1 DEF Grows, OwnBase, Stored, Begins
<1>2. CASE Begins(r, Instructions(r))
  BY <1>2 DEF OwnBase, Begins, Instructions
<1> QED
  BY <1>1, <1>2 DEF OwnBase

\* A conversation is stored under an id nothing was stored under (serve.py:664).
LEMMA PutGrows ==
    ASSUME NEW r \in Requests, NEW conversation, ~Stored(r),
           _resp_store' = Put(r, conversation)
    PROVE  /\ Grows
           /\ DOMAIN _resp_store' = DOMAIN _resp_store \cup {r}
           /\ _resp_store'[r] = conversation
BY DEF Put, Stored, Grows

\* A request that does not move keeps what holds of it while others store.
Still(q) ==
    /\ phase'[q] = phase[q] /\ msgs'[q] = msgs[q] /\ parts'[q] = parts[q]
    /\ req'[q] = req[q] /\ fin'[q] = fin[q] /\ events'[q] = events[q]
    /\ genLock' = q <=> genLock = q
    /\ Stored(q)' <=> Stored(q)

\* A request keeps its part of the invariant while another one moves.
LEMMA Unmoved ==
    ASSUME NEW q \in Requests, Fine(q), Still(q), Grows
    PROVE  Fine(q)'
<1>1. OwnBase(q) => OwnBase(q)'
  BY BaseStays DEF Still
<1>2. Stored(q) => _resp_store'[q] = _resp_store[q] /\ Conversation(q)' = Conversation(q)
  BY DEF Still, Grows, Stored, Conversation
<1> QED
  BY <1>1, <1>2 DEF Fine, Still

\* A step of r that leaves the store alone.
LEMMA WithoutStore ==
    ASSUME IInv, NEW r \in Requests, UNCHANGED _resp_store, TypeOK', Fine(r)',
           \A q \in Requests \ {r} :
               /\ phase'[q] = phase[q] /\ msgs'[q] = msgs[q] /\ parts'[q] = parts[q]
               /\ req'[q] = req[q] /\ fin'[q] = fin[q] /\ events'[q] = events[q]
               /\ genLock' = q <=> genLock = q
    PROVE  IInv'
<1>1. ASSUME NEW q \in Requests PROVE Fine(q)'
  <2>1. CASE q = r
    BY <2>1
  <2>2. CASE q # r
    <3>1. Still(q) /\ Grows
      BY <2>2 DEF Still, Stored, Grows
    <3> QED
      BY <3>1, FineNow, Unmoved
  <2> QED
    BY <2>1, <2>2
<1> QED
  BY <1>1, AllFine

-----------------------------------------------------------------------------
(* Every step preserves the invariant *)

\* A request copies the conversation it continues (serve.py:624-640).
LEMMA ArriveStep ==
    ASSUME IInv, NEW r \in Requests, Arrive(r)
    PROVE  IInv'
<1> PICK q \in RequestsNow : Receive(r, q) /\ UNCHANGED _resp_store
  BY DEF Arrive
<1>1. /\ phase[r] = "new" /\ phase'[r] = "waiting" /\ req'[r] = q
      /\ msgs'[r] = Base(r, q) \o InputMessages(r, q.input)
      /\ events'[r] \in {"created", events[r]}
      /\ UNCHANGED <<parts, fin, genLock>>
  BY DEF Receive, IInv, TypeOK
<1>2. q \in [prev : Requests \cup {"none"}, instructions : BOOLEAN, store : BOOLEAN,
             stream : BOOLEAN, input : Inputs]
  BY ResponsesAssumption DEF RequestsNow, Known
<1>3. TypeOK'
  <2>1. /\ req' \in [Requests -> [prev : Requests \cup {"none"}, instructions : BOOLEAN,
                                  store : BOOLEAN, stream : BOOLEAN,
                                  input : Inputs \cup {<<>>}]]
    BY <1>2 DEF Receive, IInv, TypeOK
  <2>2. phase' \in [Requests -> {"new", "waiting", "running", "generated", "stored",
                                 "answered", "failed", "left"}]
    BY DEF Receive, IInv, TypeOK
  <2>3. DOMAIN msgs' = Requests
    BY DEF Receive, IInv, TypeOK
  <2>4. events' \in [Requests -> {"nothing", "created", "last"}]
    BY DEF Receive, IInv, TypeOK
  <2> QED
    BY <1>1, <2>1, <2>2, <2>3, <2>4 DEF IInv, TypeOK
<1>4. Fine(r)
  BY FineNow
<1>5. ~Stored(r) /\ events'[r] # "last"
  BY <1>1, <1>4 DEF Fine
<1>6. OwnBase(r)'
  <2>1. CASE Stored(q.prev)
    BY <1>1, <2>1 DEF Base, OwnBase, Stored, Begins
  <2>2. CASE ~Stored(q.prev)
    BY <1>1, <2>2 DEF Base, OwnBase, Begins, Instructions
  <2> QED
    BY <2>1, <2>2
<1>7. Fine(r)'
  BY <1>1, <1>4, <1>5, <1>6 DEF Fine, Stored
<1>8. \A p \in Requests \ {r} :
          /\ phase'[p] = phase[p] /\ msgs'[p] = msgs[p] /\ parts'[p] = parts[p]
          /\ req'[p] = req[p] /\ fin'[p] = fin[p] /\ events'[p] = events[p]
          /\ genLock' = p <=> genLock = p
  BY DEF Receive, IInv, TypeOK
<1> QED
  BY <1>3, <1>7, <1>8, WithoutStore

\* The steps of a generation and of the answer move one request's phase.
MovesTo(r, to) ==
    /\ UNCHANGED <<req, msgs, parts, _resp_store>>
    /\ phase' = [phase EXCEPT ![r] = to]
    /\ phase[r] \in {"waiting", "running", "generated", "stored"}
    /\ to \in {"running", "generated", "failed"} => phase[r] \in {"waiting", "running"}
    /\ to = "answered" => phase[r] = "stored"
    /\ to = "running" => genLock = "none"
    /\ genLock' = IF to = "running" THEN r ELSE IF genLock = r THEN "none" ELSE genLock
    /\ \/ fin' = fin /\ to # "generated"
       \/ to = "generated" /\ \E f \in {"stop", "length"} : fin' = [fin EXCEPT ![r] = f]
    /\ \/ events' = events /\ to # "answered"
       \/ to = "answered" /\ events' = [events EXCEPT ![r] = "last"]

\* Any step that only moves one request on.
LEMMA PhaseStep ==
    ASSUME IInv, NEW r \in Requests,
           NEW to \in {"running", "generated", "failed", "answered", "left"},
           MovesTo(r, to)
    PROVE  IInv'
<1> USE DEF MovesTo
<1>1. TypeOK'
  <2>1. fin' \in [Requests -> {"none", "stop", "length"}]
    BY DEF IInv, TypeOK
  <2>2. events' \in [Requests -> {"nothing", "created", "last"}]
    BY DEF IInv, TypeOK
  <2>3. phase' \in [Requests -> {"new", "waiting", "running", "generated", "stored",
                                 "answered", "failed", "left"}]
    BY DEF IInv, TypeOK
  <2>4. genLock' \in Requests \cup {"none"}
    BY DEF IInv, TypeOK
  <2> QED
    BY <2>1, <2>2, <2>3, <2>4 DEF IInv, TypeOK
<1>2. /\ phase'[r] = to
      /\ fin'[r] # "none" \/ (to # "generated" /\ fin'[r] = fin[r])
      /\ events'[r] = events[r] \/ to = "answered"
  <2>1. phase'[r] = to
    BY DEF IInv, TypeOK
  <2>2. fin'[r] # "none" \/ (to # "generated" /\ fin'[r] = fin[r])
    <3>1. CASE fin' = fin /\ to # "generated"
      BY <3>1
    <3>2. ASSUME to = "generated", NEW f \in {"stop", "length"}, fin' = [fin EXCEPT ![r] = f]
          PROVE  fin'[r] # "none"
      BY <3>2 DEF IInv, TypeOK
    <3> QED
      BY <3>1, <3>2
  <2>3. events'[r] = events[r] \/ to = "answered"
    OBVIOUS
  <2> QED
    BY <2>1, <2>2, <2>3
<1>3. Fine(r)
  BY FineNow
<1>4. OwnBase(r)'
  <2>1. Grows
    BY DEF Grows
  <2> QED
    BY <1>3, <2>1, BaseStays DEF Fine
<1>5. genLock' = r <=> to = "running"
  BY ResponsesAssumption
<1>6. /\ Stored(r)' <=> Stored(r)
      /\ Conversation(r)' = Conversation(r)
      /\ events[r] # "last"
  BY <1>3 DEF Stored, Conversation, Fine
<1>7. Stored(r) => phase[r] = "stored"
  BY <1>3 DEF Fine
<1>8. Fine(r)'
  <2>1. Stored(r)' => to \in {"answered", "left"}
    BY <1>6, <1>7
  <2>2. /\ to = "answered" => fin[r] # "none"
        /\ Stored(r) => fin[r] # "none" /\ req[r].store
        /\ to = "answered" /\ req[r].store => Stored(r)
        /\ Stored(r) => _resp_store[r] = Conversation(r)
    BY <1>3 DEF Fine
  <2>3. to # "generated" => fin' = fin
    OBVIOUS
  <2>4. req' = req /\ _resp_store' = _resp_store
    OBVIOUS
  <2>5. /\ to \in {"generated", "stored", "answered"} => fin'[r] # "none"
        /\ to \in {"stored", "answered"} /\ req'[r].store => Stored(r)'
        /\ Stored(r)' => fin'[r] # "none" /\ req'[r].store
        /\ Stored(r)' => _resp_store'[r] = Conversation(r)'
    BY <1>2, <1>6, <2>1, <2>2, <2>3, <2>4
  <2>6. events'[r] = "last" => to = "answered"
    BY <1>2, <1>6
  <2> QED
    BY <1>2, <1>4, <1>5, <2>1, <2>5, <2>6 DEF Fine
<1>9. ASSUME NEW q \in Requests \ {r}
      PROVE  /\ phase'[q] = phase[q] /\ msgs'[q] = msgs[q] /\ parts'[q] = parts[q]
             /\ req'[q] = req[q] /\ fin'[q] = fin[q] /\ events'[q] = events[q]
             /\ genLock' = q <=> genLock = q
  BY ResponsesAssumption DEF IInv, TypeOK
<1> QED
  BY <1>1, <1>8, <1>9, WithoutStore

\* The request enters _run.
LEMMA TakeGenStep ==
    ASSUME IInv, NEW r \in Requests, TakeGen(r)
    PROVE  IInv'
<1>1. MovesTo(r, "running")
  BY DEF TakeGen, MovesTo
<1> QED
  BY <1>1, PhaseStep

\* The generation ends and _gen_lock is free.
LEMMA GenerationEndsStep ==
    ASSUME IInv, NEW r \in Requests, GenerationEnds(r)
    PROVE  IInv'
<1>1. genLock = r
  BY FineNow DEF Fine, GenerationEnds
<1>2. MovesTo(r, "generated")
  BY <1>1 DEF GenerationEnds, MovesTo
<1> QED
  BY <1>2, PhaseStep

\* The generation raises: nothing is stored.
LEMMA GenerationFailsStep ==
    ASSUME IInv, NEW r \in Requests, GenerationFails(r)
    PROVE  IInv'
<1>1. genLock = r
  BY FineNow DEF Fine, GenerationFails
<1>2. MovesTo(r, "failed")
  BY <1>1 DEF GenerationFails, MovesTo
<1> QED
  BY <1>2, PhaseStep

\* The client is told the end.
LEMMA AnswerStep ==
    ASSUME IInv, NEW r \in Requests, Answer(r)
    PROVE  IInv'
<1>1. genLock # r
  BY FineNow DEF Fine, Answer
<1>2. MovesTo(r, "answered")
  BY <1>1 DEF Answer, MovesTo
<1> QED
  BY <1>2, PhaseStep

\* The client leaves a stream at one of its yields (serve.py:693).
LEMMA LeaveStep ==
    ASSUME IInv, NEW r \in Requests, Leave(r)
    PROVE  IInv'
<1>1. MovesTo(r, "left")
  BY DEF Leave, MovesTo
<1> QED
  BY <1>1, PhaseStep

\* A delta of the answer.
LEMMA DeltaStep ==
    ASSUME IInv, NEW r \in Requests, Delta(r)
    PROVE  IInv'
<1> DEFINE d == <<r, "delta", Len(parts[r]) + 1>>
<1>1. /\ phase[r] = "running"
      /\ parts' = [parts EXCEPT ![r] = Append(parts[r], d)]
      /\ UNCHANGED <<req, phase, msgs, fin, _resp_store, genLock, events>>
  BY DEF Delta
<1>2. Append(parts[r], d) \in Seq(Requests \X {"delta"} \X Nat)
  BY DEF IInv, TypeOK
<1> HIDE DEF d
<1>3. TypeOK'
  BY <1>1, <1>2 DEF IInv, TypeOK
<1>4. Fine(r)
  BY FineNow
<1>5. OwnBase(r)' /\ ~Stored(r)
  BY <1>1, <1>4 DEF Fine, OwnBase, Stored, Begins, Instructions
<1>6. Fine(r)'
  BY <1>1, <1>4, <1>5 DEF Fine, Stored
<1>7. \A q \in Requests \ {r} : parts'[q] = parts[q]
  BY <1>1 DEF IInv, TypeOK
<1> QED
  BY <1>1, <1>3, <1>6, <1>7, WithoutStore

\* The only step that stores.
LEMMA FinalizeGrows ==
    ASSUME IInv, NEW r \in Requests, Finalize(r)
    PROVE  /\ Grows
           /\ \A q \in Requests \ {r} : Stored(q)' <=> Stored(q)
           /\ Stored(r)' <=> req[r].store
           /\ req[r].store => _resp_store'[r] = Conversation(r)
<1>1. ~Stored(r)
  BY FineNow DEF Fine, Finalize
<1>2. CASE req[r].store
  <2>1. _resp_store' = Put(r, Conversation(r))
    BY <1>2 DEF Finalize
  <2> QED
    BY <1>1, <1>2, <2>1, PutGrows DEF Stored
<1>3. CASE ~req[r].store
  BY <1>1, <1>3 DEF Finalize, Grows, Stored
<1> QED
  BY <1>2, <1>3

\* The conversation is stored, or not asked to be (serve.py:662-664).
LEMMA FinalizeStep ==
    ASSUME IInv, NEW r \in Requests, Finalize(r)
    PROVE  IInv'
<1>1. /\ phase[r] = "generated" /\ phase'[r] = "stored"
      /\ UNCHANGED <<req, msgs, parts, fin, genLock, events>>
      /\ \A q \in Requests \ {r} : phase'[q] = phase[q]
  BY DEF Finalize, IInv, TypeOK
<1>2. TypeOK'
  <2>1. phase' \in [Requests -> {"new", "waiting", "running", "generated", "stored",
                                 "answered", "failed", "left"}]
    BY DEF Finalize, IInv, TypeOK
  <2>2. DOMAIN _resp_store' \subseteq Requests
    BY DEF Finalize, IInv, TypeOK, Put
  <2> QED
    BY <1>1, <2>1, <2>2 DEF IInv, TypeOK
<1>3. Fine(r)
  BY FineNow
<1>4. OwnBase(r)'
  BY <1>1, <1>3, FinalizeGrows, BaseStays DEF Fine
<1>5. Conversation(r)' = Conversation(r)
  BY <1>1 DEF Conversation
<1>6. Fine(r)'
  BY <1>1, <1>3, <1>4, <1>5, FinalizeGrows DEF Fine
<1>7. ASSUME NEW q \in Requests PROVE Fine(q)'
  <2>1. CASE q = r
    BY <1>6, <2>1
  <2>2. CASE q # r
    <3>1. Still(q)
      BY <1>1, <2>2, FinalizeGrows DEF Still
    <3> QED
      BY <3>1, FineNow, FinalizeGrows, Unmoved
  <2> QED
    BY <2>1, <2>2
<1> QED
  BY <1>2, <1>7, AllFine

-----------------------------------------------------------------------------
\* Nothing is stored and no request has come.
LEMMA Initially == Init => IInv
<1> SUFFICES ASSUME Init PROVE IInv
  OBVIOUS
<1>1. TypeOK
  BY DEF Init, TypeOK, NoRequest
<1>2. ASSUME NEW r \in Requests PROVE ~Stored(r) /\ genLock # r
  BY ResponsesAssumption DEF Init, Stored
<1> QED
  BY <1>1, <1>2 DEF Init, IInv, ChainExact, StoredIsWhole

\* Every step keeps the invariant, one lemma a case.
LEMMA Preserved == IInv /\ Next => IInv'
BY ArriveStep, TakeGenStep, DeltaStep, GenerationEndsStep, GenerationFailsStep,
   FinalizeStep, AnswerStep, LeaveStep
   DEF Next

\* So does a step of something else.
LEMMA Stuttering == IInv /\ UNCHANGED vars => IInv'
<1> SUFFICES ASSUME IInv, UNCHANGED vars PROVE IInv'
  OBVIOUS
<1>1. UNCHANGED <<req, phase, msgs, parts, fin, _resp_store, genLock, events>>
  BY DEF vars
<1>2. TypeOK'
  BY <1>1 DEF IInv, TypeOK
<1>3. Grows /\ \A r \in Requests : Still(r)
  BY <1>1 DEF Grows, Still, Stored
<1> QED
  BY <1>2, <1>3, FineNow, Unmoved, AllFine

\* The strengthened invariant of the store (serve.py:610-694), for any requests.
THEOREM Inductive == Spec => []IInv
<1>1. Init => IInv
  BY Initially
<1>2. IInv /\ [Next]_vars => IInv'
  BY Preserved, Stuttering
<1> QED
  BY <1>1, <1>2, PTL DEF Spec

\* A stored conversation is its request's base and its own turn (serve.py:626,
\* 664), however requests overlap and fork.
THEOREM ChainCorrect == Spec => []ChainExact
<1>1. IInv => ChainExact
  BY DEF IInv
<1> QED
  BY <1>1, Inductive, PTL

\* No step changes a stored conversation.
LEMMA StepGrows == IInv /\ [Next]_vars => Grows
<1> SUFFICES ASSUME IInv, [Next]_vars PROVE Grows
  OBVIOUS
<1>1. CASE UNCHANGED _resp_store
  BY <1>1 DEF Grows
<1>2. CASE \E r \in Requests : Finalize(r)
  BY <1>2, FinalizeGrows
<1> QED
  BY <1>1, <1>2
     DEF Next, vars, Arrive, TakeGen, Delta, GenerationEnds, GenerationFails, Answer, Leave

\* No step changes or drops a stored conversation (serve.py:626, 664).
THEOREM StoreOnlyGrows == Spec => StoreGrows
<1>1. IInv /\ [Next]_vars => [\A r \in Requests : Stored(r) => _resp_store'[r] = _resp_store[r]]_vars
  BY StepGrows DEF Grows, Stored
<1> QED
  BY <1>1, Inductive, PTL DEF Spec, StoreGrows

\* A response whose end was told is stored, and a request that names it begins with
\* its conversation (serve.py:614-626, 663, 693), not with an empty one.
THEOREM Continues == Spec => ContinuesWhatItNames
<1> DEFINE Continued ==
        \A r \in Requests :
         /\ phase[r] = "new" /\ phase'[r] = "waiting"
         /\ req'[r].prev \in Requests
         /\ events[req'[r].prev] = "last" /\ req[req'[r].prev].store
         => /\ Stored(req'[r].prev)
            /\ msgs'[r] = _resp_store[req'[r].prev] \o InputMessages(r, req'[r].input)
<1>1. IInv /\ [Next]_vars => [Continued]_vars
  <2> SUFFICES ASSUME IInv, Next, NEW r \in Requests,
                      phase[r] = "new", phase'[r] = "waiting",
                      req'[r].prev \in Requests,
                      events[req'[r].prev] = "last", req[req'[r].prev].store
               PROVE  /\ Stored(req'[r].prev)
                      /\ msgs'[r] = _resp_store[req'[r].prev] \o InputMessages(r, req'[r].input)
    BY DEF Continued
  <2>1. Stored(req'[r].prev)
    BY FineNow DEF Fine
  <2>2. Arrive(r)
    <3>1. PICK q \in Requests :
             \/ Arrive(q) \/ TakeGen(q) \/ Delta(q) \/ GenerationEnds(q)
             \/ GenerationFails(q) \/ Finalize(q) \/ Answer(q) \/ Leave(q)
      BY DEF Next
    <3>2. ~(TakeGen(q) \/ Delta(q) \/ GenerationEnds(q) \/ GenerationFails(q)
            \/ Finalize(q) \/ Answer(q) \/ Leave(q))
      BY DEF IInv, TypeOK, TakeGen, Delta, GenerationEnds, GenerationFails,
             Finalize, Answer, Leave
    <3>3. Arrive(q) => q = r
      BY DEF IInv, TypeOK, Arrive, Receive
    <3> QED
      BY <3>1, <3>2, <3>3
  <2>3. PICK q \in RequestsNow : Receive(r, q)
    BY <2>2 DEF Arrive
  <2>4. req'[r] = q /\ msgs'[r] = Base(r, q) \o InputMessages(r, q.input)
    BY <2>3 DEF Receive, IInv, TypeOK
  <2> QED
    BY <2>1, <2>4 DEF Base
<1> QED
  BY <1>1, Inductive, PTL DEF Spec, ContinuesWhatItNames

=============================================================================
