---------------------------- MODULE SessionProofs ----------------------------
(***************************************************************************)
(* Proofs about Session: for any number of connections, turns and deltas,  *)
(* the conversation the server keeps is the one the client was told, its   *)
(* roles alternate, and the generation lock is exactly the running         *)
(* worker's.  The step lemmas are per connection: an action of one leaves  *)
(* what the invariant says of the others alone (Elsewhere).                *)
(***************************************************************************)
EXTENDS Session, TLAPS

Msg == [role : {"user", "assistant"}, content : Text]
Event == [type : {"delta", "done"}, text : Text]

-----------------------------------------------------------------------------
(* Sequences *)

\* A sequence with one element more ...
LEMMA Appended ==
    ASSUME NEW S, NEW q \in Seq(S), NEW x \in S
    PROVE  /\ Append(q, x) \in Seq(S)
           /\ Len(Append(q, x)) = Len(q) + 1 /\ Len(q) \in Nat
           /\ \A i \in 1..Len(q) : Append(q, x)[i] = q[i]
           /\ Append(q, x)[Len(q) + 1] = x
OBVIOUS

\* ... and one less.
LEMMA Tailed ==
    ASSUME NEW S, NEW q \in Seq(S), q # <<>>
    PROVE  /\ Head(q) \in S /\ Head(q) = q[1]
           /\ Tail(q) \in Seq(S)
           /\ Len(Tail(q)) = Len(q) - 1
           /\ Len(q) \in Nat \ {0}
           /\ \A i \in 1..Len(q) - 1 : Tail(q)[i] = q[i + 1]
OBVIOUS

\* Joining one element is appending it ...
LEMMA Joined ==
    ASSUME NEW S, NEW q \in Seq(S), NEW x \in S
    PROVE  q \o <<x>> = Append(q, x)
OBVIOUS

\* ... and joining two is appending them.
LEMMA JoinedTwo ==
    ASSUME NEW S, NEW q \in Seq(S), NEW x \in S, NEW y \in S
    PROVE  q \o <<x, y>> = Append(Append(q, x), y)
OBVIOUS

\* Sequences are their elements.
LEMMA SameSequence ==
    ASSUME NEW S, NEW p \in Seq(S), NEW q \in Seq(S), Len(p) = Len(q),
           \A i \in 1..Len(p) : p[i] = q[i]
    PROVE  p = q
OBVIOUS

-----------------------------------------------------------------------------
(* What a step of one connection leaves alone *)

Only(s) ==
    /\ \A q \in Sessions \ {s} :
           /\ handler'[q] = handler[q] /\ worker'[q] = worker[q]
           /\ history'[q] = history[q] /\ view'[q] = view[q]
           /\ parts'[q] = parts[q] /\ queue'[q] = queue[q]
           /\ draft'[q] = draft[q] /\ turns'[q] = turns[q]
    /\ genLock' = genLock \/ (genLock \in {None, s} /\ genLock' \in {None, s})

Good(s) == LockedWorker(s) /\ Phase(s) /\ Streaming(s) /\ Agrees(s) /\ Alternates(s)

\* What holds of a connection is its own: a step of another leaves it.
LEMMA Elsewhere ==
    ASSUME NEW s \in Sessions, NEW q \in Sessions, q # s, Only(s), Good(q)
    PROVE  Good(q)'
<1>1. /\ handler'[q] = handler[q] /\ worker'[q] = worker[q]
      /\ history'[q] = history[q] /\ view'[q] = view[q]
      /\ parts'[q] = parts[q] /\ queue'[q] = queue[q]
      /\ draft'[q] = draft[q] /\ turns'[q] = turns[q]
      /\ genLock' = q <=> genLock = q
  BY SessionAssumption DEF Only, None
<1>2. Phase(q)' /\ Agrees(q)' /\ LockedWorker(q)'
  BY <1>1 DEF Good, Phase, Agrees, LockedWorker, Ended, User
<1>3. Streaming(q)'
  BY <1>1 DEF Good, Streaming, Ended
<1>4. Alternates(q)'
  BY <1>1 DEF Good, Alternates
<1> QED
  BY <1>2, <1>3, <1>4 DEF Good

\* So for a step of one connection only that one has to be looked at.
LEMMA OneMoves ==
    ASSUME IInv, NEW s \in Sessions, Only(s), TypeOK', Good(s)'
    PROVE  IInv'
<1>1. ASSUME NEW q \in Sessions PROVE Good(q)'
  <2>1. CASE q = s
    BY <2>1
  <2>2. CASE q # s
    <3>1. Good(q)
      BY DEF IInv, ConversationAgrees, Alternating, Good
    <3> QED
      BY <2>2, <3>1, Elsewhere
  <2> QED
    BY <2>1, <2>2
<1> QED
  BY <1>1 DEF IInv, ConversationAgrees, Alternating, Good

\* The invariant, connection by connection.
LEMMA GoodNow ==
    ASSUME IInv, NEW s \in Sessions
    PROVE  Good(s)
BY DEF IInv, ConversationAgrees, Alternating, Good

\* The state of one connection has its types.
LEMMA Typed ==
    ASSUME IInv, NEW s \in Sessions
    PROVE  /\ parts[s] \in Text /\ draft[s] \in Text
           /\ history[s] \in Seq(Msg) /\ view[s] \in Seq(Msg)
           /\ queue[s] \in Seq(Event)
           /\ turns[s] \in 0..MaxTurns
           /\ Len(parts[s]) \in Nat /\ Len(draft[s]) \in Nat
           /\ Len(history[s]) \in Nat /\ Len(queue[s]) \in Nat
<1>1. /\ parts[s] \in Text /\ draft[s] \in Text
      /\ history[s] \in Seq(Msg) /\ view[s] \in Seq(Msg)
      /\ queue[s] \in Seq(Event)
      /\ turns[s] \in 0..MaxTurns
  BY DEF IInv, TypeOK, Msg, Event
<1> QED
  BY <1>1 DEF Text

\* Streaming, with the number of deltas still to relay named.
LEMMA Waiting ==
    ASSUME IInv, NEW s \in Sessions, handler[s] = "turn"
    PROVE  \E rest \in Nat :
              /\ Len(parts[s]) = Len(draft[s]) + rest
              /\ \A i \in 1..Len(draft[s]) : draft[s][i] = parts[s][i]
              /\ Len(queue[s]) = IF Ended(s) THEN rest + 1 ELSE rest
              /\ \A i \in 1..rest : queue[s][i] = Delta(<<parts[s][Len(draft[s]) + i]>>)
              /\ Ended(s) => queue[s][rest + 1] = Done(parts[s])
<1> DEFINE rest == Len(parts[s]) - Len(draft[s])
<1>1. Streaming(s)
  BY DEF IInv
<1>2. Len(parts[s]) \in Nat /\ Len(draft[s]) \in Nat
  BY Typed
<1>3. rest >= 0
  BY <1>1 DEF Streaming
<1>4. rest \in Nat /\ Len(parts[s]) = Len(draft[s]) + rest
  BY <1>2, <1>3
<1>5. \A i \in 1..Len(draft[s]) : draft[s][i] = parts[s][i]
  BY <1>1 DEF Streaming
<1>6. Len(queue[s]) = IF Ended(s) THEN rest + 1 ELSE rest
  BY <1>1 DEF Streaming
<1>7. \A i \in 1..rest : queue[s][i] = Delta(<<parts[s][Len(draft[s]) + i]>>)
  BY <1>1 DEF Streaming
<1>8. Ended(s) => queue[s][rest + 1] = Done(parts[s])
  BY <1>1 DEF Streaming
<1> HIDE DEF rest
<1> QED
  BY <1>4, <1>5, <1>6, <1>7, <1>8

\* Streaming, from what its parts have become.
LEMMA StreamsOn ==
    ASSUME NEW s \in Sessions, NEW rest \in Nat,
           Len(parts'[s]) - Len(draft'[s]) = rest,
           \A i \in 1..Len(draft'[s]) : draft'[s][i] = parts'[s][i],
           Len(queue'[s]) = IF Ended(s)' THEN rest + 1 ELSE rest,
           \A i \in 1..rest : queue'[s][i] = Delta(<<parts'[s][Len(draft'[s]) + i]>>),
           Ended(s)' => queue'[s][rest + 1] = Done(parts'[s])
    PROVE  Streaming(s)'
<1> DEFINE gap == Len(parts'[s]) - Len(draft'[s])
<1>1. gap = rest /\ gap >= 0
  OBVIOUS
<1>2. Len(queue'[s]) = IF Ended(s)' THEN gap + 1 ELSE gap
  BY <1>1
<1>3. \A i \in 1..gap : queue'[s][i] = Delta(<<parts'[s][Len(draft'[s]) + i]>>)
  BY <1>1
<1>4. Ended(s)' => queue'[s][gap + 1] = Done(parts'[s])
  BY <1>1
<1>5. Streaming(s)' = (handler'[s] = "turn" =>
        /\ gap >= 0
        /\ \A i \in 1..Len(draft'[s]) : draft'[s][i] = parts'[s][i]
        /\ Len(queue'[s]) = IF Ended(s)' THEN gap + 1 ELSE gap
        /\ \A i \in 1..gap : queue'[s][i] = Delta(<<parts'[s][Len(draft'[s]) + i]>>)
        /\ (Ended(s)' => queue'[s][gap + 1] = Done(parts'[s])))
  BY DEF Streaming, Delta, Done, Ended
<1> HIDE DEF gap
<1> QED
  BY <1>1, <1>2, <1>3, <1>4, <1>5

\* One message more alternates if it is of the next role.
LEMMA AlternatesOn ==
    ASSUME NEW s \in Sessions, history[s] \in Seq(Msg), NEW m \in Msg,
           history'[s] = Append(history[s], m), Alternates(s),
           m.role = IF (Len(history[s]) + 1) % 2 = 1 THEN "user" ELSE "assistant"
    PROVE  Alternates(s)' /\ Len(history'[s]) = Len(history[s]) + 1
<1>1. /\ Len(history'[s]) = Len(history[s]) + 1 /\ Len(history[s]) \in Nat
      /\ \A i \in 1..Len(history[s]) : history'[s][i] = history[s][i]
      /\ history'[s][Len(history[s]) + 1] = m
  BY Appended
<1>2. ASSUME NEW i \in 1..Len(history'[s])
      PROVE  history'[s][i].role = IF i % 2 = 1 THEN "user" ELSE "assistant"
  <2>1. CASE i = Len(history[s]) + 1
    BY <1>1, <2>1
  <2>2. CASE i # Len(history[s]) + 1
    <3>1. i \in 1..Len(history[s])
      BY <1>1, <2>2
    <3> QED
      BY <1>1, <3>1 DEF Alternates
  <2> QED
    BY <2>1, <2>2
<1> QED
  BY <1>1, <1>2 DEF Alternates

\* Parity, which tells whose turn is next.
LEMMA OddEven ==
    ASSUME NEW k \in Nat
    PROVE  /\ k % 2 = 0 => (k + 1) % 2 = 1
           /\ k % 2 = 1 => (k + 1) % 2 = 0
OBVIOUS

-----------------------------------------------------------------------------
(* Every step preserves the invariant *)

\* Connecting, a frame that is no JSON, a client that is found gone, the end of
\* a turn: only the coroutine moves.
LEMMA OnlyHandlerMoves ==
    ASSUME IInv, NEW s \in Sessions, NEW to \in {"receive", "closed"},
           handler' = [handler EXCEPT ![s] = to],
           UNCHANGED <<server, client, draft, view>>,
           to = "receive" =>
               \/ handler[s] = "new"
               \/ handler[s] = "join" /\ worker[s] = "finished"
    PROVE  IInv'
<1>1. TypeOK'
  BY DEF IInv, TypeOK, server
<1>2. Only(s)
  BY DEF IInv, TypeOK, server, Only
<1>3. handler'[s] = to
  BY DEF IInv, TypeOK
<1>4. Good(s)
  BY GoodNow
<1>5. (Len(history[s]) % 2 = 0 /\ history[s] = view[s]) \/ to = "closed"
  <2>1. CASE handler[s] = "new"
    <3>1. history[s] = <<>> /\ view[s] = <<>>
      BY <1>4, <2>1 DEF Good, Phase
    <3> QED
      BY <3>1
  <2>2. CASE handler[s] = "join"
    BY <1>4, <2>2 DEF Good, Phase, Agrees
  <2> QED
    BY <2>1, <2>2
<1>6. Good(s)'
  BY <1>3, <1>4, <1>5 DEF Good, LockedWorker, Phase, Streaming, Agrees, Alternates, Ended, server
<1> QED
  BY <1>1, <1>2, <1>6, OneMoves

\* A connection is accepted (serve.py:721).
LEMMA ConnectStep ==
    ASSUME IInv, NEW s \in Sessions, Connect(s)
    PROVE  IInv'
BY OnlyHandlerMoves DEF Connect, Sending

\* A frame that cannot be read ends the connection.
LEMMA BadFrameStep ==
    ASSUME IInv, NEW s \in Sessions, BadFrame(s)
    PROVE  IInv'
BY OnlyHandlerMoves DEF BadFrame

\* The coroutine sees that its client has left.
LEMMA NoticeLeaveStep ==
    ASSUME IInv, NEW s \in Sessions, NoticeLeave(s)
    PROVE  IInv'
BY OnlyHandlerMoves DEF NoticeLeave

\* The worker's exception is seen, or there is none (serve.py:765).
LEMMA JoinStep ==
    ASSUME IInv, NEW s \in Sessions, Join(s)
    PROVE  IInv'
BY OnlyHandlerMoves DEF Join

\* The client leaves; nothing on the server moves.
LEMMA LeaveStep ==
    ASSUME IInv, NEW s \in Sessions, Leave(s)
    PROVE  IInv'
<1>1. TypeOK'
  BY DEF IInv, TypeOK, Leave, server
<1>2. Only(s)
  BY DEF Leave, server, Only
<1>3. Good(s)'
  BY GoodNow DEF Leave, server, Good, LockedWorker, Phase, Streaming, Agrees, Alternates, Ended, User
<1> QED
  BY <1>1, <1>2, <1>3, OneMoves

\* The two copies of the conversation are emptied together.
LEMMA ConfigureStep ==
    ASSUME IInv, NEW s \in Sessions, Configure(s)
    PROVE  IInv'
<1>1. TypeOK'
  <2>1. <<>> \in Seq([role : {"user", "assistant"}, content : Text])
    OBVIOUS
  <2> QED
    BY <2>1 DEF IInv, TypeOK, Configure
<1>2. Only(s)
  BY DEF IInv, TypeOK, Configure, Only
<1>3. /\ handler[s] = "receive" /\ history'[s] = <<>> /\ view'[s] = <<>>
      /\ UNCHANGED <<handler, worker, parts, queue, genLock, turns, draft>>
  BY DEF IInv, TypeOK, Configure
<1>4. Good(s)
  BY GoodNow
<1>5. LockedWorker(s)' /\ Agrees(s)'
  BY <1>3, <1>4 DEF Good, LockedWorker, Agrees
<1>6. Phase(s)'
  <2>1. Len(history'[s]) % 2 = 0
    BY <1>3
  <2> QED
    BY <1>3, <1>4, <2>1 DEF Good, Phase, Ended
<1>7. Streaming(s)'
  BY <1>3 DEF Streaming
<1>8. Alternates(s)'
  <2>1. Len(history'[s]) = 0
    BY <1>3
  <2> QED
    BY <2>1 DEF Alternates
<1> QED
  BY <1>1, <1>2, <1>5, <1>6, <1>7, <1>8, OneMoves DEF Good

\* A turn begins behind a worker that has ended, or none.
LEMMA MessageStep ==
    ASSUME IInv, NEW s \in Sessions, Message(s)
    PROVE  IInv'
<1> DEFINE m == [role |-> "user", content |-> <<<<turns[s] + 1, 0>>>>]
<1>0. Good(s) /\ handler[s] = "receive" /\ turns[s] \in Nat /\ turns[s] + 1 \in 0..MaxTurns
  BY GoodNow, Typed, SessionAssumption DEF Message
<1>1. /\ turns' = [turns EXCEPT ![s] = turns[s] + 1]
      /\ turns'[s] = turns[s] + 1
  BY DEF IInv, TypeOK, Message
<1>2. User(s)' = m
  BY <1>1 DEF User
<1>3. m \in Msg
  <2>1. <<turns[s] + 1, 0>> \in Nat \X Nat
    BY <1>0
  <2>2. <<<<turns[s] + 1, 0>>>> \in Text
    BY <2>1 DEF Text
  <2> QED
    BY <2>2 DEF Msg
<1> HIDE DEF m
<1>4. /\ history' = [history EXCEPT ![s] = Append(history[s], m)]
      /\ history'[s] = Append(history[s], m)
  BY <1>2 DEF IInv, TypeOK, Message
<1>5. Append(history[s], m) \in Seq(Msg)
  BY <1>3, Typed, Appended
<1>6. TypeOK'
  <2>1. /\ history' \in [Sessions -> Seq([role : {"user", "assistant"}, content : Text])]
        /\ turns' \in [Sessions -> 0..MaxTurns]
    BY <1>0, <1>1, <1>4, <1>5 DEF IInv, TypeOK, Msg
  <2>2. <<>> \in Text /\ <<>> \in Seq([type : {"delta", "done"}, text : Text])
    BY DEF Text
  <2>3. /\ client' \in [Sessions -> {"here", "gone"}]
        /\ handler' \in [Sessions -> {"new", "receive", "turn", "join", "closed"}]
        /\ worker' \in [Sessions -> {"none", "waiting", "running", "finished", "failed"}]
        /\ parts' \in [Sessions -> Text] /\ draft' \in [Sessions -> Text]
        /\ queue' \in [Sessions -> Seq([type : {"delta", "done"}, text : Text])]
        /\ UNCHANGED <<genLock, view>>
    <3>1. CASE /\ handler' = [handler EXCEPT ![s] = "turn"]
               /\ worker' = [worker EXCEPT ![s] = "waiting"]
               /\ parts' = [parts EXCEPT ![s] = <<>>]
               /\ queue' = [queue EXCEPT ![s] = <<>>]
               /\ draft' = [draft EXCEPT ![s] = <<>>]
               /\ UNCHANGED client
      <4>1. parts' \in [Sessions -> Text] /\ draft' \in [Sessions -> Text]
        BY <2>2, <3>1 DEF IInv, TypeOK
      <4>2. queue' \in [Sessions -> Seq([type : {"delta", "done"}, text : Text])]
        BY <2>2, <3>1 DEF IInv, TypeOK
      <4> QED
        BY <3>1, <4>1, <4>2 DEF IInv, TypeOK, Message
    <3>2. CASE /\ client' = [client EXCEPT ![s] = "gone"]
               /\ handler' = [handler EXCEPT ![s] = "closed"]
               /\ UNCHANGED <<worker, parts, queue, draft>>
      BY <3>2 DEF IInv, TypeOK, Message
    <3> QED
      BY <3>1, <3>2 DEF Message
  <2> QED
    BY <2>1, <2>3 DEF IInv, TypeOK
<1>7. Only(s)
  BY DEF IInv, TypeOK, Message, Only
<1>8. Len(history[s]) % 2 = 0 /\ history[s] = view[s] /\ worker[s] \in {"none", "finished"}
  BY <1>0 DEF Good, Phase, Agrees
<1>9. Alternates(s)' /\ Len(history'[s]) = Len(history[s]) + 1
  <2>1. (Len(history[s]) + 1) % 2 = 1
    BY <1>8, Typed, OddEven
  <2>2. m.role = "user"
    BY DEF m
  <2> QED
    BY <1>0, <1>3, <1>4, <2>1, <2>2, Typed, AlternatesOn DEF Good
<1>10. Len(history'[s]) % 2 = 1
  BY <1>8, <1>9, Typed, OddEven
<1>11. view' = view /\ genLock' = genLock /\ genLock # s
  BY <1>0, <1>8 DEF Message, Good, LockedWorker
<1>12. CASE handler'[s] = "turn" /\ worker'[s] = "waiting" /\ parts'[s] = <<>>
            /\ queue'[s] = <<>> /\ draft'[s] = <<>>
  <2>1. LockedWorker(s)' /\ Agrees(s)'
    BY <1>2, <1>4, <1>8, <1>11, <1>12 DEF LockedWorker, Agrees
  <2>2. Phase(s)'
    BY <1>10, <1>12 DEF Phase
  <2>3. Streaming(s)'
    BY <1>12 DEF Streaming, Ended
  <2> QED
    BY <1>6, <1>7, <1>9, <2>1, <2>2, <2>3, OneMoves DEF Good
<1>13. CASE handler'[s] = "closed" /\ worker' = worker
  <2>1. LockedWorker(s)' /\ Agrees(s)' /\ Phase(s)' /\ Streaming(s)'
    BY <1>8, <1>11, <1>13 DEF LockedWorker, Agrees, Phase, Streaming
  <2> QED
    BY <1>6, <1>7, <1>9, <2>1, OneMoves DEF Good
<1> QED
  BY <1>12, <1>13 DEF IInv, TypeOK, Message

-----------------------------------------------------------------------------
(* The worker *)

\* The worker enters _run.
LEMMA TakeGenStep ==
    ASSUME IInv, NEW s \in Sessions, TakeGen(s)
    PROVE  IInv'
<1>1. TypeOK'
  BY DEF IInv, TypeOK, TakeGen
<1>2. Only(s)
  BY DEF IInv, TypeOK, TakeGen, Only
<1>3. /\ worker[s] = "waiting" /\ worker'[s] = "running" /\ genLock' = s
      /\ UNCHANGED <<handler, history, parts, queue, turns, draft, view>>
  BY DEF IInv, TypeOK, TakeGen
<1>4. Good(s)
  BY GoodNow
<1>5. Good(s)'
  BY <1>3, <1>4 DEF Good, LockedWorker, Phase, Streaming, Agrees, Alternates, Ended, User
<1> QED
  BY <1>1, <1>2, <1>5, OneMoves

\* A delta enters parts and the queue together.
LEMMA GenerateStep ==
    ASSUME IInv, NEW s \in Sessions, Generate(s)
    PROVE  IInv'
<1> DEFINE d == <<turns[s], Len(parts[s]) + 1>>
           e == Delta(<<d>>)
<1>1. parts[s] \in Text /\ queue[s] \in Seq(Event) /\ Len(parts[s]) \in Nat
  BY Typed
<1>2. d \in Nat \X Nat /\ e \in Event
  <2>1. d \in Nat \X Nat
    BY Typed, SessionAssumption
  <2>2. <<d>> \in Text
    BY <2>1 DEF Text
  <2> QED
    BY <2>1, <2>2 DEF Delta, Event
<1>3. /\ worker[s] = "running"
      /\ parts' = [parts EXCEPT ![s] = Append(parts[s], d)]
      /\ queue' = [queue EXCEPT ![s] = Append(queue[s], e)]
      /\ UNCHANGED <<client, handler, history, worker, genLock, turns, draft, view>>
  BY DEF Generate
<1> HIDE DEF e, d
<1>4. parts'[s] = Append(parts[s], d) /\ queue'[s] = Append(queue[s], e)
  BY <1>3 DEF IInv, TypeOK
<1>5. Append(parts[s], d) \in Text /\ Append(queue[s], e) \in Seq(Event)
  BY <1>1, <1>2, Appended DEF Text
<1>6. TypeOK'
  BY <1>3, <1>5 DEF IInv, TypeOK, Event
<1>7. Only(s)
  BY <1>3 DEF IInv, TypeOK, Only
<1>8. Good(s)
  BY GoodNow
<1>9. LockedWorker(s)' /\ Phase(s)' /\ Agrees(s)' /\ Alternates(s)'
  BY <1>3, <1>8 DEF Good, LockedWorker, Phase, Agrees, Alternates, Ended, User
<1>10. Streaming(s)'
  <2> SUFFICES ASSUME handler[s] = "turn"
               PROVE  Streaming(s)'
    BY <1>3 DEF Streaming
  <2>1. PICK rest \in Nat :
           /\ Len(parts[s]) = Len(draft[s]) + rest
           /\ \A i \in 1..Len(draft[s]) : draft[s][i] = parts[s][i]
           /\ Len(queue[s]) = IF Ended(s) THEN rest + 1 ELSE rest
           /\ \A i \in 1..rest : queue[s][i] = Delta(<<parts[s][Len(draft[s]) + i]>>)
           /\ (Ended(s) => queue[s][rest + 1] = Done(parts[s]))
    BY Waiting
  <2> DEFINE sent == Len(draft[s])
  <2>2. sent \in Nat /\ Len(queue[s]) = rest /\ ~Ended(s) /\ ~Ended(s)'
    BY <1>3, <2>1, Typed DEF Ended
  <2>3. /\ Len(parts'[s]) = Len(parts[s]) + 1
        /\ \A i \in 1..Len(parts[s]) : parts'[s][i] = parts[s][i]
        /\ parts'[s][Len(parts[s]) + 1] = d
    BY <1>1, <1>2, <1>4, Appended DEF Text
  <2>4. /\ Len(queue'[s]) = rest + 1
        /\ \A i \in 1..rest : queue'[s][i] = queue[s][i]
        /\ queue'[s][rest + 1] = e
    BY <1>1, <1>2, <1>4, <2>2, Appended
  <2>5. draft'[s] = draft[s]
    BY <1>3
  <2> HIDE DEF sent
  <2>6. Len(parts[s]) = sent + rest
    BY <2>1 DEF sent
  <2>7. \A i \in 1..sent : draft[s][i] = parts'[s][i]
    <3> SUFFICES ASSUME NEW i \in 1..sent PROVE draft[s][i] = parts'[s][i]
      OBVIOUS
    <3>1. i \in 1..Len(parts[s])
      BY <2>2, <2>6
    <3> QED
      BY <2>1, <2>3, <3>1 DEF sent
  <2>8. ASSUME NEW i \in 1..rest + 1
        PROVE  queue'[s][i] = Delta(<<parts'[s][sent + i]>>)
    <3>1. CASE i = rest + 1
      <4>1. sent + i = Len(parts[s]) + 1
        BY <2>2, <2>6, <3>1
      <4> QED
        BY <2>3, <2>4, <3>1, <4>1 DEF e
    <3>2. CASE i # rest + 1
      <4>1. i \in 1..rest /\ sent + i \in 1..Len(parts[s])
        BY <2>2, <2>6, <3>2
      <4> QED
        BY <2>1, <2>3, <2>4, <4>1 DEF sent
    <3> QED
      BY <3>1, <3>2
  <2>9. Len(draft'[s]) = sent
    BY <2>5 DEF sent
  <2>10. Len(parts'[s]) - Len(draft'[s]) = rest + 1 /\ rest + 1 \in Nat
    BY <2>2, <2>3, <2>6, <2>9
  <2> QED
    BY <2>2, <2>4, <2>5, <2>7, <2>8, <2>9, <2>10, StreamsOn
<1> QED
  BY <1>6, <1>7, <1>9, <1>10, OneMoves DEF Good

\* What the queue holds of the last turn is completed, and the lock is free.
LEMMA WorkerEndsStep ==
    ASSUME IInv, NEW s \in Sessions, WorkerEnds(s)
    PROVE  IInv'
<1> DEFINE e == Done(parts[s])
<1>1. parts[s] \in Text /\ queue[s] \in Seq(Event) /\ e \in Event /\ Len(queue[s]) \in Nat
  BY Typed DEF Done, Event
<1>2. /\ worker[s] = "running" /\ Ended(s)' /\ worker'[s] # "running" /\ worker'[s] # "none"
      /\ queue' = [queue EXCEPT ![s] = Append(queue[s], e)]
      /\ queue'[s] = Append(queue[s], e)
      /\ genLock' = None
      /\ UNCHANGED <<client, handler, history, parts, turns, draft, view>>
  BY DEF WorkerEnds, IInv, TypeOK, Ended
<1> HIDE DEF e
<1>3. Append(queue[s], e) \in Seq(Event)
  BY <1>1, Appended
<1>4. TypeOK'
  <2>1. worker' \in [Sessions -> {"none", "waiting", "running", "finished", "failed"}]
    BY DEF IInv, TypeOK, WorkerEnds
  <2> QED
    BY <1>2, <1>3, <2>1 DEF IInv, TypeOK, Event
<1>5. Good(s)
  BY GoodNow
<1>6. Only(s)
  <2>1. genLock = s
    BY <1>2, <1>5 DEF Good, LockedWorker
  <2> QED
    BY <1>2, <2>1 DEF IInv, TypeOK, WorkerEnds, Only
<1>7. LockedWorker(s)' /\ Agrees(s)' /\ Alternates(s)'
  BY <1>2, <1>5, SessionAssumption DEF Good, LockedWorker, Agrees, Alternates, User, None
<1>8. Phase(s)'
  BY <1>2, <1>5 DEF Good, Phase, Ended
<1>9. Streaming(s)'
  <2> SUFFICES ASSUME handler[s] = "turn"
               PROVE  Streaming(s)'
    BY <1>2 DEF Streaming
  <2>1. PICK rest \in Nat :
           /\ Len(parts[s]) = Len(draft[s]) + rest
           /\ \A i \in 1..Len(draft[s]) : draft[s][i] = parts[s][i]
           /\ Len(queue[s]) = IF Ended(s) THEN rest + 1 ELSE rest
           /\ \A i \in 1..rest : queue[s][i] = Delta(<<parts[s][Len(draft[s]) + i]>>)
           /\ (Ended(s) => queue[s][rest + 1] = Done(parts[s]))
    BY Waiting
  <2>2. Len(queue[s]) = rest
    BY <1>2, <2>1 DEF Ended
  <2>3. /\ Len(queue'[s]) = rest + 1
        /\ \A i \in 1..rest : queue'[s][i] = queue[s][i]
        /\ queue'[s][rest + 1] = e
    BY <1>1, <1>2, <2>2, Appended
  <2>4. draft'[s] = draft[s] /\ parts'[s] = parts[s]
    BY <1>2
  <2>5. Len(parts[s]) - Len(draft[s]) = rest
    BY <2>1, Typed
  <2>6. \A i \in 1..rest : queue'[s][i] = Delta(<<parts'[s][Len(draft'[s]) + i]>>)
    BY <2>1, <2>3, <2>4
  <2>7. Len(queue'[s]) = IF Ended(s)' THEN rest + 1 ELSE rest
    BY <1>2, <2>3
  <2>8. queue'[s][rest + 1] = Done(parts'[s])
    BY <2>3, <2>4 DEF e
  <2> QED
    BY <2>1, <2>4, <2>5, <2>6, <2>7, <2>8, StreamsOn
<1> QED
  BY <1>4, <1>6, <1>7, <1>8, <1>9, OneMoves DEF Good

-----------------------------------------------------------------------------
(* The coroutine *)

\* What a received frame is: of a delta there is one left to relay, and the
\* first of the queue is the next of parts; done comes when none is left.
LEMMA ReceivedIsNext ==
    ASSUME IInv, NEW s \in Sessions, NEW type, Received(s, type)
    PROVE  /\ handler[s] = "turn" /\ queue[s] # <<>>
           /\ type = "delta" =>
                 /\ Len(draft[s]) + 1 \in 1..Len(parts[s])
                 /\ Head(queue[s]).text = <<parts[s][Len(draft[s]) + 1]>>
           /\ type = "done" =>
                 /\ Ended(s) /\ draft[s] = parts[s]
                 /\ Head(queue[s]).text = parts[s]
<1>1. /\ handler[s] = "turn" /\ queue[s] # <<>> /\ Head(queue[s]).type = type
      /\ Head(queue[s]) = queue[s][1] /\ Len(queue[s]) \in Nat \ {0}
  BY Typed, Tailed DEF Received
<1>2. PICK rest \in Nat :
         /\ Len(parts[s]) = Len(draft[s]) + rest
         /\ \A i \in 1..Len(draft[s]) : draft[s][i] = parts[s][i]
         /\ Len(queue[s]) = IF Ended(s) THEN rest + 1 ELSE rest
         /\ \A i \in 1..rest : queue[s][i] = Delta(<<parts[s][Len(draft[s]) + i]>>)
         /\ (Ended(s) => queue[s][rest + 1] = Done(parts[s]))
  BY <1>1, Waiting
<1>3. CASE rest # 0
  <2>1. queue[s][1] = Delta(<<parts[s][Len(draft[s]) + 1]>>)
    BY <1>2, <1>3
  <2>2. Len(draft[s]) + 1 \in 1..Len(parts[s])
    BY <1>2, <1>3, Typed
  <2>3. type = "delta" /\ Head(queue[s]).text = <<parts[s][Len(draft[s]) + 1]>>
    BY <1>1, <2>1 DEF Delta
  <2> QED
    BY <1>1, <2>2, <2>3
<1>4. CASE rest = 0
  <2>1. Ended(s) /\ queue[s][1] = Done(parts[s])
    BY <1>1, <1>2, <1>4
  <2>2. type = "done" /\ Head(queue[s]).text = parts[s]
    BY <1>1, <2>1 DEF Done
  <2>3. draft[s] = parts[s]
    <3>1. draft[s] \in Seq(Nat \X Nat) /\ parts[s] \in Seq(Nat \X Nat)
      BY Typed DEF Text
    <3>2. Len(draft[s]) = Len(parts[s])
      BY <1>2, <1>4, Typed
    <3> QED
      BY <1>2, <3>1, <3>2, SameSequence
  <2> QED
    BY <1>1, <2>1, <2>2, <2>3
<1> QED
  BY <1>3, <1>4

\* The deltas relayed are one more, those waiting one less.
LEMMA RelayDeltaStep ==
    ASSUME IInv, NEW s \in Sessions, RelayDelta(s)
    PROVE  IInv'
<1> DEFINE x == parts[s][Len(draft[s]) + 1]
<1>1. /\ handler[s] = "turn" /\ queue[s] # <<>>
      /\ Len(draft[s]) + 1 \in 1..Len(parts[s]) /\ Head(queue[s]).text = <<x>>
  BY ReceivedIsNext DEF RelayDelta
<1>2. parts[s] \in Seq(Nat \X Nat) /\ draft[s] \in Seq(Nat \X Nat) /\ queue[s] \in Seq(Event)
  BY Typed DEF Text
<1>3. x \in Nat \X Nat
  BY <1>1, <1>2
<1> HIDE DEF x
<1>4. draft[s] \o <<x>> = Append(draft[s], x)
  BY <1>2, <1>3, Joined
<1>5. /\ draft' = [draft EXCEPT ![s] = Append(draft[s], x)]
      /\ queue' = [queue EXCEPT ![s] = Tail(queue[s])]
      /\ handler'[s] \in {"turn", "closed"}
      /\ UNCHANGED <<client, history, worker, parts, genLock, turns, view>>
  BY <1>1, <1>4 DEF RelayDelta, Received, Sending, IInv, TypeOK
<1>6. draft'[s] = Append(draft[s], x) /\ queue'[s] = Tail(queue[s])
  BY <1>5 DEF IInv, TypeOK
<1>7. TypeOK'
  <2>1. Append(draft[s], x) \in Text /\ Tail(queue[s]) \in Seq(Event)
    BY <1>1, <1>2, <1>3, Appended, Tailed DEF Text
  <2>2. handler' \in [Sessions -> {"new", "receive", "turn", "join", "closed"}]
    BY DEF RelayDelta, Sending, IInv, TypeOK
  <2> QED
    BY <1>5, <2>1, <2>2 DEF IInv, TypeOK, Event
<1>8. Only(s)
  BY <1>5 DEF IInv, TypeOK, RelayDelta, Sending, Only
<1>9. Good(s)
  BY GoodNow
<1>10. LockedWorker(s)' /\ Phase(s)' /\ Agrees(s)' /\ Alternates(s)'
  BY <1>1, <1>5, <1>9 DEF Good, LockedWorker, Phase, Agrees, Alternates, Ended, User
<1>11. Streaming(s)'
  <2>0. PICK rest \in Nat :
           /\ Len(parts[s]) = Len(draft[s]) + rest
           /\ \A i \in 1..Len(draft[s]) : draft[s][i] = parts[s][i]
           /\ Len(queue[s]) = IF Ended(s) THEN rest + 1 ELSE rest
           /\ \A i \in 1..rest : queue[s][i] = Delta(<<parts[s][Len(draft[s]) + i]>>)
           /\ (Ended(s) => queue[s][rest + 1] = Done(parts[s]))
    BY <1>1, Waiting
  <2> DEFINE sent == Len(draft[s])
  <2>1. /\ sent \in Nat /\ rest \in Nat \ {0} /\ Len(parts[s]) = sent + rest
        /\ Len(queue[s]) \in Nat
    BY <1>1, <2>0, Typed
  <2>2. /\ Len(draft'[s]) = sent + 1
        /\ \A i \in 1..sent : draft'[s][i] = draft[s][i]
        /\ draft'[s][sent + 1] = x
    BY <1>2, <1>3, <1>6, Appended
  <2>3. /\ Len(queue'[s]) = Len(queue[s]) - 1
        /\ \A i \in 1..Len(queue[s]) - 1 : queue'[s][i] = queue[s][i + 1]
    BY <1>1, <1>2, <1>6, Tailed
  <2>x. x = parts[s][sent + 1]
    BY DEF x
  <2> HIDE DEF sent
  <2>4. \A i \in 1..sent + 1 : draft'[s][i] = parts[s][i]
    <3> SUFFICES ASSUME NEW i \in 1..sent + 1 PROVE draft'[s][i] = parts[s][i]
      OBVIOUS
    <3>1. CASE i = sent + 1
      BY <2>2, <2>x, <3>1
    <3>2. CASE i # sent + 1
      <4>1. i \in 1..sent
        BY <2>1, <3>2
      <4> QED
        BY <2>0, <2>2, <4>1 DEF sent
    <3> QED
      BY <3>1, <3>2
  <2>5. Len(queue'[s]) = IF Ended(s) THEN (rest - 1) + 1 ELSE rest - 1
    BY <2>0, <2>1, <2>3
  <2>6. \A i \in 1..rest - 1 : queue'[s][i] = Delta(<<parts[s][sent + 1 + i]>>)
    <3> SUFFICES ASSUME NEW i \in 1..rest - 1
                 PROVE  queue'[s][i] = Delta(<<parts[s][sent + 1 + i]>>)
      OBVIOUS
    <3>1. /\ i + 1 \in 1..rest /\ i \in 1..Len(queue[s]) - 1
          /\ sent + (i + 1) = sent + 1 + i
      BY <2>0, <2>1
    <3>2. queue[s][i + 1] = Delta(<<parts[s][sent + (i + 1)]>>)
      BY <2>0, <3>1 DEF sent
    <3> QED
      BY <2>3, <3>1, <3>2
  <2>7. Ended(s) => queue'[s][(rest - 1) + 1] = Done(parts[s])
    <3> SUFFICES ASSUME Ended(s) PROVE queue'[s][(rest - 1) + 1] = Done(parts[s])
      OBVIOUS
    <3>1. rest \in 1..Len(queue[s]) - 1 /\ (rest - 1) + 1 = rest
      BY <2>0, <2>1
    <3> QED
      BY <2>0, <2>3, <3>1
  <2>8. parts'[s] = parts[s] /\ (Ended(s)' <=> Ended(s))
    BY <1>5 DEF Ended
  <2>9. rest - 1 \in Nat /\ Len(parts'[s]) - Len(draft'[s]) = rest - 1
    BY <2>1, <2>2, <2>8
  <2>10. Len(queue'[s]) = IF Ended(s)' THEN (rest - 1) + 1 ELSE rest - 1
    BY <2>5, <2>8
  <2>11. /\ \A i \in 1..Len(draft'[s]) : draft'[s][i] = parts'[s][i]
         /\ \A i \in 1..rest - 1 : queue'[s][i] = Delta(<<parts'[s][Len(draft'[s]) + i]>>)
    BY <2>2, <2>4, <2>6, <2>8
  <2>12. Ended(s)' => queue'[s][(rest - 1) + 1] = Done(parts'[s])
    BY <2>7, <2>8
  <2> QED
    BY <2>9, <2>10, <2>11, <2>12, StreamsOn
<1> QED
  BY <1>7, <1>8, <1>10, <1>11, OneMoves DEF Good

\* The whole text enters the history, and the client has all of it.
LEMMA RelayDoneStep ==
    ASSUME IInv, NEW s \in Sessions, RelayDone(s)
    PROVE  IInv'
<1> DEFINE m == Assistant(parts[s])
<1>1. /\ handler[s] = "turn" /\ queue[s] # <<>> /\ Ended(s)
      /\ draft[s] = parts[s] /\ Head(queue[s]).text = parts[s]
  BY ReceivedIsNext DEF RelayDone
<1>2. m \in Msg /\ User(s) \in Msg
  <2>1. <<turns[s], 0>> \in Nat \X Nat
    BY Typed, SessionAssumption
  <2>2. <<<<turns[s], 0>>>> \in Text
    BY <2>1 DEF Text
  <2> QED
    BY <2>2, Typed DEF Assistant, User, Msg
<1>3. Good(s)
  BY GoodNow
<1>4. history[s] = Append(view[s], User(s)) /\ Len(history[s]) % 2 = 1
  BY <1>1, <1>3 DEF Good, Agrees, Phase
<1>5. view[s] \o <<User(s), m>> = Append(history[s], m)
  BY <1>2, <1>4, Typed, JoinedTwo
<1>6. /\ history' = [history EXCEPT ![s] = Append(history[s], m)]
      /\ view' = [view EXCEPT ![s] = view[s] \o <<User(s), m>>]
      /\ queue' = [queue EXCEPT ![s] = Tail(queue[s])]
      /\ handler'[s] \in {"join", "closed"}
      /\ UNCHANGED <<client, worker, parts, genLock, turns, draft>>
  BY <1>1 DEF RelayDone, Received, Sending, IInv, TypeOK
<1> HIDE DEF m
<1>7. history'[s] = Append(history[s], m) /\ view'[s] = Append(history[s], m)
  BY <1>5, <1>6 DEF IInv, TypeOK
<1>8. Append(history[s], m) \in Seq(Msg) /\ Tail(queue[s]) \in Seq(Event)
  BY <1>1, <1>2, Typed, Appended, Tailed
<1>9. TypeOK'
  <2>1. handler' \in [Sessions -> {"new", "receive", "turn", "join", "closed"}]
    BY DEF RelayDone, Sending, IInv, TypeOK
  <2> QED
    BY <1>5, <1>6, <1>8, <2>1 DEF IInv, TypeOK, Msg, Event
<1>10. Only(s)
  BY <1>6 DEF IInv, TypeOK, RelayDone, Sending, Only
<1>11. Alternates(s)' /\ Len(history'[s]) = Len(history[s]) + 1
  <2>1. (Len(history[s]) + 1) % 2 = 0
    BY <1>4, Typed, OddEven
  <2>2. m.role = "assistant"
    BY DEF m, Assistant
  <2>3. m.role = IF (Len(history[s]) + 1) % 2 = 1 THEN "user" ELSE "assistant"
    <3>1. (Len(history[s]) + 1) % 2 # 1
      BY <2>1, 0 # 1
    <3> QED
      BY <2>2, <3>1
  <2>4. Alternates(s) /\ history[s] \in Seq(Msg)
    BY <1>3, Typed DEF Good
  <2> QED
    BY <1>2, <1>7, <2>3, <2>4, AlternatesOn
<1>12. Len(history'[s]) % 2 = 0
  BY <1>4, <1>11, Typed, OddEven
<1>13. LockedWorker(s)' /\ Agrees(s)' /\ Phase(s)' /\ Streaming(s)'
  BY <1>1, <1>3, <1>6, <1>7, <1>12 DEF Good, LockedWorker, Agrees, Phase, Streaming, Ended
<1> QED
  BY <1>9, <1>10, <1>11, <1>13, OneMoves DEF Good


-----------------------------------------------------------------------------
\* No conversation has begun.
LEMMA Initially == Init => IInv
<1> SUFFICES ASSUME Init PROVE IInv
  OBVIOUS
<1>1. <<>> \in Text /\ <<>> \in Seq([role : {"user", "assistant"}, content : Text])
      /\ <<>> \in Seq([type : {"delta", "done"}, text : Text])
  BY DEF Text
<1>2. TypeOK
  <2>1. 0 \in 0..MaxTurns
    BY SessionAssumption
  <2> QED
    BY <1>1, <2>1 DEF Init, TypeOK
<1>3. ASSUME NEW s \in Sessions PROVE Good(s)
  <2>1. Len(history[s]) = 0
    BY DEF Init
  <2>2. Alternates(s)
    BY <2>1 DEF Alternates
  <2>3. LockedWorker(s)
    BY SessionAssumption DEF Init, LockedWorker, None
  <2>4. Phase(s) /\ Agrees(s)
    BY DEF Init, Phase, Agrees
  <2>5. Streaming(s)
    BY DEF Init, Streaming
  <2> QED
    BY <2>2, <2>3, <2>4, <2>5 DEF Good
<1> QED
  BY <1>2, <1>3 DEF IInv, ConversationAgrees, Alternating, Good

\* Every step keeps the invariant, one lemma a case.
LEMMA Preserved == IInv /\ Next => IInv'
<1> SUFFICES ASSUME IInv, NEW s \in Sessions,
                    Frame(s) \/ Worker(s) \/ Coroutine(s) \/ Leave(s)
             PROVE  IInv'
  BY DEF Next
<1>1. CASE Frame(s)
  BY <1>1, ConnectStep, ConfigureStep, MessageStep, BadFrameStep DEF Frame
<1>2. CASE Worker(s)
  BY <1>2, TakeGenStep, GenerateStep, WorkerEndsStep DEF Worker
<1>3. CASE Coroutine(s)
  BY <1>3, RelayDeltaStep, RelayDoneStep, JoinStep, NoticeLeaveStep DEF Coroutine
<1>4. CASE Leave(s)
  BY <1>4, LeaveStep
<1> QED
  BY <1>1, <1>2, <1>3, <1>4

\* So does a step of something else.
LEMMA Stuttering == IInv /\ UNCHANGED vars => IInv'
<1> SUFFICES ASSUME IInv, UNCHANGED vars PROVE IInv'
  OBVIOUS
<1>1. UNCHANGED <<client, handler, history, worker, parts, queue, genLock, turns, draft, view>>
  BY DEF vars
<1>2. TypeOK'
  BY <1>1 DEF IInv, TypeOK
<1>3. ASSUME NEW s \in Sessions PROVE Good(s)'
  BY <1>1, GoodNow
     DEF Good, LockedWorker, Phase, Streaming, Agrees, Alternates, Ended, User
<1> QED
  BY <1>2, <1>3 DEF IInv, ConversationAgrees, Alternating, Good

\* The strengthened invariant of sessions (serve.py:728-770), for any number of
\* connections, messages and deltas.
THEOREM Inductive == Spec => []IInv
<1>1. Init => IInv
  BY Initially
<1>2. IInv /\ [Next]_vars => IInv'
  BY Preserved, Stuttering
<1> QED
  BY <1>1, <1>2, PTL DEF Spec

\* Between turns the history of a connection is the conversation its client was
\* told, through failures, resets and clients that leave (serve.py:737-765).
THEOREM ConversationCorrect == Spec => []ConversationAgrees
<1>1. IInv => ConversationAgrees
  BY DEF IInv
<1> QED
  BY <1>1, Inductive, PTL

\* The messages given to the chat template always alternate, the user's first
\* (serve.py:737, 761).
THEOREM RolesAlternate == Spec => []Alternating
<1>1. IInv => Alternating
  BY DEF IInv
<1> QED
  BY <1>1, Inductive, PTL

=============================================================================
