--------------------------- MODULE GenerateProofs ---------------------------
(***************************************************************************)
(* Proofs about Generate, for any vocabulary, prompt, budget, limit and    *)
(* context.  What is shown is counted with Cardinality and not filtered    *)
(* with SelectSeq, so that a token more is one element more.               *)
(***************************************************************************)
EXTENDS Generate, FiniteSetTheorems, SequenceTheorems, WellFoundedInduction, TLAPS

Entry == [tok : Vocab \ {Eos}, think : BOOLEAN]

-----------------------------------------------------------------------------
(* Numbers *)

\* The least of two numbers, which CHOOSE hides from the solver ...
LEMMA MinTwo ==
    ASSUME NEW x \in Int, NEW y \in Int
    PROVE  MinOf({x, y}) = IF x <= y THEN x ELSE y
<1> DEFINE least == IF x <= y THEN x ELSE y
<1>1. least \in {x, y} /\ \A z \in {x, y} : least <= z
  OBVIOUS
<1>2. \A m \in {x, y} : (\A z \in {x, y} : m <= z) => m = least
  OBVIOUS
<1> HIDE DEF least
<1>3. MinOf({x, y}) = least
  BY <1>1, <1>2 DEF MinOf
<1> QED
  BY <1>3 DEF least

\* ... of three, as a bound ...
LEMMA MinThree ==
    ASSUME NEW x \in Int, NEW y \in Int, NEW z \in Int
    PROVE  /\ MinOf({x, y, z}) \in Int
           /\ MinOf({x, y, z}) <= x /\ MinOf({x, y, z}) <= y /\ MinOf({x, y, z}) <= z
<1>1. \E m \in {x, y, z} : \A k \in {x, y, z} : m <= k
  OBVIOUS
<1>2. MinOf({x, y, z}) \in {x, y, z} /\ \A k \in {x, y, z} : MinOf({x, y, z}) <= k
  BY <1>1 DEF MinOf
<1> QED
  BY <1>2

\* ... and the greatest of two.
LEMMA MaxTwo ==
    ASSUME NEW x \in Int, NEW y \in Int
    PROVE  MaxOf({x, y}) = IF x >= y THEN x ELSE y
<1> DEFINE most == IF x >= y THEN x ELSE y
<1>1. most \in {x, y} /\ \A z \in {x, y} : most >= z
  OBVIOUS
<1>2. \A m \in {x, y} : (\A z \in {x, y} : m >= z) => m = most
  OBVIOUS
<1> HIDE DEF most
<1>3. MaxOf({x, y}) = most
  BY <1>1, <1>2 DEF MaxOf
<1> QED
  BY <1>3 DEF most

\* The room _fit leaves, and the cut of the prompt.
LEMMA Fits ==
    ASSUME NEW promptLen \in Nat, NEW reqMax \in Nat
    PROVE  /\ Fit(promptLen, reqMax) \in Nat \ {0}
           /\ MinOf({promptLen, MAXT - 1}) + Fit(promptLen, reqMax) <= MAXT
<1> DEFINE room == MinOf({reqMax, OUTPUT_CAP, MAXT - promptLen})
<1>1. MAXT \in Nat \ {0} /\ OUTPUT_CAP \in Nat
  BY GenerateAssumption
<1>2. room \in Int /\ room <= MAXT - promptLen
  <2>1. reqMax \in Int /\ OUTPUT_CAP \in Int /\ MAXT - promptLen \in Int
    BY <1>1
  <2> QED
    BY <2>1, MinThree
<1> HIDE DEF room
<1>3. Fit(promptLen, reqMax) = IF 1 >= room THEN 1 ELSE room
  BY <1>2, MaxTwo DEF Fit, room
<1>4. MinOf({promptLen, MAXT - 1}) = IF promptLen <= MAXT - 1 THEN promptLen ELSE MAXT - 1
  BY <1>1, MinTwo
<1> QED
  BY <1>1, <1>2, <1>3, <1>4

\* What has been yielded has its types.
LEMMA Yielded ==
    ASSUME IInv
    PROVE  /\ out \in Seq(Entry) /\ Len(out) \in Nat /\ maxNew \in Nat \ {0}
           /\ Len(out) <= maxNew
           /\ thinkN \in Nat /\ thinkN <= Len(out)
<1>1. /\ out \in Seq(Entry) /\ maxNew \in Nat \ {0} /\ Len(out) <= maxNew
      /\ thinkN \in 0 .. Len(out)
  BY DEF IInv, TypeOK, Entry
<1>2. Len(out) \in Nat
  BY <1>1
<1> QED
  BY <1>1, <1>2

\* What the invariant says of the numbers of a generation.
LEMMA PromptCut ==
    ASSUME IInv
    PROVE  n \in Nat /\ maxNew \in Nat \ {0} /\ Len(out) \in Nat /\ promptN \in Nat
<1>1. promptN \in Nat /\ MAXT \in Nat \ {0}
  BY GenerateAssumption DEF IInv, TypeOK
<1>2. n = IF promptN <= MAXT - 1 THEN promptN ELSE MAXT - 1
  BY <1>1, MinTwo DEF n
<1> QED
  BY <1>1, <1>2, Yielded

\* What the loop guard compares for a period.
LEMMA Periods ==
    ASSUME NEW L \in Nat, NEW p \in 1 .. 4
    PROVE  /\ p * (L \div p + 1) \in Nat
           /\ L + 1 <= p * (L \div p + 1) /\ p * (L \div p + 1) <= L + p
           /\ L >= 4 => 2 * p <= p * (L \div p + 1)
<1>1. CASE p = 1
  BY <1>1
<1>2. CASE p = 2
  BY <1>2
<1>3. CASE p = 3
  BY <1>3
<1>4. CASE p = 4
  BY <1>4
<1> QED
  BY <1>1, <1>2, <1>3, <1>4

-----------------------------------------------------------------------------
(* Sequences *)

\* A sequence with one element more.
LEMMA Appended ==
    ASSUME NEW S, NEW q \in Seq(S), NEW x \in S
    PROVE  /\ Append(q, x) \in Seq(S)
           /\ Len(Append(q, x)) = Len(q) + 1 /\ Len(q) \in Nat
           /\ \A i \in 1 .. Len(q) : Append(q, x)[i] = q[i]
           /\ Append(q, x)[Len(q) + 1] = x
OBVIOUS

\* The last k elements of a sequence (deque(maxlen=k)).
LEMMA LastOf ==
    ASSUME NEW S, NEW s \in Seq(S), NEW k \in Nat
    PROVE  /\ Last(s, k) \in Seq(S)
           /\ Len(Last(s, k)) = IF Len(s) <= k THEN Len(s) ELSE k
           /\ \A i \in 1 .. Len(Last(s, k)) : Last(s, k)[i] = s[Len(s) - Len(Last(s, k)) + i]
<1>1. CASE Len(s) <= k
  BY <1>1 DEF Last
<1>2. CASE Len(s) > k
  <2> DEFINE a == Len(s) - k + 1
  <2>1. a \in 1 .. Len(s) + 1 /\ Len(s) \in Nat
    BY <1>2
  <2>2. \A i \in a .. Len(s) : s[i] \in S
    BY <2>1
  <2>3. Last(s, k) = SubSeq(s, a, Len(s))
    BY <1>2 DEF Last
  <2> HIDE DEF a
  <2>4. /\ SubSeq(s, a, Len(s)) \in Seq(S)
        /\ Len(SubSeq(s, a, Len(s))) = IF a <= Len(s) THEN Len(s) - a + 1 ELSE 0
        /\ \A i \in 1 .. Len(s) - a + 1 : SubSeq(s, a, Len(s))[i] = s[a + i - 1]
    BY <2>1, <2>2, SubSeqProperties
  <2>5. Len(SubSeq(s, a, Len(s))) = k
    BY <2>1, <2>4 DEF a
  <2>6. ASSUME NEW i \in 1 .. k PROVE SubSeq(s, a, Len(s))[i] = s[Len(s) - k + i]
    <3>1. i \in 1 .. Len(s) - a + 1 /\ a + i - 1 = Len(s) - k + i
      BY <2>1 DEF a
    <3> QED
      BY <2>4, <3>1
  <2> QED
    BY <1>2, <2>3, <2>4, <2>5, <2>6
<1>3. Len(s) \in Nat
  OBVIOUS
<1> QED
  BY <1>1, <1>2, <1>3

\* A suffix long enough cycles exactly when the whole does.
LEMMA CycleOfTail ==
    ASSUME NEW S, NEW s \in Seq(S), NEW u \in Seq(S), Len(s) <= Len(u),
           \A i \in 1 .. Len(s) : s[i] = u[Len(u) - Len(s) + i],
           NEW p \in Nat, NEW len \in Nat, len <= Len(s)
    PROVE  Cycle(s, p, len) <=> Cycle(u, p, len)
<1>0. Len(s) \in Nat /\ Len(u) \in Nat
  OBVIOUS
<1>1. ASSUME Cycle(s, p, len) PROVE Cycle(u, p, len)
  <2>1. ASSUME NEW j \in Len(u) - len + p + 1 .. Len(u) PROVE u[j] = u[j - p]
    <3> DEFINE i == j - (Len(u) - Len(s))
    <3>1. /\ i \in Len(s) - len + p + 1 .. Len(s)
          /\ i \in 1 .. Len(s) /\ i - p \in 1 .. Len(s)
          /\ Len(u) - Len(s) + i = j /\ Len(u) - Len(s) + (i - p) = j - p
      BY <1>0
    <3> HIDE DEF i
    <3>2. s[i] = s[i - p]
      BY <1>1, <3>1 DEF Cycle
    <3>3. s[i] = u[j] /\ s[i - p] = u[j - p]
      BY <3>1
    <3> QED
      BY <3>2, <3>3
  <2> QED
    BY <1>0, <2>1 DEF Cycle
<1>2. ASSUME Cycle(u, p, len) PROVE Cycle(s, p, len)
  <2>1. ASSUME NEW i \in Len(s) - len + p + 1 .. Len(s) PROVE s[i] = s[i - p]
    <3> DEFINE j == Len(u) - Len(s) + i
    <3>1. /\ j \in Len(u) - len + p + 1 .. Len(u)
          /\ i \in 1 .. Len(s) /\ i - p \in 1 .. Len(s)
          /\ Len(u) - Len(s) + (i - p) = j - p
      BY <1>0
    <3>2. u[j] = u[j - p]
      BY <1>2, <3>1 DEF Cycle
    <3>3. s[i] = u[j] /\ s[i - p] = u[j - p]
      BY <3>1
    <3> QED
      BY <3>2, <3>3
  <2> QED
    BY <1>0, <2>1 DEF Cycle
<1> QED
  BY <1>1, <1>2

\* A cycle is also one over fewer tokens.
LEMMA CycleOfLess ==
    ASSUME NEW S, NEW s \in Seq(S), NEW p \in Nat, NEW len \in Nat, NEW less \in Nat,
           less <= len, Cycle(s, p, len)
    PROVE  Cycle(s, p, less)
BY DEF Cycle

-----------------------------------------------------------------------------
(* The end of the generation *)

\* However _run ends, what was generated stays as it is (serve.py:396-398).
LEMMA RunEndsStep ==
    ASSUME IInv, NEW reason \in {"empty", "eos", "loop", "context", "cap"},
           RunEnds(reason), pc \in {"sample", "advance"}
    PROVE  IInv'
<1>1. n' = n /\ Thoughts' = Thoughts
  BY DEF RunEnds, engineVars, n, Thoughts
<1>2. Len(out) \in Nat /\ maxNew \in Nat /\ Len(out) <= maxNew
  BY PromptCut DEF IInv, TypeOK
<1>3. usage' \in 0 .. maxNew /\ finish' \in {"none", "stop", "length"}
  BY <1>2 DEF RunEnds
<1>4. TypeOK'
  BY <1>3 DEF IInv, TypeOK, RunEnds, engineVars
<1>5. ChannelsAgree'
  BY DEF IInv, ChannelsAgree, RunEnds, engineVars
<1>6. Pending' /\ RecentIsTail' /\ Quiet'
  BY DEF Pending, RecentIsTail, Quiet, RunEnds
<1>7. ThoughtsCounted' /\ n' + maxNew' <= MAXT
  BY <1>1 DEF IInv, ThoughtsCounted, RunEnds, engineVars
<1> QED
  BY <1>4, <1>5, <1>6, <1>7 DEF IInv

-----------------------------------------------------------------------------
(* A token more *)

\* generate yields a token: the flag, the count and the output move together (vk_engine.py:570-579).
LEMMA YieldStep ==
    ASSUME IInv, NEW t \in Vocab \ {Eos}, NEW thinking \in BOOLEAN, NEW spent \in Nat,
           Yield(t, thinking, spent),
           thinking = (t = Open \/ (inThink /\ t # Close)),
           spent = IF thinking /\ t # Open THEN thinkN + 1 ELSE thinkN,
           THINK_BUDGET > 0 => spent <= THINK_BUDGET
    PROVE  IInv'
<1> DEFINE e == [tok |-> t, think |-> thinking]
<1>1. /\ pc = "sample" /\ pc' = "consume" /\ Len(out) < maxNew
      /\ out' = Append(out, e) /\ inThink' = thinking /\ thinkN' = spent
      /\ UNCHANGED <<promptN, maxNew, recent, inch, vis, finish, usage, why>>
  BY DEF Yield, runVars
<1>2. out \in Seq(Entry) /\ e \in Entry
  BY DEF IInv, TypeOK, Entry
<1>2a. e.tok = t /\ e.think = thinking
  OBVIOUS
<1> HIDE DEF e
<1>3. /\ out' \in Seq(Entry) /\ Len(out) \in Nat /\ Len(out') = Len(out) + 1
      /\ \A i \in 1 .. Len(out) : out'[i] = out[i]
      /\ out'[Len(out')] = e
  BY <1>1, <1>2, Appended
<1>4. TypeOK'
  <2>1. thinkN \in 0 .. Len(out)
    BY DEF IInv, TypeOK
  <2>2. Len(out') <= maxNew /\ spent \in 0 .. Len(out')
    BY <1>1, <1>3, <2>1, PromptCut
  <2> QED
    BY <1>1, <1>3, <2>2 DEF IInv, TypeOK, Entry
<1>5. Thoughts' = IF thinking /\ t # Open THEN Thoughts \cup {Len(out) + 1} ELSE Thoughts
  <2>1. Thoughts' = {i \in 1 .. Len(out) + 1 : out'[i].think /\ out'[i].tok # Open}
    BY <1>3 DEF Thoughts
  <2>2. /\ out'[Len(out) + 1].think = thinking
        /\ out'[Len(out) + 1].tok = t
    BY <1>2a, <1>3
  <2>3. ASSUME NEW i \in 1 .. Len(out) + 1
        PROVE  i \in Thoughts' <=> \/ i \in Thoughts
                                   \/ i = Len(out) + 1 /\ thinking /\ t # Open
    <3>1. CASE i = Len(out) + 1
      BY <1>3, <2>1, <2>2, <3>1 DEF Thoughts
    <3>2. CASE i # Len(out) + 1
      <4>1. i \in 1 .. Len(out)
        BY <1>3, <3>2
      <4> QED
        BY <1>3, <2>1, <3>2, <4>1 DEF Thoughts
    <3> QED
      BY <3>1, <3>2
  <2>4. Thoughts \subseteq 1 .. Len(out) + 1 /\ Len(out) + 1 \in 1 .. Len(out) + 1
    BY <1>3 DEF Thoughts
  <2> QED
    BY <2>1, <2>3, <2>4
<1>6. ThoughtsCounted'
  <2>1. IsFiniteSet(Thoughts)
    <3>1. IsFiniteSet(1 .. Len(out))
      BY <1>3, FS_Interval
    <3> QED
      BY <3>1, FS_Subset DEF Thoughts
  <2>2. Len(out) + 1 \notin Thoughts
    BY <1>3 DEF Thoughts
  <2>3. Cardinality(Thoughts \cup {Len(out) + 1}) = Cardinality(Thoughts) + 1
    BY <2>1, <2>2, FS_AddElement
  <2>4. Cardinality(Thoughts') = spent
    BY <1>5, <2>3 DEF IInv, ThoughtsCounted
  <2> QED
    BY <1>1, <2>4 DEF ThoughtsCounted
<1>7. ChannelsAgree' /\ Quiet'
  BY <1>1 DEF ChannelsAgree, Quiet
<1>8. Pending'
  <2>1. inch = inThink /\ why = "none"
    BY <1>1 DEF IInv, ChannelsAgree, Pending
  <2>2. Token' = t /\ out'[Len(out')].think = thinking
    BY <1>2a, <1>3 DEF Token
  <2>3. out' # <<>>
    BY <1>3
  <2> QED
    BY <1>1, <2>1, <2>2, <2>3 DEF Pending
<1>9. n' + maxNew' <= MAXT
  BY <1>1 DEF IInv, n
<1>10. RecentIsTail'
  <2>1. /\ Len(recent) = MinOf({Len(out), REPW})
        /\ \A i \in 1 .. Len(recent) : recent[i] = out[Len(out) - Len(recent) + i].tok
    BY <1>1 DEF IInv, RecentIsTail
  <2>2. Len(recent) \in Nat /\ Len(recent) <= Len(out)
    <3>1. REPW \in Int /\ REPW >= 0 /\ Len(out) \in Int /\ Len(out) >= 0
      BY <1>3, GenerateAssumption DEF REPW
    <3>2. MinOf({Len(out), REPW}) = IF Len(out) <= REPW THEN Len(out) ELSE REPW
      BY <3>1, MinTwo
    <3> QED
      BY <2>1, <3>1, <3>2
  <2>3. ASSUME NEW i \in 1 .. Len(recent)
        PROVE  recent[i] = out'[Len(out) - Len(recent) + i].tok
    <3>1. Len(out) - Len(recent) + i \in 1 .. Len(out)
      BY <1>3, <2>2
    <3> QED
      BY <1>3, <2>1, <3>1
  <2>4. Len(out') - 1 = Len(out) /\ REPW' = REPW
    BY <1>3 DEF REPW
  <2> QED
    BY <1>1, <2>1, <2>3, <2>4 DEF RecentIsTail
<1> QED
  BY <1>4, <1>6, <1>7, <1>8, <1>9, <1>10 DEF IInv

\* The budget forces the channel closed (vk_engine.py:570-571).
LEMMA ForceCloseStep ==
    ASSUME IInv, ForceClose
    PROVE  IInv'
<1>1. Yield(Close, FALSE, thinkN) /\ Close \in Vocab \ {Eos} /\ Close # Open
  BY DEF ForceClose, Vocab, Close, Eos, Open
<1>2. thinkN \in Nat /\ (THINK_BUDGET > 0 => thinkN <= THINK_BUDGET)
  BY Yielded DEF IInv, ThoughtsCounted
<1> QED
  BY <1>1, <1>2, YieldStep

\* A token the model sampled (vk_engine.py:573-579).
LEMMA SampleStep ==
    ASSUME IInv, NEW t \in Vocab, Sample(t)
    PROVE  IInv'
<1> DEFINE thinking == t = Open \/ (inThink /\ t # Close)
           spent == IF inThink /\ t \notin {Open, Close} THEN thinkN + 1 ELSE thinkN
<1>1. Yield(t, thinking, spent) /\ t \in Vocab \ {Eos} /\ ~OutOfThoughts
  BY DEF Sample
<1>2. thinkN \in Nat /\ (THINK_BUDGET > 0 => thinkN <= THINK_BUDGET) /\ inThink \in BOOLEAN
  BY Yielded DEF IInv, TypeOK, ThoughtsCounted
<1>3. THINK_BUDGET > 0 => spent <= THINK_BUDGET
  BY <1>1, <1>2, GenerateAssumption DEF OutOfThoughts
<1>4. spent = IF thinking /\ t # Open THEN thinkN + 1 ELSE thinkN
  OBVIOUS
<1>5. thinking \in BOOLEAN /\ spent \in Nat
  BY <1>2
<1>6. thinking = (t = Open \/ (inThink /\ t # Close))
  OBVIOUS
<1> HIDE DEF thinking, spent
<1> QED
  BY <1>1, <1>3, <1>4, <1>5, <1>6, YieldStep

-----------------------------------------------------------------------------
(* The server's side of a token *)

\* Hidden or not, only the server's variables and pc change.
LEMMA ConsumeStep ==
    ASSUME IInv, pc = "consume", pc' \in {"advance", "done"},
           inch' = IF Token = Open THEN TRUE ELSE IF Token = Close THEN FALSE ELSE inch,
           UNCHANGED <<promptN, maxNew, out, inThink, thinkN, recent>>,
           vis' \in Seq(Words \cup Bytes),
           finish' \in {"none", "stop", "length"}, usage' \in 0 .. maxNew,
           why' \in {"none", "stop string"}, pc' = "advance" => why' = "none"
    PROVE  IInv'
<1>1. inch \in BOOLEAN /\ inThink \in BOOLEAN
      /\ inThink = (Token = Open \/ (inch /\ Token # Close)) /\ out # <<>>
  BY DEF IInv, TypeOK, Pending
<1>2. inch' = inThink
  BY <1>1 DEF Open, Close
<1>3. TypeOK'
  BY <1>1, <1>2 DEF IInv, TypeOK
<1>4. n' = n /\ Thoughts' = Thoughts
  BY DEF n, Thoughts
<1>5. ThoughtsCounted' /\ n' + maxNew' <= MAXT
  BY <1>4 DEF IInv, ThoughtsCounted
<1>6. ChannelsAgree' /\ Pending' /\ Quiet'
  BY <1>1, <1>2 DEF ChannelsAgree, Pending, Quiet
<1>7. RecentIsTail'
  BY DEF IInv, RecentIsTail, REPW
<1> QED
  BY <1>3, <1>5, <1>6, <1>7 DEF IInv

\* _run sees a marker or a thought (serve.py:384-386).
LEMMA ConsumeHiddenStep ==
    ASSUME IInv, ConsumeHidden
    PROVE  IInv'
<1>1. why = "none"
  BY DEF IInv, Pending, ConsumeHidden
<1>2. UNCHANGED <<out, inThink, thinkN, recent, vis, finish, usage, why, promptN, maxNew>>
  BY DEF ConsumeHidden, engineVars
<1>3. /\ vis' \in Seq(Words \cup Bytes) /\ finish' \in {"none", "stop", "length"}
      /\ usage' \in 0 .. maxNew
  BY <1>2 DEF IInv, TypeOK
<1> QED
  BY <1>1, <1>2, <1>3, ConsumeStep DEF ConsumeHidden

\* The token just yielded, and what it adds when it is visible.
LEMMA VisibleToken ==
    ASSUME IInv, ConsumeVisible
    PROVE  /\ Token \in Words \cup Bytes
           /\ vis' = Append(vis, Token) /\ vis \in Seq(Words \cup Bytes)
<1>1. Len(out) \in Nat \ {0} /\ out \in Seq(Entry)
  <2>1. out # <<>>
    BY DEF IInv, Pending, ConsumeVisible
  <2> QED
    BY <2>1, Yielded
<1>2. out[Len(out)] \in Entry
  BY <1>1
<1>3. Token \in Vocab \ {Eos, Open, Close}
  BY <1>2 DEF Entry, Token, ConsumeVisible
<1> QED
  BY <1>3 DEF Vocab, ConsumeVisible, IInv, TypeOK

\* _run sees a token of the answer, which may complete a stop string (serve.py:387-395).
LEMMA ConsumeVisibleStep ==
    ASSUME IInv, ConsumeVisible
    PROVE  IInv'
<1>1. vis' \in Seq(Words \cup Bytes)
  BY VisibleToken, Appended
<1>2. why = "none" /\ usage \in 0 .. maxNew /\ Len(out) \in 0 .. maxNew
      /\ finish \in {"none", "stop", "length"}
  <2>1. why = "none" /\ usage \in 0 .. maxNew /\ finish \in {"none", "stop", "length"}
    BY DEF IInv, Pending, TypeOK, ConsumeVisible
  <2>2. Len(out) \in 0 .. maxNew
    BY Yielded
  <2> QED
    BY <2>1, <2>2
<1>3. /\ finish' \in {"none", "stop", "length"} /\ usage' \in 0 .. maxNew
      /\ why' \in {"none", "stop string"} /\ pc' \in {"advance", "done"}
      /\ pc' = "advance" => why' = "none"
  BY <1>2 DEF ConsumeVisible
<1>4. /\ pc = "consume" /\ UNCHANGED <<promptN, maxNew, out, inThink, thinkN, recent>>
      /\ inch' = IF Token = Open THEN TRUE ELSE IF Token = Close THEN FALSE ELSE inch
  BY DEF ConsumeVisible, engineVars
<1> QED
  BY <1>1, <1>3, <1>4, ConsumeStep

-----------------------------------------------------------------------------
(* The engine goes on *)

\* The deque with the token just yielded is the end of all that was yielded.
LEMMA RecentNow ==
    ASSUME IInv, pc = "advance"
    PROVE  /\ recentNow \in Seq(Vocab)
           /\ Len(recentNow) = IF Len(out) <= REPW THEN Len(out) ELSE REPW
           /\ \A i \in 1 .. Len(recentNow) :
                  recentNow[i] = out[Len(out) - Len(recentNow) + i].tok
<1> DEFINE more == Append(recent, Token)
<1>1. Len(out) \in Nat \ {0} /\ out \in Seq(Entry)
  BY Yielded DEF IInv, Pending
<1>2. Token \in Vocab /\ Token = out[Len(out)].tok
  <2>1. out[Len(out)] \in Entry
    BY <1>1
  <2> QED
    BY <2>1 DEF Entry, Token
<1>3. REPW \in Nat
  BY GenerateAssumption DEF REPW
<1>4. /\ recent \in Seq(Vocab)
      /\ Len(recent) = IF Len(out) - 1 <= REPW THEN Len(out) - 1 ELSE REPW
      /\ \A i \in 1 .. Len(recent) : recent[i] = out[Len(out) - 1 - Len(recent) + i].tok
  <2>1. recent \in Seq(Vocab)
    BY DEF IInv, TypeOK
  <2>2. /\ Len(recent) = MinOf({Len(out) - 1, REPW})
        /\ \A i \in 1 .. Len(recent) : recent[i] = out[Len(out) - 1 - Len(recent) + i].tok
    BY DEF IInv, RecentIsTail
  <2>3. MinOf({Len(out) - 1, REPW}) = IF Len(out) - 1 <= REPW THEN Len(out) - 1 ELSE REPW
    BY <1>1, <1>3, MinTwo
  <2> QED
    BY <2>1, <2>2, <2>3
<1>5. /\ more \in Seq(Vocab) /\ Len(more) = Len(recent) + 1 /\ Len(recent) \in Nat
      /\ \A i \in 1 .. Len(recent) : more[i] = recent[i]
      /\ more[Len(recent) + 1] = Token
  BY <1>2, <1>4, Appended
<1> HIDE DEF more
<1>6. /\ Last(more, REPW) \in Seq(Vocab)
      /\ Len(Last(more, REPW)) = IF Len(more) <= REPW THEN Len(more) ELSE REPW
      /\ \A i \in 1 .. Len(Last(more, REPW)) :
             Last(more, REPW)[i] = more[Len(more) - Len(Last(more, REPW)) + i]
  BY <1>3, <1>5, LastOf
<1>7. recentNow = Last(more, REPW)
  BY DEF recentNow, more
<1>8. Len(recentNow) = IF Len(out) <= REPW THEN Len(out) ELSE REPW
  BY <1>1, <1>3, <1>4, <1>5, <1>6, <1>7
<1>9. ASSUME NEW i \in 1 .. Len(recentNow)
      PROVE  recentNow[i] = out[Len(out) - Len(recentNow) + i].tok
  <2> DEFINE k == Len(recentNow)
             j == Len(more) - k + i
  <2>1. recentNow[i] = more[j]
    BY <1>6, <1>7
  <2>2. k \in Nat /\ k <= Len(more) /\ i \in 1 .. k
    BY <1>1, <1>3, <1>4, <1>5, <1>8
  <2> HIDE DEF k
  <2>3. j \in 1 .. Len(recent) + 1 /\ Len(out) - 1 - Len(recent) + j = Len(out) - k + i
    BY <1>1, <1>5, <2>2
  <2>4. CASE j = Len(recent) + 1
    <3>1. Len(out) - k + i = Len(out)
      BY <1>1, <1>5, <2>2, <2>3, <2>4
    <3> QED
      BY <1>2, <1>5, <2>1, <2>4, <3>1 DEF k
  <2>5. CASE j # Len(recent) + 1
    <3>1. j \in 1 .. Len(recent)
      BY <1>5, <2>3, <2>5
    <3>2. more[j] = out[Len(out) - 1 - Len(recent) + j].tok
      BY <1>4, <1>5, <3>1
    <3> QED
      BY <2>1, <2>3, <3>2 DEF k
  <2> QED
    BY <2>4, <2>5
<1> QED
  BY <1>6, <1>7, <1>8, <1>9

\* generate resumes, remembers the token and goes on (vk_engine.py:580-584).
LEMMA AdvanceStep ==
    ASSUME IInv, Advance
    PROVE  IInv'
<1>1. /\ pc = "advance" /\ pc' = "sample" /\ ~Looping /\ recent' = recentNow
      /\ UNCHANGED <<promptN, maxNew, out, inThink, thinkN, inch, vis, finish, usage, why>>
  BY DEF Advance, runVars
<1>2. /\ recentNow \in Seq(Vocab)
      /\ Len(recentNow) = IF Len(out) <= REPW THEN Len(out) ELSE REPW
      /\ \A i \in 1 .. Len(recentNow) :
             recentNow[i] = out[Len(out) - Len(recentNow) + i].tok
  BY <1>1, RecentNow
<1>3. Len(out) \in Nat /\ REPW \in Nat
  BY PromptCut, GenerateAssumption DEF REPW
<1>4. TypeOK'
  <2>1. Len(recentNow) <= REPW
    BY <1>2, <1>3
  <2> QED
    BY <1>1, <1>2, <2>1 DEF IInv, TypeOK, REPW
<1>5. n' = n /\ Thoughts' = Thoughts
  BY <1>1 DEF n, Thoughts
<1>6. ThoughtsCounted' /\ n' + maxNew' <= MAXT
  BY <1>1, <1>5 DEF IInv, ThoughtsCounted
<1>7. ChannelsAgree' /\ Pending'
  BY <1>1 DEF IInv, ChannelsAgree, Pending
<1>8. Quiet'
  BY <1>1 DEF Quiet, Looping
<1>9. RecentIsTail'
  <2>1. MinOf({Len(out), REPW}) = Len(recentNow)
    BY <1>2, <1>3, MinTwo
  <2> QED
    BY <1>1, <1>2, <2>1 DEF RecentIsTail, REPW
<1> QED
  BY <1>4, <1>6, <1>7, <1>8, <1>9 DEF IInv

-----------------------------------------------------------------------------
\* Nothing has been generated, and the room is _fit's.
LEMMA Initially == Init => IInv
<1> SUFFICES ASSUME Init PROVE IInv
  OBVIOUS
<1>1. PICK m \in ReqMaxes : maxNew = Fit(promptN, m)
  BY DEF Init
<1>2. promptN \in Nat /\ m \in Nat
  BY GenerateAssumption DEF Init
<1>3. maxNew \in Nat \ {0} /\ n + maxNew <= MAXT
  BY <1>1, <1>2, Fits DEF n
<1>4. Len(out) = 0 /\ Len(recent) = 0 /\ REPW \in Nat
  BY GenerateAssumption DEF Init, REPW
<1>5. TypeOK
  <2>1. out \in Seq([tok : Vocab \ {Eos}, think : BOOLEAN]) /\ recent \in Seq(Vocab)
        /\ vis \in Seq(Words \cup Bytes)
    BY DEF Init
  <2>2. Len(out) <= maxNew /\ thinkN \in 0 .. Len(out) /\ usage \in 0 .. maxNew
        /\ Len(recent) <= REPW
    BY <1>3, <1>4 DEF Init
  <2> QED
    BY <1>3, <2>1, <2>2 DEF Init, TypeOK
<1>6. ThoughtsCounted
  <2>1. Thoughts = {}
    BY <1>4 DEF Thoughts
  <2> QED
    BY <2>1, FS_EmptySet, GenerateAssumption DEF Init, ThoughtsCounted
<1>7. ChannelsAgree /\ Pending
  BY DEF Init, ChannelsAgree, Pending
<1>8. RecentIsTail
  <2>1. MinOf({0, REPW}) = 0
    BY <1>4, MinTwo
  <2> QED
    BY <1>4, <2>1 DEF Init, RecentIsTail
<1>9. Quiet
  BY <1>4, GenerateAssumption DEF Quiet, LoopTail
<1> QED
  BY <1>3, <1>5, <1>6, <1>7, <1>8, <1>9 DEF IInv

\* Every step keeps the invariant, one lemma a case.
LEMMA Preserved == IInv /\ Next => IInv'
<1> SUFFICES ASSUME IInv, Next PROVE IInv'
  OBVIOUS
<1>1. CASE EmptyPrompt
  BY <1>1, RunEndsStep DEF EmptyPrompt
<1>2. CASE SampleStop
  BY <1>2, RunEndsStep DEF SampleStop
<1>3. CASE LoopGuard
  BY <1>3, RunEndsStep DEF LoopGuard
<1>4. CASE ContextEnd
  BY <1>4, RunEndsStep DEF ContextEnd
<1>5. CASE CapReached
  BY <1>5, RunEndsStep DEF CapReached
<1> QED
  BY <1>1, <1>2, <1>3, <1>4, <1>5, ForceCloseStep, SampleStep, ConsumeHiddenStep,
     ConsumeVisibleStep, AdvanceStep
     DEF Next

\* So does a step of something else.
LEMMA Stuttering == IInv /\ UNCHANGED vars => IInv'
<1> SUFFICES ASSUME IInv, UNCHANGED vars PROVE IInv'
  OBVIOUS
<1>1. UNCHANGED <<promptN, maxNew, pc, out, inThink, thinkN, recent, inch, vis, prev, sent,
                  finish, usage, why>>
  BY DEF vars, engineVars, runVars
<1>2. n' = n /\ Thoughts' = Thoughts /\ Token' = Token
  BY <1>1 DEF n, Thoughts, Token
<1>3. TypeOK' /\ ChannelsAgree' /\ Quiet'
  BY <1>1 DEF IInv, TypeOK, ChannelsAgree, Quiet, REPW
<1>4. Pending' /\ ThoughtsCounted' /\ n' + maxNew' <= MAXT
  BY <1>1, <1>2 DEF IInv, Pending, ThoughtsCounted
<1>5. RecentIsTail'
  BY <1>1 DEF IInv, RecentIsTail, REPW
<1> QED
  BY <1>3, <1>4, <1>5 DEF IInv

\* The strengthened invariant of a generation (vk_engine.py:551-584,
\* serve.py:364-398), for every prompt, limit and context.
THEOREM Inductive == Spec => []IInv
<1>1. Init => IInv
  BY Initially
<1>2. IInv /\ [Next]_vars => IInv'
  BY Preserved, Stuttering
<1> QED
  BY <1>1, <1>2, PTL DEF Spec

\* The budget bounds the thoughts of the whole generation, whatever the model
\* does with the channel (serve.py:32).
THEOREM ThinkingCorrect == Spec => []ThinkingBounded
<1>1. IInv => ThinkingBounded
  BY DEF IInv, ThoughtsCounted, ThinkingBounded
<1> QED
  BY <1>1, Inductive, PTL

-----------------------------------------------------------------------------
(* The end of the context *)

\* A generation that runs into the end of the context has used all it was
\* allowed, so it is told as "length", and no token is beyond the context
\* (vk_engine.py:583, serve.py:128).
THEOREM ContextEndCorrect == Spec => []ContextEndIsLength
<1>1. Init => ContextEndIsLength
  <2> SUFFICES ASSUME Init PROVE ContextEndIsLength
    OBVIOUS
  <2>1. Len(out) = 0 /\ why = "none"
    BY DEF Init
  <2>2. n \in Nat /\ maxNew \in Nat /\ n + maxNew <= MAXT
    BY Initially, PromptCut DEF IInv
  <2> QED
    BY <2>1, <2>2, GenerateAssumption DEF ContextEndIsLength
<1>2. IInv /\ IInv' /\ ContextEndIsLength /\ [Next]_vars => ContextEndIsLength'
  <2> SUFFICES ASSUME IInv, IInv', ContextEndIsLength, [Next]_vars
               PROVE  ContextEndIsLength'
    OBVIOUS
  <2>0. n' = n /\ maxNew' = maxNew
    BY DEF n, Next, vars, EmptyPrompt, ForceClose, Sample, SampleStop, ConsumeHidden,
           ConsumeVisible, LoopGuard, ContextEnd, Advance, CapReached, Yield, RunEnds
  <2>1. n' + Len(out') <= MAXT
    <3>1. /\ n' \in Int /\ n \in Nat /\ Len(out') \in Nat /\ maxNew \in Nat
          /\ Len(out') <= maxNew' /\ n + maxNew <= MAXT /\ MAXT \in Nat
      <4>1. Len(out') \in Nat /\ Len(out') <= maxNew'
        <5>1. out' \in Seq(Entry) /\ Len(out') <= maxNew'
          BY DEF IInv, TypeOK, Entry
        <5> QED
          BY <5>1
      <4>2. n \in Nat /\ maxNew \in Nat /\ n + maxNew <= MAXT
        BY PromptCut DEF IInv
      <4> QED
        BY <2>0, <4>1, <4>2, GenerateAssumption
    <3> QED
      BY <2>0, <3>1
  <2>2. ASSUME why' = "context" PROVE finish' = "length"
    <3>1. CASE ContextEnd
      <4>1. n + Len(out) - 1 >= MAXT - 1
        BY <3>1 DEF ContextEnd, pos
      <4>2. /\ n \in Nat /\ Len(out) \in Nat /\ maxNew \in Nat /\ MAXT \in Nat
            /\ n + maxNew <= MAXT
        BY PromptCut, GenerateAssumption DEF IInv
      <4>3. Len(out) >= maxNew
        BY <4>1, <4>2
      <4> QED
        BY <3>1, <4>3 DEF ContextEnd, RunEnds
    <3>2. CASE ~ContextEnd /\ why' = why
      <4>1. pc = "done"
        BY <2>2, <3>2 DEF IInv, Pending
      <4>2. UNCHANGED vars
        BY <4>1 DEF Next, EmptyPrompt, ForceClose, Sample, SampleStop, ConsumeHidden,
           ConsumeVisible, LoopGuard, ContextEnd, Advance, CapReached, Yield
      <4> QED
        BY <2>2, <4>2 DEF ContextEndIsLength, vars, runVars
    <3>3. why' \in {"empty", "eos", "loop", "cap", "stop string", why} \/ ContextEnd
      BY DEF Next, vars, EmptyPrompt, ForceClose, Sample, SampleStop, ConsumeHidden,
         ConsumeVisible, LoopGuard, Advance, CapReached, Yield, RunEnds
    <3> QED
      BY <2>2, <3>1, <3>2, <3>3
  <2> QED
    BY <2>1, <2>2 DEF ContextEndIsLength
<1> QED
  BY <1>1, <1>2, Inductive, PTL DEF Spec

-----------------------------------------------------------------------------
(* The loop guard *)

\* The deque is long enough for every period, and a limit below the longest
\* period would count cycles that are none.
GuardRoom == REPEAT_LIMIT \notin 1 .. 3 /\ REPW_SLACK >= 4

\* The tokens of the output, without their flags.
LEMMA Toks ==
    ASSUME IInv
    PROVE  /\ toks \in Seq(Vocab) /\ Len(toks) = Len(out)
           /\ \A i \in 1 .. Len(out) : toks[i] = out[i].tok
<1>1. Len(out) \in Nat /\ out \in Seq(Entry)
  BY Yielded
<1>2. \A i \in 1 .. Len(out) : out[i].tok \in Vocab
  <2> TAKE i \in 1 .. Len(out)
  <2>1. out[i] \in Entry
    BY <1>1
  <2> QED
    BY <2>1 DEF Entry
<1>3. toks \in [1 .. Len(out) -> Vocab]
  BY <1>2 DEF toks
<1> QED
  BY <1>1, <1>3 DEF toks

\* Every cycle of the tokens yielded that the guard is about is in recent.
LEMMA NoCycleMissed ==
    ASSUME IInv, GuardRoom, REPEAT_LIMIT > 0, pc = "sample",
           NEW p \in 1 .. 4, Len(toks) >= 2 * p
    PROVE  ~Cycle(toks, p, p * (REPEAT_LIMIT \div p + 1))
<1> DEFINE len == p * (REPEAT_LIMIT \div p + 1)
<1> SUFFICES ASSUME Cycle(toks, p, len) PROVE FALSE
  OBVIOUS
<1>1. REPEAT_LIMIT \in Nat /\ REPEAT_LIMIT >= 4 /\ REPW \in Nat /\ REPW >= REPEAT_LIMIT + 4
  BY GenerateAssumption DEF GuardRoom, REPW
<1>2. len \in Nat /\ REPEAT_LIMIT + 1 <= len /\ len <= REPEAT_LIMIT + p /\ 2 * p <= len
  BY <1>1, Periods
<1> HIDE DEF len
<1>3. /\ toks \in Seq(Vocab) /\ Len(toks) = Len(out) /\ Len(out) \in Nat
      /\ \A i \in 1 .. Len(out) : toks[i] = out[i].tok
  BY Toks, Yielded
<1>4. Len(toks) >= len
  BY DEF Cycle
<1>5. /\ recent \in Seq(Vocab)
      /\ Len(recent) = MinOf({Len(out), REPW})
      /\ \A i \in 1 .. Len(recent) : recent[i] = out[Len(out) - Len(recent) + i].tok
  BY DEF IInv, TypeOK, RecentIsTail
<1>6. Len(recent) = IF Len(out) <= REPW THEN Len(out) ELSE REPW
  BY <1>1, <1>3, <1>5, MinTwo
<1>7. /\ Len(recent) \in Nat /\ Len(recent) <= Len(toks) /\ len <= Len(recent)
      /\ Len(recent) >= 2 * p /\ Len(recent) >= REPEAT_LIMIT
  BY <1>1, <1>2, <1>3, <1>4, <1>6
<1>8. \A i \in 1 .. Len(recent) : recent[i] = toks[Len(toks) - Len(recent) + i]
  <2> TAKE i \in 1 .. Len(recent)
  <2>1. Len(out) - Len(recent) + i \in 1 .. Len(out)
    BY <1>3, <1>7
  <2> QED
    BY <1>3, <1>5, <2>1
<1>9. Cycle(recent, p, len)
  <2>1. p \in Nat /\ Cycle(toks, p, len)
    OBVIOUS
  <2>2. Cycle(recent, p, len) <=> Cycle(toks, p, len)
    BY <1>2, <1>3, <1>5, <1>7, <1>8, <2>1, CycleOfTail
  <2> QED
    BY <2>1, <2>2
<1>10. LoopTail(recent, REPEAT_LIMIT)
  BY <1>7, <1>9 DEF LoopTail, len
<1>11. ~LoopTail(recent, REPEAT_LIMIT)
  BY DEF IInv, Quiet
<1> QED
  BY <1>10, <1>11

\* What the guard fires on.
Fired == why = "loop" => \E p \in 1 .. 4 : Cycle(toks, p, MaxOf({REPEAT_LIMIT + 1, 2 * p}))

\* The guard ends a generation only on more than limit tokens of one cycle.
LEMMA FiresOnCycles ==
    ASSUME IInv, GuardRoom, LoopGuard
    PROVE  \E p \in 1 .. 4 : Cycle(toks, p, MaxOf({REPEAT_LIMIT + 1, 2 * p}))
<1>1. REPEAT_LIMIT \in Nat /\ REPEAT_LIMIT >= 4 /\ REPW \in Nat
  BY GenerateAssumption DEF GuardRoom, REPW, LoopGuard, Looping
<1>2. PICK p \in 1 .. 4 :
         Len(recentNow) >= 2 * p /\ Cycle(recentNow, p, p * (REPEAT_LIMIT \div p + 1))
  BY DEF LoopGuard, Looping, LoopTail
<1> DEFINE len == p * (REPEAT_LIMIT \div p + 1)
           least == MaxOf({REPEAT_LIMIT + 1, 2 * p})
<1>3. len \in Nat /\ REPEAT_LIMIT + 1 <= len /\ 2 * p <= len
  BY <1>1, Periods
<1>4. least \in Nat /\ least <= len
  <2>1. REPEAT_LIMIT + 1 \in Int /\ 2 * p \in Int /\ 2 * p \in Nat
    BY <1>1
  <2>2. least = IF REPEAT_LIMIT + 1 >= 2 * p THEN REPEAT_LIMIT + 1 ELSE 2 * p
    BY <2>1, MaxTwo
  <2> QED
    BY <1>1, <1>3, <2>1, <2>2
<1>5. Cycle(recentNow, p, len)
  BY <1>2
<1> HIDE DEF len, least
<1>6. /\ recentNow \in Seq(Vocab)
      /\ Len(recentNow) = IF Len(out) <= REPW THEN Len(out) ELSE REPW
      /\ \A i \in 1 .. Len(recentNow) : recentNow[i] = out[Len(out) - Len(recentNow) + i].tok
  BY RecentNow DEF LoopGuard
<1>7. /\ toks \in Seq(Vocab) /\ Len(toks) = Len(out) /\ Len(out) \in Nat
      /\ \A i \in 1 .. Len(out) : toks[i] = out[i].tok
  BY Toks, Yielded
<1>8. Len(recentNow) \in Nat /\ Len(recentNow) <= Len(toks) /\ len <= Len(recentNow)
  BY <1>1, <1>5, <1>6, <1>7 DEF Cycle
<1>9. \A i \in 1 .. Len(recentNow) : recentNow[i] = toks[Len(toks) - Len(recentNow) + i]
  <2> TAKE i \in 1 .. Len(recentNow)
  <2>1. Len(out) - Len(recentNow) + i \in 1 .. Len(out)
    BY <1>7, <1>8
  <2> QED
    BY <1>6, <1>7, <2>1
<1>10. Cycle(toks, p, len)
  BY <1>3, <1>5, <1>6, <1>7, <1>8, <1>9, CycleOfTail
<1>11. Cycle(toks, p, least)
  BY <1>3, <1>4, <1>7, <1>10, CycleOfLess
<1> QED
  BY <1>11 DEF least

\* Once the guard has ended a generation the cycle stays in its output.
LEMMA FiredKept ==
    ASSUME IInv, GuardRoom, Fired, [Next]_vars
    PROVE  Fired'
<1>1. CASE LoopGuard
  <2>1. out' = out
    BY <1>1 DEF LoopGuard, RunEnds, engineVars
  <2>2. toks' = toks
    BY <2>1 DEF toks
  <2> QED
    BY <1>1, <2>2, FiresOnCycles DEF Fired
<1>2. CASE pc = "done"
  <2>1. UNCHANGED vars
    BY <1>2 DEF Next, EmptyPrompt, ForceClose, Sample, SampleStop, ConsumeHidden,
       ConsumeVisible, LoopGuard, ContextEnd, Advance, CapReached, Yield
  <2>2. why' = why /\ toks' = toks
    BY <2>1 DEF vars, engineVars, toks
  <2> QED
    BY <2>2 DEF Fired
<1>3. CASE pc # "done" /\ ~LoopGuard
  <2>1. why = "none"
    BY <1>3 DEF IInv, Pending
  <2>2. why' \in {"empty", "eos", "context", "cap", "stop string", why}
    BY <1>3 DEF Next, vars, EmptyPrompt, ForceClose, Sample, SampleStop, ConsumeHidden,
       ConsumeVisible, ContextEnd, Advance, CapReached, Yield, RunEnds
  <2> QED
    BY <2>1, <2>2 DEF Fired
<1> QED
  BY <1>1, <1>2, <1>3

\* Generation goes on only while no cycle fills what the guard compares, and the
\* guard ends it only on a cycle (vk_engine.py:536-548, 582), for every
\* limit of four tokens or more and a deque four longer.
THEOREM LoopGuardCorrect ==
    ASSUME GuardRoom
    PROVE  Spec => []LoopGuardExact
<1>1. Init => Fired
  BY DEF Init, Fired
<1>2. IInv /\ Fired /\ [Next]_vars => Fired'
  BY FiredKept
<1>3. IInv /\ Fired => LoopGuardExact
  <2> SUFFICES ASSUME IInv, Fired, REPEAT_LIMIT > 0 PROVE LoopGuardExact
    BY DEF LoopGuardExact
  <2>1. ASSUME pc = "sample", NEW p \in 1 .. 4, Len(toks) >= 2 * p
        PROVE  ~Cycle(toks, p, p * (REPEAT_LIMIT \div p + 1))
    BY <2>1, NoCycleMissed
  <2> QED
    BY <2>1 DEF LoopGuardExact, Fired
<1> QED
  BY <1>1, <1>2, <1>3, Inductive, PTL DEF Spec

-----------------------------------------------------------------------------
(* What is shown *)

\* Cardinalities of what is shown are numbers.
LEMMA ShownFinite ==
    ASSUME NEW k \in Nat
    PROVE  IsFiniteSet(Shown(k)) /\ Cardinality(Shown(k)) \in Nat
<1>1. IsFiniteSet(1 .. k) /\ Shown(k) \subseteq 1 .. k
  BY FS_Interval DEF Shown
<1>2. IsFiniteSet(Shown(k))
  BY <1>1, FS_Subset
<1> QED
  BY <1>2, FS_CardinalityType

\* What has been shown of the tokens up to k does not depend on later ones.
LEMMA ShownStays ==
    ASSUME NEW k \in Nat, \A i \in 1 .. k : out'[i] = out[i]
    PROVE  Shown(k)' = Shown(k)
BY DEF Shown

ShownUpTo(k) ==
    /\ Len(vis) = Cardinality(Shown(k))
    /\ \A i \in Shown(k) : vis[Cardinality(Shown(i))] = out[i].tok

\* A token more is shown exactly when the engine yielded it outside the channel.
LEMMA ShownStep ==
    ASSUME IInv, ShownIsAnswer, [Next]_vars
    PROVE  ShownIsAnswer'
<1>1. Len(out) \in Nat /\ out \in Seq(Entry) /\ vis \in Seq(Words \cup Bytes)
  BY Yielded DEF IInv, TypeOK
<1>2. ShownUpTo(IF pc = "consume" THEN Len(out) - 1 ELSE Len(out))
  BY DEF ShownIsAnswer, ShownUpTo
\* A step that shows nothing.
<1>3. ASSUME NEW k \in Nat, ShownUpTo(k), vis' = vis, k <= Len(out),
             \A i \in 1 .. Len(out) : out'[i] = out[i]
      PROVE  ShownUpTo(k)'
  <2>1. \A i \in 1 .. k : out'[i] = out[i]
    BY <1>1, <1>3
  <2>2. Shown(k)' = Shown(k)
    BY <2>1, ShownStays
  <2>3. ASSUME NEW i \in Shown(k)
        PROVE  Cardinality(Shown(i))' = Cardinality(Shown(i)) /\ out'[i] = out[i]
    <3>1. i \in 1 .. k /\ i \in Nat /\ i <= k
      BY DEF Shown
    <3>2. \A j \in 1 .. i : out'[j] = out[j]
      BY <2>1, <3>1
    <3>3. Shown(i)' = Shown(i)
      BY <3>1, <3>2, ShownStays
    <3> QED
      BY <2>1, <3>1, <3>3
  <2>4. Len(vis') = Cardinality(Shown(k)')
    BY <1>3, <2>2 DEF ShownUpTo
  <2>5. \A i \in Shown(k)' : vis'[Cardinality(Shown(i))'] = out'[i].tok
    BY <1>3, <2>2, <2>3 DEF ShownUpTo
  <2> QED
    BY <2>4, <2>5 DEF ShownUpTo
\* A token more.
<1>4. CASE pc = "sample" /\ pc' = "consume" /\ vis' = vis
            /\ \E e \in Entry : out' = Append(out, e)
  <2>1. /\ Len(out') = Len(out) + 1 /\ \A i \in 1 .. Len(out) : out'[i] = out[i]
    BY <1>1, <1>4, Appended
  <2>2. ShownUpTo(Len(out))
    BY <1>2, <1>4
  <2>3. Len(out') - 1 = Len(out)
    BY <1>1, <2>1
  <2> DEFINE k == Len(out)
  <2>4. k \in Nat /\ k <= Len(out) /\ k = Len(out') - 1
    BY <1>1, <2>3
  <2> QED
    BY <1>3, <1>4, <2>1, <2>2, <2>4 DEF ShownIsAnswer, ShownUpTo
\* The token the server has just looked at, the last of out.
<1>5. ASSUME pc = "consume", Len(out) \in Nat \ {0}
      PROVE  /\ Token = out[Len(out)].tok
             /\ Len(out) \in Shown(Len(out)) <=> Token \notin {Open, Close} /\ ~inch
             /\ Shown(Len(out) - 1) = Shown(Len(out)) \ {Len(out)}
  <2>1. /\ Token = out[Len(out)].tok
        /\ out[Len(out)].think = (Token = Open \/ (inch /\ Token # Close))
    BY <1>5 DEF IInv, Pending, Token
  <2>2. Len(out) \in Shown(Len(out)) <=> Token \notin {Open, Close} /\ ~inch
    <3>1. Len(out) \in Shown(Len(out)) <=> ~out[Len(out)].think /\ out[Len(out)].tok # Close
      BY <1>5 DEF Shown
    <3>2. Open # Close
      BY DEF Open, Close
    <3> QED
      BY <2>1, <3>1, <3>2
  <2>3. \A i : i \in 1 .. Len(out) - 1 <=> i \in 1 .. Len(out) /\ i # Len(out)
    BY <1>5
  <2>4. Shown(Len(out) - 1) = Shown(Len(out)) \ {Len(out)}
    BY <2>3 DEF Shown
  <2> QED
    BY <2>1, <2>2, <2>4
<1>6. ASSUME pc = "consume"
      PROVE  Len(out) \in Nat \ {0} /\ Len(out) - 1 \in Nat
  <2>1. out # <<>>
    BY <1>6 DEF IInv, Pending
  <2> QED
    BY <1>1, <2>1
\* Hidden: one token more is counted, and not shown.
<1>7. CASE ConsumeHidden
  <2>1. pc = "consume" /\ pc' = "advance" /\ vis' = vis /\ out' = out
    BY <1>7 DEF ConsumeHidden, engineVars
  <2>2. Shown(Len(out) - 1) = Shown(Len(out))
    BY <1>5, <1>6, <1>7, <2>1 DEF ConsumeHidden
  <2>3. ShownUpTo(Len(out))
    BY <1>2, <2>1, <2>2 DEF ShownUpTo
  <2> DEFINE k == Len(out)
  <2>4. k \in Nat /\ k <= Len(out) /\ k = Len(out')
    BY <1>1, <2>1
  <2> QED
    BY <1>3, <2>1, <2>3, <2>4 DEF ShownIsAnswer, ShownUpTo
\* Visible: it is the next one shown.
<1>8. CASE ConsumeVisible
  <2>1. /\ pc = "consume" /\ pc' \in {"advance", "done"} /\ out' = out
        /\ Token \notin {Open, Close} /\ ~inch
    BY <1>8 DEF ConsumeVisible, engineVars
  <2>2. /\ Len(vis') = Len(vis) + 1 /\ Len(vis) \in Nat
        /\ \A i \in 1 .. Len(vis) : vis'[i] = vis[i]
        /\ vis'[Len(vis) + 1] = Token
    BY <1>8, VisibleToken, Appended
  <2> DEFINE k == Len(out) - 1
  <2>3. k \in Nat /\ k + 1 = Len(out) /\ k + 1 \in Nat
    BY <1>1, <1>6, <2>1
  <2>4. /\ k + 1 \in Shown(k + 1) /\ Shown(k) = Shown(k + 1) \ {k + 1}
        /\ Token = out[k + 1].tok
    BY <1>5, <1>6, <2>1, <2>3
  <2>5. ShownUpTo(k)
    BY <1>2, <2>1
  <2> HIDE DEF k
  <2>6. Cardinality(Shown(k + 1)) = Len(vis) + 1
    <3>1. Cardinality(Shown(k)) = Cardinality(Shown(k + 1)) - 1
      <4>1. IsFiniteSet(Shown(k + 1))
        BY <2>3, ShownFinite
      <4>2. Cardinality(Shown(k + 1) \ {k + 1}) = Cardinality(Shown(k + 1)) - 1
        BY <2>4, <4>1, FS_RemoveElement
      <4> QED
        BY <2>4, <4>2
    <3>2. Cardinality(Shown(k + 1)) \in Nat
      BY <2>3, ShownFinite
    <3> QED
      BY <2>2, <2>5, <3>1, <3>2 DEF ShownUpTo
  <2>7. ASSUME NEW i \in Shown(k + 1)
        PROVE  vis'[Cardinality(Shown(i))] = out[i].tok
    <3>1. CASE i = k + 1
      BY <2>2, <2>4, <2>6, <3>1
    <3>2. CASE i # k + 1
      <4>1. i \in Shown(k) /\ i \in 1 .. k /\ i \in Nat
        BY <2>4, <3>2 DEF Shown
      <4>2. Shown(i) \subseteq Shown(k) /\ i \in Shown(i)
        BY <2>3, <4>1 DEF Shown
      <4>3. Cardinality(Shown(i)) \in Nat /\ Cardinality(Shown(i)) <= Cardinality(Shown(k))
        BY <2>3, <4>1, <4>2, ShownFinite, FS_Subset
      <4>4. Cardinality(Shown(i)) # 0
        BY <4>1, <4>2, ShownFinite, FS_EmptySet
      <4>5. Cardinality(Shown(i)) \in 1 .. Len(vis)
        BY <2>2, <2>5, <4>3, <4>4 DEF ShownUpTo
      <4> QED
        BY <2>2, <2>5, <4>1, <4>5 DEF ShownUpTo
    <3> QED
      BY <3>1, <3>2
  <2>8. ASSUME NEW i \in Nat PROVE Shown(i)' = Shown(i)
    BY <2>1, ShownStays
  <2>9. Shown(Len(out))' = Shown(k + 1)
    BY <2>1, <2>3 DEF Shown
  <2>10. ASSUME NEW i \in Shown(k + 1)
         PROVE  vis'[Cardinality(Shown(i))'] = out'[i].tok
    <3>1. i \in Nat
      BY <2>3 DEF Shown
    <3> QED
      BY <2>1, <2>7, <2>8, <3>1
  <2>11. Len(vis') = Cardinality(Shown(k + 1))
    BY <2>2, <2>6
  <2> QED
    BY <2>1, <2>9, <2>10, <2>11 DEF ShownIsAnswer
\* Nothing new.
<1>9. CASE /\ vis' = vis /\ out' = out
           /\ pc' = pc \/ (pc # "consume" /\ pc' # "consume")
  <2> DEFINE k == IF pc = "consume" THEN Len(out) - 1 ELSE Len(out)
  <2>1. k \in Nat /\ k <= Len(out)
    BY <1>1, <1>6
  <2>2. ShownUpTo(k)'
    BY <1>2, <1>3, <1>9, <2>1
  <2>3. k = IF pc' = "consume" THEN Len(out') - 1 ELSE Len(out')
    BY <1>9
  <2> QED
    BY <1>9, <2>2, <2>3 DEF ShownIsAnswer, ShownUpTo
<1>10. ConsumeHidden \/ ConsumeVisible
       \/ (/\ vis' = vis /\ out' = out
           /\ pc' = pc \/ (pc # "consume" /\ pc' # "consume"))
       \/ (/\ pc = "sample" /\ pc' = "consume" /\ vis' = vis
           /\ \E e \in Entry : out' = Append(out, e))
  <2>1. CASE ForceClose
    <3>1. [tok |-> Close, think |-> FALSE] \in Entry
      BY DEF Entry, Vocab, Close, Eos
    <3> QED
      BY <2>1, <3>1 DEF ForceClose, Yield, runVars
  <2>2. ASSUME NEW t \in Vocab, Sample(t)
        PROVE  /\ pc = "sample" /\ pc' = "consume" /\ vis' = vis
               /\ \E e \in Entry : out' = Append(out, e)
    <3> DEFINE thinking == t = Open \/ (inThink /\ t # Close)
    <3>1. [tok |-> t, think |-> thinking] \in Entry
      BY <2>2 DEF Entry, Sample, IInv, TypeOK
    <3> QED
      BY <2>2, <3>1 DEF Sample, Yield, runVars
  <2>3. CASE EmptyPrompt \/ SampleStop \/ LoopGuard \/ ContextEnd \/ CapReached \/ Advance
    BY <2>3 DEF EmptyPrompt, SampleStop, LoopGuard, ContextEnd, CapReached, Advance,
       RunEnds, engineVars, runVars
  <2>4. CASE UNCHANGED vars
    BY <2>4 DEF vars, engineVars, runVars
  <2> QED
    BY <2>1, <2>2, <2>3, <2>4 DEF Next
<1> QED
  BY <1>4, <1>7, <1>8, <1>9, <1>10

\* Exactly the tokens the engine yields outside the channel are shown, in their
\* order, forced closes included (serve.py:380-395, vk_engine.py:570-579).
THEOREM ShownCorrect == Spec => []ShownIsAnswer
<1>1. Init => ShownIsAnswer
  <2> SUFFICES ASSUME Init PROVE ShownIsAnswer
    OBVIOUS
  <2>1. Len(out) = 0 /\ Len(vis) = 0 /\ pc = "sample"
    BY DEF Init
  <2>2. Shown(Len(out)) = {}
    BY <2>1 DEF Shown
  <2> QED
    BY <2>1, <2>2, FS_EmptySet DEF ShownIsAnswer
<1>2. IInv /\ ShownIsAnswer /\ [Next]_vars => ShownIsAnswer'
  BY ShownStep
<1> QED
  BY <1>1, <1>2, Inductive, PTL DEF Spec

-----------------------------------------------------------------------------
(* Induction: a relation that is well-founded gives a least element and that *)
(* the step from n to n + 1, without an operator for the property.           *)

LessThan == {nn \in Nat \X Nat : nn[1] < nn[2]}

\* A set of numbers has a least one.
LEMMA LeastOf ==
    ASSUME NEW S \in SUBSET Nat, S # {}
    PROVE  \E x \in S : \A y \in S : x <= y
<1>1. IsWellFoundedOn(LessThan, Nat)
  BY NatLessThanWellFounded, Zenon DEF OpToRel, LessThan
<1>2. PICK x \in S : \A y \in S : ~(<<y, x>> \in LessThan)
  BY <1>1, WFMin, Zenon
<1>3. ASSUME NEW y \in S PROVE x <= y
  <2>1. x \in Nat /\ y \in Nat /\ (<<y, x>> \in LessThan) = (y < x)
    BY DEF LessThan
  <2> QED
    BY <1>2, <2>1
<1> QED
  BY <1>3

\* What holds of 0 and of the next number holds of all.
LEMMA Induction ==
    ASSUME NEW S, 0 \in S, \A k \in Nat : k \in S => k + 1 \in S
    PROVE  Nat \subseteq S
<1> SUFFICES ASSUME Nat \ S # {} PROVE FALSE
  OBVIOUS
<1>1. PICK x \in Nat \ S : \A y \in Nat \ S : x <= y
  <2>1. (Nat \ S) \in SUBSET Nat
    OBVIOUS
  <2> QED
    BY <2>1, LeastOf, Zenon
<1>2. x # 0 /\ x - 1 \in Nat
  BY <1>1
<1> QED
  BY <1>1, <1>2

-----------------------------------------------------------------------------
(* The decoded text *)

\* A part of a sequence, by its elements ...
LEMMA SubAt ==
    ASSUME NEW S, NEW u \in Seq(S), NEW i \in Nat, NEW m \in Nat, i + m <= Len(u)
    PROVE  /\ SubSeq(u, i + 1, i + m) \in Seq(S) /\ Len(SubSeq(u, i + 1, i + m)) = m
           /\ \A k \in 1 .. m : SubSeq(u, i + 1, i + m)[k] = u[i + k]
<1> DEFINE sub == SubSeq(u, i + 1, i + m)
<1>1. \A k \in i + 1 .. i + m : u[k] \in S
  OBVIOUS
<1>2. /\ sub \in Seq(S)
      /\ Len(sub) = IF i + 1 <= i + m THEN (i + m) - (i + 1) + 1 ELSE 0
      /\ \A k \in 1 .. (i + m) - (i + 1) + 1 : sub[k] = u[(i + 1) + k - 1]
  BY <1>1, SubSeqProperties
<1> HIDE DEF sub
<1>3. Len(sub) = m /\ (i + m) - (i + 1) + 1 = m /\ \A k \in 1 .. m : (i + 1) + k - 1 = i + k
  BY <1>2
<1> QED
  BY <1>2, <1>3 DEF sub

\* ... and the other way round.
LEMMA SubIs ==
    ASSUME NEW S, NEW u \in Seq(S), NEW i \in Nat, NEW part \in Seq(S), i + Len(part) <= Len(u),
           \A k \in 1 .. Len(part) : u[i + k] = part[k]
    PROVE  SubSeq(u, i + 1, i + Len(part)) = part
<1> DEFINE sub == SubSeq(u, i + 1, i + Len(part))
<1>1. Len(part) \in Nat
  OBVIOUS
<1>2. sub \in Seq(S) /\ Len(sub) = Len(part) /\ \A k \in 1 .. Len(part) : sub[k] = part[k]
  BY <1>1, SubAt
<1> HIDE DEF sub
<1>3. sub = part
  BY <1>2, SeqEqual
<1> QED
  BY <1>3 DEF sub

\* f is the decoder after each of the first m tokens of ids.
Reads(f, ids, m) ==
    f = [k \in 0 .. m |-> IF k = 0 THEN Started(<<>>) ELSE Read(f[k - 1], ids[k])]

\* There is such a function ...
LEMMA ReadsExist ==
    ASSUME NEW ids, NEW m \in Nat
    PROVE  \E f : Reads(f, ids, m)
<1> DEFINE S == {k \in Nat : \E f : Reads(f, ids, k)}
<1>1. 0 \in S
  <2> DEFINE f == [k \in 0 .. 0 |-> Started(<<>>)]
  <2>1. Reads(f, ids, 0)
    BY DEF Reads
  <2> QED
    BY <2>1
<1>2. ASSUME NEW k \in Nat, k \in S PROVE k + 1 \in S
  <2>1. PICK f : Reads(f, ids, k)
    BY <1>2
  <2> DEFINE v == Read(f[k], ids[k + 1])
             g == [j \in 0 .. k + 1 |-> IF j = k + 1 THEN v ELSE f[j]]
  <2>2. ASSUME NEW j \in 0 .. k + 1
        PROVE  g[j] = IF j = 0 THEN Started(<<>>) ELSE Read(g[j - 1], ids[j])
    <3>1. CASE j = k + 1
      <4>1. g[j] = v /\ j # 0 /\ j - 1 = k /\ j - 1 \in 0 .. k + 1 /\ j - 1 # k + 1
        BY <3>1
      <4>2. g[j - 1] = f[k]
        BY <4>1
      <4> QED
        BY <3>1, <4>1, <4>2
    <3>2. CASE j # k + 1
      <4>1. j \in 0 .. k /\ g[j] = f[j] /\ (j # 0 => j - 1 \in 0 .. k + 1 /\ j - 1 # k + 1)
        BY <3>2
      <4>2. f[j] = IF j = 0 THEN Started(<<>>) ELSE Read(f[j - 1], ids[j])
        BY <2>1, <4>1 DEF Reads
      <4>3. j # 0 => g[j - 1] = f[j - 1]
        BY <4>1
      <4> QED
        BY <4>1, <4>2, <4>3
    <3> QED
      BY <3>1, <3>2
  <2>3. Reads(g, ids, k + 1)
    <3>1. g = [j \in 0 .. k + 1 |-> g[j]]
      OBVIOUS
    <3> HIDE DEF g
    <3> QED
      BY <2>2, <3>1 DEF Reads
  <2> QED
    BY <2>3
<1> HIDE DEF S
<1>3. Nat \subseteq S
  BY <1>1, <1>2, Induction
<1> QED
  BY <1>3 DEF S

\* ... and only one, which the tokens that follow do not change.
LEMMA ReadsAgree ==
    ASSUME NEW ids, NEW more, NEW m \in Nat, NEW l \in Nat, m <= l,
           \A j \in 1 .. m : ids[j] = more[j],
           NEW f, Reads(f, ids, m), NEW g, Reads(g, more, l)
    PROVE  \A k \in 0 .. m : f[k] = g[k]
<1> DEFINE S == {k \in Nat : k <= m => f[k] = g[k]}
<1>1. 0 \in S
  BY DEF Reads
<1>2. ASSUME NEW k \in Nat, k \in S PROVE k + 1 \in S
  <2> SUFFICES ASSUME k + 1 <= m PROVE f[k + 1] = g[k + 1]
    OBVIOUS
  <2>1. f[k] = g[k]
    BY <1>2
  <2>2. f[k + 1] = Read(f[k], ids[k + 1]) /\ g[k + 1] = Read(g[k], more[k + 1])
    <3>1. k + 1 \in 0 .. m /\ k + 1 \in 0 .. l /\ k + 1 # 0 /\ (k + 1) - 1 = k
      OBVIOUS
    <3> QED
      BY <3>1 DEF Reads
  <2>3. ids[k + 1] = more[k + 1]
    OBVIOUS
  <2> QED
    BY <2>1, <2>2, <2>3
<1> HIDE DEF S
<1>3. Nat \subseteq S
  BY <1>1, <1>2, Induction
<1> QED
  BY <1>3 DEF S

\* The decoder after a sequence is the last of them.
LEMMA ReadingIs ==
    ASSUME NEW ids, Len(ids) \in Nat, NEW f, Reads(f, ids, Len(ids))
    PROVE  Reading(ids) = f[Len(ids)]
<1>1. f = [k \in 0 .. Len(ids) |-> IF k = 0 THEN Started(<<>>) ELSE Read(f[k - 1], ids[k])]
  BY DEF Reads
<1>2. ASSUME NEW g, g = [k \in 0 .. Len(ids) |-> IF k = 0 THEN Started(<<>>) ELSE Read(g[k - 1], ids[k])]
      PROVE  g = f
  <2>1. Reads(g, ids, Len(ids))
    BY <1>2 DEF Reads
  <2>2. \A k \in 0 .. Len(ids) : f[k] = g[k]
    BY <2>1, ReadsAgree
  <2>3. f = [k \in 0 .. Len(ids) |-> f[k]] /\ g = [k \in 0 .. Len(ids) |-> g[k]]
    BY <1>1, <1>2, Zenon
  <2> QED
    BY <2>2, <2>3
<1> QED
  BY <1>1, <1>2 DEF Reading

\* A token more changes it as Read says.
LEMMA ReadingNext ==
    ASSUME NEW T, NEW ids \in Seq(T), NEW t \in T
    PROVE  /\ Reading(<<>>) = Started(<<>>)
           /\ Reading(Append(ids, t)) = Read(Reading(ids), t)
<1> DEFINE more == Append(ids, t)
           m == Len(ids)
<1>1. m \in Nat /\ Len(more) = m + 1 /\ more[m + 1] = t /\ \A j \in 1 .. m : ids[j] = more[j]
  BY Appended
<1> HIDE DEF more
<1>2. PICK f : Reads(f, ids, m)
  BY <1>1, ReadsExist
<1>3. PICK g : Reads(g, more, m + 1)
  BY <1>1, ReadsExist
<1>4. f[m] = g[m]
  <2>1. m \in Nat /\ m + 1 \in Nat /\ m <= m + 1 /\ m \in 0 .. m
    BY <1>1
  <2> HIDE DEF m
  <2> QED
    BY <1>1, <1>2, <1>3, <2>1, ReadsAgree
<1>5. Reading(ids) = f[m] /\ Reading(more) = g[m + 1]
  BY <1>1, <1>2, <1>3, ReadingIs
<1>6. g[m + 1] = Read(g[m], more[m + 1])
  <2>1. m + 1 \in 0 .. m + 1 /\ m + 1 # 0 /\ (m + 1) - 1 = m
    BY <1>1
  <2> QED
    BY <1>3, <2>1 DEF Reads
<1>7. Reading(<<>>) = Started(<<>>)
  <2>1. Len(<<>>) = 0
    OBVIOUS
  <2>2. PICK h : Reads(h, <<>>, 0)
    BY ReadsExist
  <2>3. h[0] = Started(<<>>)
    BY <2>2 DEF Reads
  <2> QED
    BY <2>1, <2>2, <2>3, ReadingIs
<1> QED
  BY <1>1, <1>4, <1>5, <1>6, <1>7 DEF more

Chars == Words \cup Bytes \cup {"?"}

\* Stop strings are of characters, not of the replacement character.
NoReplacement == \A stop \in StopStrs : stop \in Seq(Words \cup Bytes)

\* A run has no more characters than bytes, and fewer while one is unfinished.
WellRead(d) ==
    /\ d.before \in Seq(Chars) /\ d.spelt \in Seq(Chars)
    /\ d.size \in Nat /\ d.state \in UStates
    /\ Len(d.spelt) <= d.size
    /\ d.state # "whole" => Len(d.spelt) < d.size

\* A text and one that follows it.
LEMMA Joined ==
    ASSUME NEW S, NEW q \in Seq(S), NEW r \in Seq(S)
    PROVE  /\ q \o r \in Seq(S) /\ Len(q \o r) = Len(q) + Len(r)
           /\ Len(q) \in Nat /\ Len(r) \in Nat
           /\ \A i \in 1 .. Len(q) + Len(r) : (q \o r)[i] = IF i <= Len(q) THEN q[i] ELSE r[i - Len(q)]
  BY ConcatProperties

LEMMA AppendJoined ==
    ASSUME NEW S, NEW q \in Seq(S), NEW r \in Seq(S), NEW t \in S
    PROVE  q \o Append(r, t) = Append(q \o r, t)
<1>1. /\ q \o r \in Seq(S) /\ Len(q \o r) = Len(q) + Len(r)
      /\ Append(r, t) \in Seq(S) /\ Len(Append(r, t)) = Len(r) + 1
      /\ Append(q \o r, t) \in Seq(S) /\ q \o Append(r, t) \in Seq(S)
  BY Joined, Appended
<1> QED
  BY <1>1, Joined, Appended, SeqEqual

\* What is printed after it and before it, by the state of the run.
LEMMA Rendered ==
    ASSUME NEW d, WellRead(d)
    PROVE  /\ Render(d) \in Seq(Chars)
           /\ d.state = "whole" =>
                  /\ Render(d) = d.before \o d.spelt
                  /\ Len(Render(d)) = Len(d.before) + Len(d.spelt)
           /\ d.state # "whole" =>
                  /\ Len(Render(d)) = Len(d.before) + d.size
                  /\ \A i \in Len(d.before) + 1 .. Len(d.before) + d.size : Render(d)[i] = "?"
<1>1. /\ d.before \in Seq(Chars) /\ d.spelt \in Seq(Chars) /\ d.size \in Nat
      /\ Len(d.before) \in Nat
  BY DEF WellRead
<1>2. CASE d.state = "whole"
  <2>1. Render(d) = d.before \o d.spelt
    BY <1>2 DEF Render
  <2>2. d.before \o d.spelt \in Seq(Chars) /\ Len(d.before \o d.spelt) = Len(d.before) + Len(d.spelt)
    BY <1>1, Joined
  <2> QED
    BY <1>2, <2>1, <2>2
<1>3. CASE d.state # "whole"
  <2> DEFINE marks == Marks(d.size)
             b == d.before
  <2>1. marks \in Seq(Chars) /\ Len(marks) = d.size /\ \A i \in 1 .. d.size : marks[i] = "?"
    BY <1>1 DEF Chars, Marks
  <2>2. Render(d) = d.before \o marks
    BY <1>3 DEF Render
  <2>3. b \in Seq(Chars) /\ Len(b) \in Nat
    BY <1>1
  <2> HIDE DEF marks, b
  <2>4. /\ b \o marks \in Seq(Chars) /\ Len(b \o marks) = Len(b) + Len(marks)
        /\ \A i \in 1 .. Len(b) + Len(marks) :
             (b \o marks)[i] = IF i <= Len(b) THEN b[i] ELSE marks[i - Len(b)]
    BY <2>1, <2>3, Joined
  <2>5. ASSUME NEW i \in Len(b) + 1 .. Len(b) + d.size
        PROVE  (b \o marks)[i] = "?"
    <3>1. /\ i \in 1 .. Len(b) + Len(marks) /\ ~(i <= Len(b))
          /\ i - Len(b) \in 1 .. d.size
      BY <1>1, <2>1, <2>3
    <3> QED
      BY <2>1, <2>4, <3>1
  <2> QED
    BY <1>3, <2>1, <2>2, <2>4, <2>5 DEF b
<1> QED
  BY <1>2, <1>3

\* The text old becomes text by one character more, by replacement characters,
\* or shrinks because a run is complete.
OneMore(old, t, text) == text = Append(old, t)
Marked(old, text) ==
    Len(old) < Len(text) /\ \A i \in Len(old) + 1 .. Len(text) : text[i] = "?"

\* A token more does one of the three.
LEMMA ReadStep ==
    ASSUME NEW d, WellRead(d), NEW t \in Words \cup Bytes
    PROVE  /\ WellRead(Read(d, t))
           /\ \/ OneMore(Render(d), t, Render(Read(d, t))) /\ Read(d, t).state = "whole"
              \/ /\ t \notin Words /\ Read(d, t).state # "whole"
                 /\ Marked(Render(d), Render(Read(d, t)))
              \/ /\ t \notin Words /\ Read(d, t).state = "whole" /\ d.state # "whole"
                 /\ Len(Render(Read(d, t))) <= Len(Render(d))
<1> DEFINE b == d.before
           c == d.spelt
           old == Render(d)
<1>1. /\ b \in Seq(Chars) /\ c \in Seq(Chars) /\ d.size \in Nat /\ d.state \in UStates
      /\ Len(b) \in Nat /\ Len(c) \in Nat /\ Len(c) <= d.size
      /\ d.state # "whole" => Len(c) < d.size
  BY DEF WellRead
<1>5. /\ old \in Seq(Chars) /\ Len(old) \in Nat
      /\ d.state = "whole" => old = b \o c /\ Len(old) = Len(b) + Len(c)
      /\ d.state # "whole" => Len(old) = Len(b) + d.size
  <2>1. /\ old \in Seq(Chars)
        /\ d.state = "whole" => old = b \o c /\ Len(old) = Len(b) + Len(c)
        /\ d.state # "whole" => Len(old) = Len(b) + d.size
    BY Rendered, Zenon
  <2> HIDE DEF old, b, c
  <2> QED
    BY <2>1
<1>2. t \in Chars
  BY DEF Chars
<1>3. CASE t \in Words
  <2> DEFINE more == Append(old, t)
  <2>1. more \in Seq(Chars)
    BY <1>2, <1>5
  <2>2. Read(d, t) = Started(more)
    BY <1>3 DEF Read
  <2> HIDE DEF more
  <2>3. WellRead(Started(more)) /\ Started(more).state = "whole"
    <3>1. <<>> \in Seq(Chars) /\ Len(<<>>) = 0
      OBVIOUS
    <3> QED
      BY <2>1, <3>1, TextAssumption DEF Started, WellRead
  <2>4. Render(Started(more)) = more
    <3>1. Render(Started(more)) = more \o <<>>
      BY DEF Render, Started
    <3> QED
      BY <2>1, <3>1, ConcatEmptySeq
  <2> QED
    BY <2>2, <2>3, <2>4 DEF OneMore, more
<1>4. CASE t \notin Words
  <2> DEFINE next == Utf8[d.state][t]
             e == Read(d, t)
             new == Render(e)
             ct == IF next = "whole" THEN Append(c, t) ELSE c
  <2>1. next \in UStates
    BY <1>1, <1>4, TextAssumption
  <2>2. e.before = b /\ e.size = d.size + 1 /\ e.state = next /\ e.spelt = ct
    BY <1>4 DEF Read
  <2> HIDE DEF e, b, c, next, old
  <2>3. Append(c, t) \in Seq(Chars) /\ Len(Append(c, t)) = Len(c) + 1
    BY <1>1, <1>2, Appended
  <2>4. WellRead(e)
    BY <1>1, <2>1, <2>2, <2>3 DEF WellRead
  <2>7. /\ next = "whole" => new = b \o Append(c, t) /\ Len(new) = Len(b) + Len(Append(c, t))
        /\ next # "whole" => /\ Len(new) = Len(b) + (d.size + 1)
                             /\ \A i \in Len(b) + 1 .. Len(b) + (d.size + 1) : new[i] = "?"
    <3>1. /\ e.state = "whole" =>
                 new = e.before \o e.spelt /\ Len(new) = Len(e.before) + Len(e.spelt)
          /\ e.state # "whole" =>
                 /\ Len(new) = Len(e.before) + e.size
                 /\ \A i \in Len(e.before) + 1 .. Len(e.before) + e.size : new[i] = "?"
      BY <2>4, Rendered, Zenon
    <3> HIDE DEF new
    <3> QED
      BY <2>2, <3>1, Zenon
  <2> HIDE DEF new
  <2>5. CASE next = "whole"
    <3>1. new = b \o Append(c, t) /\ Len(new) = Len(b) + Len(c) + 1
      <4>1. new = b \o Append(c, t) /\ Len(new) = Len(b) + Len(Append(c, t))
        BY <2>5, <2>7, Zenon
      <4> QED
        BY <1>1, <2>3, <4>1
    <3>2. CASE d.state = "whole"
      <4>1. b \o Append(c, t) = Append(b \o c, t)
        BY <1>1, <1>2, AppendJoined
      <4> QED
        BY <1>5, <2>2, <2>4, <2>5, <3>1, <3>2, <4>1 DEF OneMore, e, new, old
    <3>3. CASE d.state # "whole"
      <4>1. Len(new) <= Len(old)
        BY <1>1, <1>5, <3>1, <3>3
      <4> QED
        BY <1>4, <2>2, <2>4, <2>5, <3>3, <4>1 DEF e, new, old
    <3> QED
      BY <3>2, <3>3
  <2>6. CASE next # "whole"
    <3>1. Len(b) <= Len(old) /\ Len(old) <= Len(b) + d.size
      BY <1>1, <1>5
    <3>2. ASSUME NEW i \in Len(old) + 1 .. Len(new) PROVE new[i] = "?"
      <4>1. i \in Len(b) + 1 .. Len(b) + (d.size + 1)
        BY <1>1, <1>5, <2>6, <2>7, <3>1
      <4> QED
        BY <2>6, <2>7, <4>1
    <3>3. Len(old) < Len(new)
      BY <1>1, <1>5, <2>6, <2>7, <3>1
    <3> QED
      BY <1>4, <2>2, <2>4, <2>6, <3>2, <3>3 DEF Marked, e, new, old
  <2> QED
    BY <2>5, <2>6
<1> QED
  BY <1>3, <1>4

-----------------------------------------------------------------------------
(* The text sent *)

\* What s ends with, back to its last replacement character, text ends with too.
SameEnd(s, text) ==
    \A m \in 0 .. Len(s) :
        (\A i \in 1 .. m : s[Len(s) - m + i] # "?") =>
            /\ m <= Len(text)
            /\ \A i \in 1 .. m : text[Len(text) - m + i] = s[Len(s) - m + i]

OrdinaryOnly == \A k \in 1 .. Len(vis) : vis[k] \in Words

\* The decoder and what was sent, token by token: while a character is
\* unfinished, what was sent ends with a replacement character.
TextNow ==
    LET d == Reading(vis)
    IN  /\ prev = Render(d) /\ WellRead(d)
        /\ d.state # "whole" => sent # <<>> /\ sent[Len(sent)] = "?"
        /\ vis = <<>> \/ vis[Len(vis)] \in Words => d.state = "whole"
        /\ Len(deltas) = Len(vis) /\ \A k \in 1 .. Len(deltas) : Delivered(k)
        /\ SameEnd(sent, prev) /\ Len(sent) >= Len(prev)
        /\ OrdinaryOnly => sent = prev

TextInv ==
    /\ sent \in Seq(Chars) /\ deltas \in Seq(Seq(Chars)) /\ Occurrences(sent) = {}
    /\ \A k \in 1 .. Len(deltas) : Delivered(k) \/ (k = Len(vis) /\ why = "stop string")
    /\ pc # "done" => TextNow

\* No stop string starts before the end of what is sent and ends in a text that
\* it does not end.
LEMMA StopAtEnd ==
    ASSUME NoReplacement, NEW s \in Seq(Chars), NEW more \in Seq(Chars), Occurrences(s) = {},
           NEW i \in Occurrences(s \o more)
    PROVE  \E stop \in StopStrs :
             /\ stop \in Seq(Words \cup Bytes) /\ Len(stop) \in Nat \ {0} /\ i \in Nat
             /\ Len(s) < i + Len(stop) /\ i + Len(stop) <= Len(s) + Len(more)
             /\ \A k \in 1 .. Len(stop) : (s \o more)[i + k] = stop[k] /\ stop[k] # "?"
<1> DEFINE u == s \o more
<1>1. /\ u \in Seq(Chars) /\ Len(u) = Len(s) + Len(more)
      /\ \A k \in 1 .. Len(s) + Len(more) : u[k] = IF k <= Len(s) THEN s[k] ELSE more[k - Len(s)]
  BY ConcatProperties
<1> HIDE DEF u
<1>2. PICK stop \in StopStrs :
        i \in 0 .. Len(u) /\ stop # <<>> /\ i + Len(stop) <= Len(u) /\ OccursAt(stop, u, i)
  BY DEF Occurrences, u
<1>3. stop \in Seq(Words \cup Bytes) /\ Len(stop) \in Nat \ {0} /\ i \in Nat /\ Len(u) \in Nat
  BY <1>1, <1>2 DEF NoReplacement
<1>4. ASSUME NEW k \in 1 .. Len(stop) PROVE u[i + k] = stop[k] /\ stop[k] # "?"
  <2>1. stop[k] = SubSeq(u, i + 1, i + Len(stop))[k]
    BY <1>2 DEF OccursAt
  <2>2. SubSeq(u, i + 1, i + Len(stop))[k] = u[i + k]
    BY <1>1, <1>2, <1>3, SubAt
  <2> QED
    BY <1>3, <2>1, <2>2, TextAssumption
<1>5. Len(s) < i + Len(stop)
  <2> SUFFICES ASSUME i + Len(stop) <= Len(s) PROVE FALSE
    BY <1>3
  <2>1. Len(s) \in Nat /\ Len(more) \in Nat
    OBVIOUS
  <2>2. ASSUME NEW k \in 1 .. Len(stop) PROVE s[i + k] = stop[k]
    <3>1. i + k \in 1 .. Len(s) + Len(more) /\ i + k <= Len(s)
      BY <1>3, <2>1
    <3> QED
      BY <1>1, <1>4, <3>1
  <2>3. SubSeq(s, i + 1, i + Len(stop)) = stop
    BY <1>3, <2>2, SubIs DEF Chars
  <2>4. i \in 0 .. Len(s)
    BY <1>3, <2>1
  <2>5. i \in Occurrences(s)
    BY <1>2, <2>3, <2>4 DEF Occurrences, OccursAt
  <2> QED
    BY <2>5
<1> QED
  BY <1>1, <1>2, <1>3, <1>4, <1>5 DEF u

\* A text that ends with a replacement character has the end of any other.
LEMMA MarkedEnd ==
    ASSUME NEW s \in Seq(Chars), s # <<>>, s[Len(s)] = "?", NEW text \in Seq(Chars)
    PROVE  SameEnd(s, text)
<1> SUFFICES ASSUME NEW m \in 0 .. Len(s), \A i \in 1 .. m : s[Len(s) - m + i] # "?"
             PROVE  /\ m <= Len(text)
                    /\ \A i \in 1 .. m : text[Len(text) - m + i] = s[Len(s) - m + i]
  BY DEF SameEnd
<1>1. m = 0
  <2> SUFFICES ASSUME m # 0 PROVE FALSE
    OBVIOUS
  <2>1. m \in 1 .. m /\ Len(s) - m + m = Len(s)
    OBVIOUS
  <2> QED
    BY <2>1
<1> QED
  BY <1>1

\* One more character on both keeps the end the same.
LEMMA OneMoreEnd ==
    ASSUME NEW s \in Seq(Chars), NEW text \in Seq(Chars), NEW t \in Chars, SameEnd(s, text)
    PROVE  SameEnd(Append(s, t), Append(text, t))
<1> DEFINE r == Append(s, t)
           u == Append(text, t)
<1>1. /\ Len(r) = Len(s) + 1 /\ Len(s) \in Nat /\ \A i \in 1 .. Len(s) : r[i] = s[i]
      /\ r[Len(s) + 1] = t
  BY Appended
<1>2. /\ Len(u) = Len(text) + 1 /\ Len(text) \in Nat /\ \A i \in 1 .. Len(text) : u[i] = text[i]
      /\ u[Len(text) + 1] = t
  BY Appended
<1> HIDE DEF r, u
<1> SUFFICES ASSUME NEW m \in 0 .. Len(r), \A i \in 1 .. m : r[Len(r) - m + i] # "?"
             PROVE  m <= Len(u) /\ \A i \in 1 .. m : u[Len(u) - m + i] = r[Len(r) - m + i]
  BY DEF SameEnd, r, u
<1>3. CASE m = 0
  BY <1>2, <1>3
<1>4. CASE m # 0
  <2> DEFINE l == m - 1
  <2>1. l \in 0 .. Len(s) /\ m = l + 1
    BY <1>1, <1>4
  <2> HIDE DEF l
  <2>2. ASSUME NEW i \in 1 .. l
        PROVE  Len(s) - l + i \in 1 .. Len(s) /\ r[Len(r) - m + i] = s[Len(s) - l + i]
    <3>1. Len(r) - m + i = Len(s) - l + i /\ Len(s) - l + i \in 1 .. Len(s)
      BY <1>1, <2>1
    <3> QED
      BY <1>1, <3>1
  <2>3. \A i \in 1 .. l : s[Len(s) - l + i] # "?"
    <3> SUFFICES ASSUME NEW i \in 1 .. l PROVE s[Len(s) - l + i] # "?"
      OBVIOUS
    <3>1. i \in 1 .. m
      BY <2>1
    <3> QED
      BY <2>2, <3>1
  <2>4. l <= Len(text) /\ \A i \in 1 .. l : text[Len(text) - l + i] = s[Len(s) - l + i]
    BY <2>1, <2>3 DEF SameEnd
  <2>5. ASSUME NEW i \in 1 .. m PROVE u[Len(u) - m + i] = r[Len(r) - m + i]
    <3>1. CASE i = m
      <4>1. Len(u) - m + i = Len(text) + 1 /\ Len(r) - m + i = Len(s) + 1
        BY <1>1, <1>2, <3>1
      <4> QED
        BY <1>1, <1>2, <4>1
    <3>2. CASE i # m
      <4>1. i \in 1 .. l
        BY <2>1, <3>2
      <4>2. Len(u) - m + i = Len(text) - l + i /\ Len(text) - l + i \in 1 .. Len(text)
        BY <1>2, <2>1, <2>4, <4>1
      <4> QED
        BY <1>2, <2>2, <2>4, <4>1, <4>2
    <3> QED
      BY <3>1, <3>2
  <2> QED
    BY <1>2, <2>1, <2>4, <2>5
<1> QED
  BY <1>3, <1>4

\* With one character more on both, a stop string of what is sent is one of the
\* text.
LEMMA NoStopOneMore ==
    ASSUME NoReplacement, NEW s \in Seq(Chars), NEW text \in Seq(Chars), NEW t \in Chars,
           SameEnd(Append(s, t), text), Occurrences(s) = {}, Occurrences(text) = {}
    PROVE  Occurrences(Append(s, t)) = {}
<1> SUFFICES ASSUME NEW i \in Occurrences(Append(s, t)) PROVE FALSE
  OBVIOUS
<1> DEFINE r == Append(s, t)
<1>1. r = s \o <<t>> /\ <<t>> \in Seq(Chars) /\ Len(<<t>>) = 1
  OBVIOUS
<1>2. r \in Seq(Chars) /\ Len(r) = Len(s) + 1 /\ Len(s) \in Nat
  BY Appended
<1> HIDE DEF r
<1>3. i \in Occurrences(s \o <<t>>)
  BY <1>1 DEF r
<1>4. PICK stop \in StopStrs :
        /\ stop \in Seq(Words \cup Bytes) /\ Len(stop) \in Nat \ {0} /\ i \in Nat
        /\ Len(s) < i + Len(stop) /\ i + Len(stop) <= Len(s) + Len(<<t>>)
        /\ \A k \in 1 .. Len(stop) : (s \o <<t>>)[i + k] = stop[k] /\ stop[k] # "?"
  BY <1>1, <1>3, StopAtEnd
<1> DEFINE m == Len(stop)
<1>5. m \in Nat \ {0} /\ i \in Nat /\ Len(r) \in Nat /\ i + m = Len(r) /\ m \in 0 .. Len(r)
  BY <1>1, <1>2, <1>4
<1>6. \A k \in 1 .. m : r[Len(r) - m + k] = stop[k] /\ r[Len(r) - m + k] # "?"
  <2> SUFFICES ASSUME NEW k \in 1 .. m
               PROVE  r[Len(r) - m + k] = stop[k] /\ r[Len(r) - m + k] # "?"
    OBVIOUS
  <2>1. Len(r) - m + k = i + k
    <3> HIDE DEF m
    <3> QED
      BY <1>5
  <2> QED
    BY <1>1, <1>4, <2>1
<1>7. m <= Len(text) /\ \A k \in 1 .. m : text[Len(text) - m + k] = r[Len(r) - m + k]
  BY <1>5, <1>6 DEF SameEnd, r
<1> DEFINE j == Len(text) - m
<1>8. j \in 0 .. Len(text) /\ j \in Nat /\ j + m = Len(text)
  BY <1>5, <1>7
<1>9. \A k \in 1 .. m : text[j + k] = stop[k]
  BY <1>6, <1>7
<1>10. stop \in Seq(Chars) /\ stop # <<>>
  BY <1>4 DEF Chars
<1> HIDE DEF j
<1>11. SubSeq(text, j + 1, j + Len(stop)) = stop
  BY <1>8, <1>9, <1>10, SubIs
<1>12. j \in Occurrences(text)
  BY <1>8, <1>10, <1>11 DEF Occurrences, OccursAt
<1> QED
  BY <1>12

\* Replacement characters add no stop string.
LEMMA NoStopMarked ==
    ASSUME NoReplacement, NEW s \in Seq(Chars), NEW marks \in Seq(Chars), Occurrences(s) = {},
           \A k \in 1 .. Len(marks) : marks[k] = "?"
    PROVE  Occurrences(s \o marks) = {}
<1> SUFFICES ASSUME NEW i \in Occurrences(s \o marks) PROVE FALSE
  OBVIOUS
<1>1. PICK stop \in StopStrs :
        /\ stop \in Seq(Words \cup Bytes) /\ Len(stop) \in Nat \ {0} /\ i \in Nat
        /\ Len(s) < i + Len(stop) /\ i + Len(stop) <= Len(s) + Len(marks)
        /\ \A k \in 1 .. Len(stop) : (s \o marks)[i + k] = stop[k] /\ stop[k] # "?"
  BY StopAtEnd
<1> DEFINE e == i + Len(stop)
<1>2. e \in 1 .. Len(s) + Len(marks) /\ ~(e <= Len(s)) /\ e - Len(s) \in 1 .. Len(marks)
  BY <1>1
<1>3. (s \o marks)[e] = marks[e - Len(s)]
  BY <1>2, ConcatProperties
<1>4. (s \o marks)[e] # "?"
  BY <1>1
<1> QED
  BY <1>2, <1>3, <1>4

\* The text is cut before its first stop string: nothing new is left of it.
LEMMA CutIsOld ==
    ASSUME NoReplacement, NEW text \in Seq(Chars), NEW old \in Seq(Chars), NEW t \in Chars,
           Occurrences(text) # {},
           OneMore(old, t, text) \/ Marked(old, text) \/ Len(text) <= Len(old)
    PROVE  Beyond(Cut(text), old) = <<>>
<1> DEFINE i == MinOf(Occurrences(text))
<1>1. Occurrences(text) \in SUBSET Nat
  BY DEF Occurrences
<1>2. i \in Occurrences(text)
  <2>1. \E x \in Occurrences(text) : \A y \in Occurrences(text) : x <= y
    BY <1>1, LeastOf, Zenon
  <2> QED
    BY <2>1 DEF MinOf
<1> HIDE DEF i
<1>3. PICK stop \in StopStrs : /\ i \in 0 .. Len(text) /\ stop # <<>> /\ i + Len(stop) <= Len(text)
                              /\ OccursAt(stop, text, i)
  BY <1>2 DEF Occurrences
<1>4. stop \in Seq(Words \cup Bytes) /\ Len(stop) \in Nat \ {0} /\ Len(text) \in Nat /\ Len(old) \in Nat
  BY <1>3 DEF NoReplacement
<1>5. text[i + 1] # "?"
  <2>1. stop[1] = SubSeq(text, i + 1, i + Len(stop))[1]
    BY <1>3 DEF OccursAt
  <2>2. SubSeq(text, i + 1, i + Len(stop))[1] = text[i + 1]
    BY <1>3, <1>4, SubAt
  <2>3. stop[1] # "?"
    BY <1>4, TextAssumption
  <2> QED
    BY <2>1, <2>2, <2>3
<1>6. i <= Len(old)
  <2>1. CASE OneMore(old, t, text)
    <3>1. Len(text) = Len(old) + 1
      BY <2>1, Appended DEF OneMore
    <3> QED
      BY <1>3, <1>4, <3>1
  <2>2. CASE Marked(old, text)
    <3> SUFFICES ASSUME ~(i <= Len(old)) PROVE FALSE
      OBVIOUS
    <3>1. i + 1 \in Len(old) + 1 .. Len(text)
      BY <1>3, <1>4
    <3> QED
      BY <1>5, <2>2, <3>1 DEF Marked
  <2>3. CASE Len(text) <= Len(old)
    BY <1>3, <1>4, <2>3
  <2> QED
    BY <2>1, <2>2, <2>3
<1> DEFINE cut == SubSeq(text, 1, i)
<1>7. Len(cut) = i
  <2>1. i \in Nat /\ 0 + i <= Len(text) /\ 0 + 1 = 1 /\ 0 + i = i
    BY <1>3
  <2>2. Len(SubSeq(text, 0 + 1, 0 + i)) = i
    BY <2>1, SubAt
  <2> QED
    BY <2>1, <2>2
<1>8. Cut(text) = cut
  BY DEF Cut, i
<1>9. SubSeq(cut, Len(old) + 1, Len(cut)) = <<>>
  <2>1. cut \in Seq(Chars)
    <3>1. \A j \in 1 .. i : text[j] \in Chars
      BY <1>3
    <3> QED
      BY <1>3, <3>1, SubSeqProperties
  <2> HIDE DEF cut
  <2> QED
    BY <1>4, <1>6, <1>7, <2>1
<1> QED
  BY <1>8, <1>9 DEF Beyond

\* The deltas of the earlier tokens stay; the last one is judged with its token.
LEMMA DeliveredNext ==
    ASSUME NEW T, vis \in Seq(T), deltas \in Seq(Seq(Chars)), Len(deltas) = Len(vis),
           \A k \in 1 .. Len(deltas) : Delivered(k),
           NEW t \in T, NEW delta \in Seq(Chars),
           vis' = Append(vis, t), deltas' = Append(deltas, delta)
    PROVE  /\ Len(deltas') = Len(vis') /\ deltas' \in Seq(Seq(Chars)) /\ Len(vis') = Len(vis) + 1
           /\ Len(vis) \in Nat /\ vis' # <<>> /\ vis'[Len(vis')] = t
           /\ \A k \in 1 .. Len(vis) : Delivered(k)' /\ vis'[k] = vis[k]
           /\ (IF t \in Words THEN delta = <<t>>
               ELSE /\ \A i \in 1 .. Len(delta) : delta[i] \notin Words
                    /\ vis = <<>> \/ vis[Len(vis)] \in Words => delta # <<>>)
                  => (\A k : k = Len(vis') => Delivered(k)')
<1> DEFINE m == Len(vis)
<1>1. /\ Len(vis') = m + 1 /\ m \in Nat /\ vis'[m + 1] = t /\ \A k \in 1 .. m : vis'[k] = vis[k]
  BY Appended
<1>2. /\ deltas' \in Seq(Seq(Chars)) /\ Len(deltas') = m + 1 /\ deltas'[m + 1] = delta
      /\ \A k \in 1 .. m : deltas'[k] = deltas[k]
  BY Appended
<1>3. (m = 0 <=> vis = <<>>) /\ (m + 1) - 1 = m /\ (m + 1 = 1 <=> m = 0) /\ vis' # <<>>
  <2>1. m = 0 <=> vis = <<>>
    OBVIOUS
  <2>2. vis' # <<>>
    BY <1>1
  <2> HIDE DEF m
  <2> QED
    BY <1>1, <2>1, <2>2
<1> HIDE DEF m
<1>4. ASSUME NEW k \in 1 .. m PROVE Delivered(k)'
  <2>1. vis'[k] = vis[k] /\ deltas'[k] = deltas[k] /\ Delivered(k)
    BY <1>1, <1>2 DEF m
  <2>2. k # 1 => k - 1 \in 1 .. m /\ vis'[k - 1] = vis[k - 1]
    BY <1>1
  <2> QED
    BY <2>1, <2>2 DEF Delivered
<1>5. ASSUME IF t \in Words THEN delta = <<t>>
             ELSE /\ \A i \in 1 .. Len(delta) : delta[i] \notin Words
                  /\ vis = <<>> \/ vis[Len(vis)] \in Words => delta # <<>>
      PROVE  \A k : k = m + 1 => Delivered(k)'
  <2> SUFFICES ASSUME NEW k, k = m + 1 PROVE Delivered(k)'
    OBVIOUS
  <2>1. k = 1 \/ vis'[k - 1] \in Words => vis = <<>> \/ vis[Len(vis)] \in Words
    <3>1. m # 0 => m \in 1 .. m
      BY <1>1
    <3> QED
      BY <1>1, <1>3, <3>1 DEF m
  <2>2. vis'[k] = t /\ deltas'[k] = delta
    BY <1>1, <1>2
  <2>3. CASE t \in Words
    BY <1>5, <2>2, <2>3, Zenon DEF Delivered
  <2>4. CASE t \notin Words
    BY <1>5, <2>1, <2>2, <2>4, Zenon DEF Delivered
  <2> QED
    BY <2>3, <2>4
<1>6. \A k \in 1 .. m : Delivered(k)'
  BY <1>4
<1>7. (IF t \in Words THEN delta = <<t>>
       ELSE /\ \A i \in 1 .. Len(delta) : delta[i] \notin Words
            /\ vis = <<>> \/ vis[Len(vis)] \in Words => delta # <<>>)
          => \A k : k = m + 1 => Delivered(k)'
  BY <1>5
<1> QED
  BY <1>1, <1>2, <1>3, <1>6, <1>7, Zenon DEF m

\* A token of the answer is decoded with the rest, and what is new is sent.
LEMMA TextVisible ==
    ASSUME NoReplacement, IInv, TextInv, ConsumeVisible
    PROVE  TextInv'
<1> DEFINE t == Token
           d == Reading(vis)
           e == Read(d, t)
           text == Render(e)
           delta == Beyond(Cut(text), prev)
<1>1. /\ t \in Words \cup Bytes /\ t \in Chars /\ vis' = Append(vis, t)
      /\ vis \in Seq(Words \cup Bytes) /\ pc = "consume"
  BY VisibleToken DEF ConsumeVisible, Chars
<1>2. /\ prev = Render(d) /\ WellRead(d) /\ sent \in Seq(Chars) /\ deltas \in Seq(Seq(Chars))
      /\ d.state # "whole" => sent # <<>> /\ sent[Len(sent)] = "?"
      /\ vis = <<>> \/ vis[Len(vis)] \in Words => d.state = "whole"
      /\ Len(deltas) = Len(vis) /\ \A k \in 1 .. Len(deltas) : Delivered(k)
      /\ SameEnd(sent, prev) /\ Len(sent) >= Len(prev)
      /\ OrdinaryOnly => sent = prev
      /\ Occurrences(sent) = {}
  BY <1>1 DEF TextInv, TextNow
<1>3. Reading(vis') = e
  BY <1>1, ReadingNext
<1>4. /\ sent' = sent \o delta /\ deltas' = Append(deltas, delta)
      /\ IF Occurrences(text) # {} THEN pc' = "done" /\ why' = "stop string"
                                  ELSE prev' = text /\ pc' = "advance"
  BY <1>1, <1>3 DEF ConsumeVisible, Decode
<1> HIDE DEF t, d
<1>5. /\ WellRead(e)
      /\ \/ OneMore(prev, t, text) /\ e.state = "whole"
         \/ t \notin Words /\ e.state # "whole" /\ Marked(prev, text)
         \/ t \notin Words /\ e.state = "whole" /\ d.state # "whole" /\ Len(text) <= Len(prev)
  BY <1>1, <1>2, ReadStep
<1> HIDE DEF e
<1>6. text \in Seq(Chars) /\ prev \in Seq(Chars) /\ Len(text) \in Nat /\ Len(prev) \in Nat
  <2>1. text \in Seq(Chars) /\ prev \in Seq(Chars)
    BY <1>2, <1>5, Rendered, Zenon
  <2> HIDE DEF text
  <2> QED
    BY <2>1
<1> HIDE DEF text
<1>7. CASE Occurrences(text) # {}
  <2>1. delta = <<>>
    BY <1>1, <1>5, <1>6, <1>7, CutIsOld
  <2>2. sent' = sent
    <3> HIDE DEF delta
    <3> QED
      BY <1>2, <1>4, <2>1, ConcatEmptySeq
  <2>3. <<>> \in Seq(Chars)
    OBVIOUS
  <2>4. /\ Len(deltas') = Len(vis') /\ deltas' \in Seq(Seq(Chars)) /\ Len(vis') = Len(vis) + 1
        /\ Len(vis) \in Nat /\ \A k \in 1 .. Len(vis) : Delivered(k)'
    BY <1>1, <1>2, <1>4, <2>1, <2>3, DeliveredNext
  <2>5. \A k \in 1 .. Len(deltas') : Delivered(k)' \/ (k = Len(vis') /\ why' = "stop string")
    <3> SUFFICES ASSUME NEW k \in 1 .. Len(deltas'), k # Len(vis') PROVE Delivered(k)'
      BY <1>4, <1>7
    <3>1. k \in 1 .. Len(vis)
      BY <2>4
    <3> QED
      BY <2>4, <3>1
  <2>6. Occurrences(sent') = {}
    BY <1>2, <2>2
  <2> QED
    BY <1>2, <1>4, <1>7, <2>2, <2>4, <2>5, <2>6 DEF TextInv, Occurrences
<1>8. CASE Occurrences(text) = {}
  <2>1. delta = SubSeq(text, Len(prev) + 1, Len(text)) /\ prev' = text /\ pc' = "advance"
    BY <1>4, <1>8 DEF Cut, Beyond
  <2>2. ASSUME delta \in Seq(Chars), sent' \in Seq(Chars), Occurrences(sent') = {},
               IF t \in Words THEN delta = <<t>>
               ELSE /\ \A i \in 1 .. Len(delta) : delta[i] \notin Words
                    /\ vis = <<>> \/ vis[Len(vis)] \in Words => delta # <<>>,
               e.state # "whole" => sent' # <<>> /\ sent'[Len(sent')] = "?",
               SameEnd(sent', text), Len(sent') >= Len(text),
               t \in Words => (sent = prev => sent' = text), t \in Words => e.state = "whole"
        PROVE  TextInv'
    <3>1. /\ Len(deltas') = Len(vis') /\ deltas' \in Seq(Seq(Chars)) /\ Len(vis') = Len(vis) + 1
          /\ Len(vis) \in Nat /\ vis' # <<>> /\ vis'[Len(vis')] = t
          /\ \A k \in 1 .. Len(vis) : Delivered(k)' /\ vis'[k] = vis[k]
          /\ (\A k : k = Len(vis') => Delivered(k)')
      <4> HIDE DEF delta
      <4> QED
        BY <1>1, <1>2, <1>4, <2>2, DeliveredNext
    <3>2. \A k \in 1 .. Len(deltas') : Delivered(k)'
      <4> SUFFICES ASSUME NEW k \in 1 .. Len(deltas') PROVE Delivered(k)'
        OBVIOUS
      <4>1. k \in 1 .. Len(vis) \/ k = Len(vis')
        BY <3>1
      <4> QED
        BY <3>1, <4>1
    <3>3. OrdinaryOnly' => sent' = prev'
      <4> SUFFICES ASSUME OrdinaryOnly' PROVE sent' = prev'
        OBVIOUS
      <4>1. \A k \in 1 .. Len(vis) : vis[k] \in Words
        <5> SUFFICES ASSUME NEW k \in 1 .. Len(vis) PROVE vis[k] \in Words
          OBVIOUS
        <5>1. k \in 1 .. Len(vis')
          BY <3>1
        <5>2. vis'[k] \in Words
          BY <5>1 DEF OrdinaryOnly
        <5> QED
          BY <3>1, <5>2
      <4>2. t \in Words
        <5>1. Len(vis') \in 1 .. Len(vis')
          BY <3>1
        <5> QED
          BY <3>1, <5>1 DEF OrdinaryOnly
      <4> QED
        BY <1>2, <2>1, <2>2, <4>1, <4>2 DEF OrdinaryOnly
    <3>4. Reading(vis)' = e
      BY <1>3
    <3>5. SameEnd(sent, prev)' <=> SameEnd(sent', text)
      BY <2>1 DEF SameEnd
    <3>6. TextNow'
      BY <1>5, <2>1, <2>2, <3>1, <3>2, <3>3, <3>4, <3>5 DEF TextNow, text
    <3> QED
      BY <2>2, <3>1, <3>2, <3>6 DEF TextInv, Occurrences
  <2> HIDE DEF delta
  <2>3. CASE OneMore(prev, t, text) /\ e.state = "whole"
    <3>1. text = Append(prev, t) /\ Len(text) = Len(prev) + 1 /\ text[Len(prev) + 1] = t
      BY <1>1, <1>6, <2>3, Appended DEF OneMore
    <3>2. delta = <<t>>
      <4> DEFINE one == <<t>>
      <4>1. /\ one \in Seq(Chars) /\ Len(one) = 1
            /\ \A k \in 1 .. Len(one) : text[Len(prev) + k] = one[k]
        BY <1>1, <1>6, <3>1
      <4> HIDE DEF one
      <4>2. SubSeq(text, Len(prev) + 1, Len(prev) + Len(one)) = one
        BY <1>6, <3>1, <4>1, SubIs
      <4> QED
        BY <2>1, <3>1, <4>1, <4>2 DEF one
    <3>3. sent' = Append(sent, t) /\ sent' \in Seq(Chars) /\ Len(sent') = Len(sent) + 1 /\ Len(sent) \in Nat
      <4>1. sent \o <<t>> = Append(sent, t)
        BY <1>1, <1>2
      <4>2. sent' = Append(sent, t)
        BY <1>4, <3>2, <4>1, Zenon
      <4> QED
        BY <1>1, <1>2, <4>2, Appended
    <3>4. SameEnd(Append(sent, t), text)
      BY <1>1, <1>2, <1>6, <3>1, OneMoreEnd
    <3>5. Occurrences(Append(sent, t)) = {}
      BY <1>1, <1>2, <1>6, <1>8, <3>4, NoStopOneMore
    <3>6. <<t>> \in Seq(Chars) /\ <<t>> # <<>> /\ Len(<<t>>) = 1 /\ <<t>>[1] = t
      BY <1>1
    <3>7. \A i \in 1 .. Len(<<t>>) : <<t>>[i] = t
      BY <3>6
    <3>8. Len(sent') >= Len(text)
      BY <1>2, <1>6, <3>1, <3>3
    <3> QED
      BY <2>2, <2>3, <3>1, <3>2, <3>3, <3>4, <3>5, <3>6, <3>7, <3>8
  <2>4. CASE t \notin Words /\ e.state # "whole" /\ Marked(prev, text)
    <3> DEFINE more == Len(text) - Len(prev)
    <3>1. more \in Nat \ {0} /\ Len(prev) + more = Len(text)
      BY <1>6, <2>4 DEF Marked
    <3>2. /\ delta \in Seq(Chars) /\ Len(delta) = more
          /\ \A k \in 1 .. more : delta[k] = text[Len(prev) + k]
      <4> HIDE DEF more
      <4>1. delta = SubSeq(text, Len(prev) + 1, Len(prev) + more)
        BY <2>1, <3>1
      <4> QED
        BY <1>6, <3>1, <4>1, SubAt
    <3>3. \A k \in 1 .. Len(delta) : delta[k] = "?"
      <4> SUFFICES ASSUME NEW k \in 1 .. more PROVE delta[k] = "?"
        BY <3>2
      <4>1. Len(prev) + k \in Len(prev) + 1 .. Len(text)
        BY <1>6, <3>1
      <4> QED
        BY <2>4, <3>2, <4>1 DEF Marked
    <3>4. Occurrences(sent \o delta) = {}
      BY <1>2, <3>2, <3>3, NoStopMarked
    <3>5. /\ sent' \in Seq(Chars) /\ Len(sent') = Len(sent) + more /\ Len(sent) \in Nat
          /\ sent'[Len(sent) + more] = "?"
      <4>1. /\ sent' \in Seq(Chars) /\ Len(sent') = Len(sent) + Len(delta)
            /\ \A k \in 1 .. Len(sent) + Len(delta) :
                 sent'[k] = IF k <= Len(sent) THEN sent[k] ELSE delta[k - Len(sent)]
        BY <1>2, <1>4, <3>2, ConcatProperties
      <4>2. /\ Len(sent) + more \in 1 .. Len(sent) + Len(delta) /\ ~(Len(sent) + more <= Len(sent))
            /\ (Len(sent) + more) - Len(sent) = more /\ more \in 1 .. Len(delta) /\ Len(sent) \in Nat
        BY <1>2, <3>1, <3>2
      <4> HIDE DEF more
      <4> QED
        BY <3>2, <3>3, <4>1, <4>2
    <3>6. SameEnd(sent', text) /\ sent' # <<>> /\ delta # <<>>
      <4>1. sent' # <<>> /\ delta # <<>>
        BY <3>1, <3>2, <3>5
      <4> QED
        BY <1>6, <3>5, <4>1, MarkedEnd
    <3>7. Len(sent') >= Len(text)
      BY <1>2, <1>6, <3>1, <3>5
    <3>8. "?" \notin Words
      BY TextAssumption
    <3> HIDE DEF more
    <3> QED
      BY <1>4, <2>2, <2>4, <3>2, <3>3, <3>4, <3>5, <3>6, <3>7, <3>8
  <2>5. CASE t \notin Words /\ e.state = "whole" /\ d.state # "whole" /\ Len(text) <= Len(prev)
    <3>1. delta = <<>>
      BY <1>6, <2>1, <2>5
    <3>2. sent' = sent
      BY <1>2, <1>4, <3>1, ConcatEmptySeq
    <3>3. SameEnd(sent', text)
      BY <1>2, <1>6, <2>5, <3>2, MarkedEnd
    <3>4. Len(sent') >= Len(text)
      BY <1>2, <1>6, <2>5, <3>2
    <3>5. <<>> \in Seq(Chars) /\ Len(<<>>) = 0 /\ 1 .. 0 = {}
      OBVIOUS
    <3>6. ~(vis = <<>> \/ vis[Len(vis)] \in Words)
      BY <1>2, <2>5
    <3> QED
      BY <1>2, <2>2, <2>5, <3>1, <3>2, <3>3, <3>4, <3>5, <3>6
  <2> QED
    BY <1>5, <2>3, <2>4, <2>5
<1> QED
  BY <1>7, <1>8

\* Every other step leaves the text as it is.
LEMMA TextKept ==
    ASSUME IInv, TextInv, UNCHANGED <<vis, prev, sent, deltas>>,
           pc = "done" => pc' = "done" /\ why' = why
    PROVE  TextInv'
<1>1. Occurrences(sent') = Occurrences(sent) /\ \A k : Delivered(k)' <=> Delivered(k)
  BY DEF Occurrences, Delivered
<1>2. TextNow' <=> TextNow
  BY <1>1 DEF TextNow, SameEnd, OrdinaryOnly
<1>3. pc # "done" => \A k \in 1 .. Len(deltas) : Delivered(k)
  BY DEF TextInv, TextNow
<1> QED
  BY <1>1, <1>2, <1>3 DEF TextInv, Occurrences

\* Every step keeps the text.
LEMMA TextStep ==
    ASSUME NoReplacement, IInv, TextInv, [Next]_vars
    PROVE  TextInv'
<1>1. CASE ConsumeVisible
  BY <1>1, TextVisible
<1>2. CASE UNCHANGED vars
  BY <1>2, TextKept DEF vars, runVars
<1>3. CASE EmptyPrompt \/ SampleStop \/ LoopGuard \/ ContextEnd \/ CapReached
  BY <1>3, TextKept DEF EmptyPrompt, SampleStop, LoopGuard, ContextEnd, CapReached, RunEnds
<1>4. CASE ForceClose \/ \E t \in Vocab : Sample(t)
  BY <1>4, TextKept DEF ForceClose, Sample, Yield, runVars
<1>5. CASE ConsumeHidden \/ Advance
  BY <1>5, TextKept DEF ConsumeHidden, Advance, runVars
<1> QED
  BY <1>1, <1>2, <1>3, <1>4, <1>5 DEF Next

\* Nothing is sent and there is no text.
LEMMA TextInitially ==
    ASSUME NoReplacement, Init
    PROVE  TextInv
<1>1. vis = <<>> /\ prev = <<>> /\ sent = <<>> /\ deltas = <<>>
  BY DEF Init
<1>2. Reading(<<>>) = Started(<<>>)
  <2>1. <<>> \in Seq({0}) /\ 0 \in {0}
    OBVIOUS
  <2> QED
    BY <2>1, ReadingNext
<1>3. Occurrences(<<>>) = {}
  <2> SUFFICES ASSUME NEW i \in Occurrences(<<>>) PROVE FALSE
    OBVIOUS
  <2>1. PICK stop \in StopStrs : i \in 0 .. 0 /\ stop # <<>> /\ i + Len(stop) <= 0
    BY DEF Occurrences
  <2>2. Len(stop) \in Nat \ {0}
    BY <2>1 DEF NoReplacement
  <2> QED
    BY <2>1, <2>2
<1>4. WellRead(Started(<<>>)) /\ Started(<<>>).state = "whole"
  <2>1. <<>> \in Seq(Chars) /\ Len(<<>>) = 0
    OBVIOUS
  <2> QED
    BY <2>1, TextAssumption DEF Started, WellRead
<1>5. Render(Started(<<>>)) = <<>>
  BY DEF Started, Render
<1>6. SameEnd(<<>>, <<>>)
  BY DEF SameEnd
<1>7. /\ Len(<<>>) = 0 /\ 1 .. 0 = {} /\ <<>> \in Seq(Chars) /\ <<>> \in Seq(Seq(Chars))
  OBVIOUS
<1>8. TextNow
  BY <1>1, <1>2, <1>4, <1>5, <1>6, <1>7 DEF TextNow
<1> QED
  BY <1>1, <1>3, <1>7, <1>8 DEF TextInv

\* What is sent never contains a stop string, and every ordinary token reaches
\* the client as its character when it comes, for every automaton of byte tokens
\* and all stop strings without the replacement character, which only a request
\* for broken text would name (serve.py:387-395).
THEOREM TextCorrect ==
    ASSUME NoReplacement
    PROVE  Spec => []SentIsText
<1>1. Init => TextInv
  BY TextInitially
<1>2. IInv /\ TextInv /\ [Next]_vars => TextInv'
  BY TextStep
<1>3. TextInv => SentIsText
  BY DEF TextInv, TextNow, OrdinaryOnly, Decode, SentIsText
<1> QED
  BY <1>1, <1>2, <1>3, Inductive, PTL DEF Spec

=============================================================================
