----------------------------- MODULE ToolsProofs -----------------------------
(***************************************************************************)
(* Proofs about Tools, for every set of words, every limit and whatever    *)
(* the model yields: the loops of the parser are functions of the tokens   *)
(* seen so far, so that a token more is one round more, as in the stream.  *)
(***************************************************************************)
EXTENDS Tools, FiniteSetTheorems, SequenceTheorems, WellFoundedInduction, TLAPS

Tokens == Words \cup Marks

-----------------------------------------------------------------------------
(* Induction: a relation that is well-founded gives a least element and that *)
(* the step from n to n + 1, without an operator for the property.           *)

LessThan == {nn \in Nat \X Nat : nn[1] < nn[2]}

\* A set of numbers has a least one, which Min returns.
LEMMA LeastOf ==
    ASSUME NEW S \in SUBSET Nat, S # {}
    PROVE  /\ \E x \in S : \A y \in S : x <= y
           /\ Min(S) \in S /\ \A y \in S : Min(S) <= y
<1>1. IsWellFoundedOn(LessThan, Nat)
  BY NatLessThanWellFounded, Zenon DEF OpToRel, LessThan
<1>2. PICK x \in S : \A y \in S : ~(<<y, x>> \in LessThan)
  BY <1>1, WFMin, Zenon
<1>3. ASSUME NEW y \in S PROVE x <= y
  <2>1. x \in Nat /\ y \in Nat /\ (<<y, x>> \in LessThan) = (y < x)
    BY DEF LessThan
  <2> QED
    BY <1>2, <2>1
<1>4. \E z \in S : \A y \in S : z <= y
  BY <1>3
<1> QED
  BY <1>4 DEF Min

\* What holds of 0 and of the next number holds of all.
LEMMA Induction ==
    ASSUME NEW S, 0 \in S, \A k \in Nat : k \in S => k + 1 \in S
    PROVE  Nat \subseteq S
<1> SUFFICES ASSUME Nat \ S # {} PROVE FALSE
  OBVIOUS
<1>1. PICK x \in Nat \ S : \A y \in Nat \ S : x <= y
  <2>1. (Nat \ S) \in SUBSET Nat
    OBVIOUS
  <2> QED
    BY <2>1, LeastOf, Zenon
<1>2. x # 0 /\ x - 1 \in Nat
  BY <1>1
<1> QED
  BY <1>1, <1>2

\* A sequence with one element more.
LEMMA Appended ==
    ASSUME NEW S, NEW q \in Seq(S), NEW x \in S
    PROVE  /\ Append(q, x) \in Seq(S)
           /\ Len(Append(q, x)) = Len(q) + 1 /\ Len(q) \in Nat
           /\ \A i \in 1 .. Len(q) : Append(q, x)[i] = q[i]
           /\ Append(q, x)[Len(q) + 1] = x
OBVIOUS

-----------------------------------------------------------------------------
(* The three loops: the walk of _visible_ids, decode, and the search for calls *)

Start(loop) ==
    IF loop = "seen" THEN [inch |-> FALSE, visible |-> <<>>]
    ELSE IF loop = "text" THEN <<>>
    ELSE [next |-> 1, calls |-> <<>>]

Round(loop, before, ids, k) ==
    IF loop = "seen" THEN See(before, ids[k])
    ELSE IF loop = "text" THEN Spell(before, ids[k])
    ELSE TakeCall(before, ids, k)

\* f is what the loop has after each of the first m tokens.
Runs(f, loop, ids, m) ==
    f = [k \in 0 .. m |-> IF k = 0 THEN Start(loop) ELSE Round(loop, f[k - 1], ids, k)]

\* The first m tokens of both are treated alike.
Alike(loop, ids, more, m) ==
    \A k \in 1 .. m : \A b : Round(loop, b, ids, k) = Round(loop, b, more, k)

\* Each has a result ...
LEMMA RunsExist ==
    ASSUME NEW loop, NEW ids, NEW m \in Nat
    PROVE  \E f : Runs(f, loop, ids, m)
<1> DEFINE S == {k \in Nat : \E f : Runs(f, loop, ids, k)}
<1>1. 0 \in S
  <2> DEFINE f == [k \in 0 .. 0 |-> Start(loop)]
  <2>1. Runs(f, loop, ids, 0)
    BY DEF Runs
  <2> QED
    BY <2>1
<1>2. ASSUME NEW k \in Nat, k \in S PROVE k + 1 \in S
  <2>1. PICK f : Runs(f, loop, ids, k)
    BY <1>2
  <2> DEFINE v == Round(loop, f[k], ids, k + 1)
             g == [j \in 0 .. k + 1 |-> IF j = k + 1 THEN v ELSE f[j]]
  <2>2. ASSUME NEW j \in 0 .. k + 1
        PROVE  g[j] = IF j = 0 THEN Start(loop) ELSE Round(loop, g[j - 1], ids, j)
    <3>1. CASE j = k + 1
      <4>1. g[j] = v /\ j # 0 /\ j - 1 = k /\ j - 1 \in 0 .. k + 1 /\ j - 1 # k + 1
        BY <3>1
      <4>2. g[j - 1] = f[k]
        BY <4>1
      <4> QED
        BY <3>1, <4>1, <4>2
    <3>2. CASE j # k + 1
      <4>1. j \in 0 .. k /\ g[j] = f[j] /\ (j # 0 => j - 1 \in 0 .. k + 1 /\ j - 1 # k + 1)
        BY <3>2
      <4>2. f[j] = IF j = 0 THEN Start(loop) ELSE Round(loop, f[j - 1], ids, j)
        BY <2>1, <4>1 DEF Runs
      <4>3. j # 0 => g[j - 1] = f[j - 1]
        BY <4>1
      <4> QED
        BY <4>1, <4>2, <4>3
    <3> QED
      BY <3>1, <3>2
  <2>3. Runs(g, loop, ids, k + 1)
    <3>1. g = [j \in 0 .. k + 1 |-> g[j]]
      OBVIOUS
    <3> HIDE DEF g
    <3> QED
      BY <2>2, <3>1 DEF Runs
  <2> QED
    BY <2>3
<1> HIDE DEF S
<1>3. Nat \subseteq S
  BY <1>1, <1>2, Induction
<1> QED
  BY <1>3 DEF S

\* ... and only one, which is that of other tokens if they are treated alike.
LEMMA RunsAgree ==
    ASSUME NEW loop, NEW ids, NEW more, NEW m \in Nat, NEW l \in Nat, m <= l,
           Alike(loop, ids, more, m),
           NEW f, Runs(f, loop, ids, m), NEW g, Runs(g, loop, more, l)
    PROVE  \A k \in 0 .. m : f[k] = g[k]
<1> DEFINE S == {k \in Nat : k <= m => f[k] = g[k]}
<1>1. 0 \in S
  BY DEF Runs
<1>2. ASSUME NEW k \in Nat, k \in S PROVE k + 1 \in S
  <2> SUFFICES ASSUME k + 1 <= m PROVE f[k + 1] = g[k + 1]
    OBVIOUS
  <2>1. f[k] = g[k]
    BY <1>2
  <2>2. f[k + 1] = Round(loop, f[k], ids, k + 1) /\ g[k + 1] = Round(loop, g[k], more, k + 1)
    <3>1. k + 1 \in 0 .. m /\ k + 1 \in 0 .. l /\ k + 1 # 0 /\ (k + 1) - 1 = k
      OBVIOUS
    <3> QED
      BY <3>1 DEF Runs
  <2>3. Round(loop, f[k], ids, k + 1) = Round(loop, f[k], more, k + 1)
    <3>1. k + 1 \in 1 .. m
      OBVIOUS
    <3> QED
      BY <3>1 DEF Alike
  <2> QED
    BY <2>1, <2>2, <2>3
<1> HIDE DEF S
<1>3. Nat \subseteq S
  BY <1>1, <1>2, Induction
<1> QED
  BY <1>3 DEF S

\* So what CHOOSE picks in the recursive definitions is that result.
LEMMA RunsUnique ==
    ASSUME NEW loop, NEW ids, NEW m \in Nat, NEW f, Runs(f, loop, ids, m), NEW g, Runs(g, loop, ids, m)
    PROVE  g = f
<1>1. \A k \in 0 .. m : f[k] = g[k]
  <2>1. Alike(loop, ids, ids, m)
    BY DEF Alike
  <2> QED
    BY <2>1, RunsAgree
<1>2. f = [k \in 0 .. m |-> f[k]] /\ g = [k \in 0 .. m |-> g[k]]
  BY Zenon DEF Runs
<1> QED
  BY <1>1, <1>2

\* What each operator returns.
LEMMA LoopsReturn ==
    ASSUME NEW ids, Len(ids) \in Nat, NEW f
    PROVE  /\ Runs(f, "seen", ids, Len(ids)) => VisibleIds(ids) = f[Len(ids)].visible
           /\ Runs(f, "text", ids, Len(ids)) => Decode(ids) = f[Len(ids)]
           /\ Runs(f, "calls", ids, Len(ids)) => ParseCalls(ids) = f[Len(ids)].calls
<1>1. ASSUME Runs(f, "seen", ids, Len(ids)) PROVE VisibleIds(ids) = f[Len(ids)].visible
  <2>1. f = [k \in 0 .. Len(ids) |->
              IF k = 0 THEN [inch |-> FALSE, visible |-> <<>>] ELSE See(f[k - 1], ids[k])]
    BY <1>1 DEF Runs, Start, Round
  <2>2. ASSUME NEW g,
               g = [k \in 0 .. Len(ids) |->
                     IF k = 0 THEN [inch |-> FALSE, visible |-> <<>>] ELSE See(g[k - 1], ids[k])]
        PROVE  g = f
    <3>1. Runs(g, "seen", ids, Len(ids))
      BY <2>2 DEF Runs, Start, Round
    <3> QED
      BY <1>1, <3>1, RunsUnique
  <2> QED
    BY <2>1, <2>2 DEF VisibleIds
<1>2. ASSUME Runs(f, "text", ids, Len(ids)) PROVE Decode(ids) = f[Len(ids)]
  <2>1. f = [k \in 0 .. Len(ids) |-> IF k = 0 THEN <<>> ELSE Spell(f[k - 1], ids[k])]
    BY <1>2 DEF Runs, Start, Round
  <2>2. ASSUME NEW g, g = [k \in 0 .. Len(ids) |-> IF k = 0 THEN <<>> ELSE Spell(g[k - 1], ids[k])]
        PROVE  g = f
    <3>1. Runs(g, "text", ids, Len(ids))
      BY <2>2 DEF Runs, Start, Round
    <3> QED
      BY <1>2, <3>1, RunsUnique
  <2> QED
    BY <2>1, <2>2 DEF Decode
<1>3. ASSUME Runs(f, "calls", ids, Len(ids)) PROVE ParseCalls(ids) = f[Len(ids)].calls
  <2>1. f = [k \in 0 .. Len(ids) |->
              IF k = 0 THEN [next |-> 1, calls |-> <<>>] ELSE TakeCall(f[k - 1], ids, k)]
    BY <1>3 DEF Runs, Start, Round
  <2>2. ASSUME NEW g,
               g = [k \in 0 .. Len(ids) |->
                     IF k = 0 THEN [next |-> 1, calls |-> <<>>] ELSE TakeCall(g[k - 1], ids, k)]
        PROVE  g = f
    <3>1. Runs(g, "calls", ids, Len(ids))
      BY <2>2 DEF Runs, Start, Round
    <3> QED
      BY <1>3, <3>1, RunsUnique
  <2> QED
    BY <2>1, <2>2 DEF ParseCalls
<1> QED
  BY <1>1, <1>2, <1>3

\* The channel and the visible tokens after ids.
After(ids) == CHOOSE r : \E f : Runs(f, "seen", ids, Len(ids)) /\ r = f[Len(ids)]

LEMMA AfterIs ==
    ASSUME NEW ids, Len(ids) \in Nat, NEW f, Runs(f, "seen", ids, Len(ids))
    PROVE  After(ids) = f[Len(ids)] /\ VisibleIds(ids) = After(ids).visible
<1>1. \A r : (\E g : Runs(g, "seen", ids, Len(ids)) /\ r = g[Len(ids)]) => r = f[Len(ids)]
  BY RunsUnique
<1>2. After(ids) = f[Len(ids)]
  BY <1>1 DEF After
<1> QED
  BY <1>2, LoopsReturn

\* A token more is one round more of the walk and of decode.
LEMMA OneMore ==
    ASSUME NEW T, NEW ids \in Seq(T), NEW t \in T
    PROVE  /\ After(Append(ids, t)) = See(After(ids), t)
           /\ Decode(Append(ids, t)) = Spell(Decode(ids), t)
           /\ VisibleIds(ids) = After(ids).visible
<1> DEFINE more == Append(ids, t)
           m == Len(ids)
<1>1. m \in Nat /\ m + 1 \in Nat /\ Len(more) = m + 1 /\ \A j \in 1 .. m : ids[j] = more[j]
  BY Appended
<1>2. more[m + 1] = t
  BY Appended
<1> HIDE DEF more, m
<1>3. ASSUME NEW loop \in {"seen", "text"},
             NEW f, Runs(f, loop, ids, m), NEW g, Runs(g, loop, more, m + 1)
      PROVE  g[m + 1] = IF loop = "seen" THEN See(f[m], t) ELSE Spell(f[m], t)
  <2>1. Alike(loop, ids, more, m)
    BY <1>1, <1>3 DEF Alike, Round
  <2>2. m + 1 \in Nat /\ m <= m + 1 /\ m \in 0 .. m
    BY <1>1
  <2>3. \A k \in 0 .. m : f[k] = g[k]
    <3> DEFINE l == m + 1
    <3>1. m \in Nat /\ l \in Nat /\ m <= l /\ Runs(f, loop, ids, m) /\ Runs(g, loop, more, l)
      BY <1>1, <1>3
    <3> HIDE DEF l
    <3> QED
      BY <2>1, <3>1, RunsAgree
  <2>4. g[m + 1] = Round(loop, g[m], more, m + 1)
    <3>1. m + 1 \in 0 .. m + 1 /\ m + 1 # 0 /\ (m + 1) - 1 = m
      BY <1>1
    <3> QED
      BY <1>3, <3>1 DEF Runs
  <2> QED
    BY <1>2, <2>2, <2>3, <2>4 DEF Round
<1>4. PICK f1 : Runs(f1, "seen", ids, m)
  BY <1>1, RunsExist
<1>5. PICK f2 : Runs(f2, "text", ids, m)
  BY <1>1, RunsExist
<1>6. PICK g1 : Runs(g1, "seen", more, m + 1)
  BY <1>1, RunsExist
<1>7. PICK g2 : Runs(g2, "text", more, m + 1)
  BY <1>1, RunsExist
<1>8. /\ After(ids) = f1[m] /\ VisibleIds(ids) = After(ids).visible
      /\ After(more) = g1[m + 1]
  BY <1>1, <1>4, <1>6, AfterIs DEF m
<1>9. Decode(ids) = f2[m] /\ Decode(more) = g2[m + 1]
  BY <1>1, <1>5, <1>7, LoopsReturn DEF m
<1>10. g1[m + 1] = See(f1[m], t) /\ g2[m + 1] = Spell(f2[m], t)
  BY <1>3, <1>4, <1>5, <1>6, <1>7
<1> QED
  BY <1>8, <1>9, <1>10 DEF more

\* Nothing comes of no tokens.
LEMMA NoTokens ==
    /\ After(<<>>) = [inch |-> FALSE, visible |-> <<>>]
    /\ Decode(<<>>) = <<>>
<1>1. Len(<<>>) = 0
  OBVIOUS
<1>2. PICK f : Runs(f, "seen", <<>>, 0)
  BY RunsExist
<1>3. PICK g : Runs(g, "text", <<>>, 0)
  BY RunsExist
<1>4. f[0] = Start("seen") /\ g[0] = Start("text")
  BY <1>2, <1>3 DEF Runs
<1> QED
  BY <1>1, <1>2, <1>3, <1>4, AfterIs, LoopsReturn DEF Start

\* Without a closing marker a call reaches to the end, and no other begins.
LEMMA OneCall ==
    ASSUME NEW ids, Len(ids) \in Nat, \A i \in 1 .. Len(ids) : ids[i] # TC_CLOSE
    PROVE  ParseCalls(ids) = <<>> \/ \E c : ParseCalls(ids) = <<c>>
<1>1. ASSUME NEW i \in 1 .. Len(ids) PROVE CallEnd(ids, i) = Len(ids) + 1
  <2>1. {j \in (i + 1) .. Len(ids) : ids[j] = TC_CLOSE} \cup {Len(ids) + 1} = {Len(ids) + 1}
    OBVIOUS
  <2>2. Min({Len(ids) + 1}) = Len(ids) + 1
    BY DEF Min
  <2> QED
    BY <2>1, <2>2 DEF CallEnd
<1>2. PICK f : Runs(f, "calls", ids, Len(ids))
  BY RunsExist
<1> DEFINE S == {k \in Nat : k <= Len(ids) =>
                   \/ f[k].calls = <<>>
                   \/ f[k].next = Len(ids) + 2 /\ \E c : f[k].calls = <<c>>}
<1>3. 0 \in S
  <2>1. f[0] = Start("calls")
    BY <1>2 DEF Runs
  <2> QED
    BY <2>1 DEF Start
<1>4. ASSUME NEW k \in Nat, k \in S PROVE k + 1 \in S
  <2> SUFFICES ASSUME k + 1 <= Len(ids)
               PROVE  \/ f[k + 1].calls = <<>>
                      \/ f[k + 1].next = Len(ids) + 2 /\ \E c : f[k + 1].calls = <<c>>
    OBVIOUS
  <2>1. f[k + 1] = TakeCall(f[k], ids, k + 1)
    <3>1. k + 1 \in 0 .. Len(ids) /\ k + 1 # 0 /\ (k + 1) - 1 = k
      OBVIOUS
    <3> QED
      BY <1>2, <3>1 DEF Runs, Round
  <2>2. CallEnd(ids, k + 1) = Len(ids) + 1
    <3>1. k + 1 \in 1 .. Len(ids)
      OBVIOUS
    <3> QED
      BY <1>1, <3>1
  <2>3. CASE f[k].calls = <<>>
    <3>1. \A c : Append(<<>>, c) = <<c>>
      OBVIOUS
    <3> DEFINE c == SubSeq(ids, (k + 1) + 1, CallEnd(ids, k + 1) - 1)
    <3>2. f[k + 1] = f[k]
          \/ f[k + 1] = [next |-> CallEnd(ids, k + 1) + 1, calls |-> Append(f[k].calls, c)]
      BY <2>1, Zenon DEF TakeCall
    <3> HIDE DEF c
    <3> QED
      BY <2>2, <2>3, <3>1, <3>2
  <2>4. CASE f[k].next = Len(ids) + 2 /\ \E c : f[k].calls = <<c>>
    <3>1. ~(k + 1 >= f[k].next)
      BY <2>4
    <3> QED
      BY <2>1, <2>4, <3>1 DEF TakeCall
  <2> QED
    BY <1>4, <2>3, <2>4
<1> HIDE DEF S
<1>5. Len(ids) \in S /\ Len(ids) <= Len(ids)
  BY <1>3, <1>4, Induction
<1> QED
  BY <1>2, <1>5, LoopsReturn DEF S

-----------------------------------------------------------------------------
(* The stream *)

Opens(ids) == {i \in 1 .. Len(ids) : ids[i] = TC_OPEN}

HasCall(ids) == Opens(ids) # {}

\* The first of them, if there is one, and the tokens before it.
LEMMA FirstOpen ==
    ASSUME NEW T, NEW ids \in Seq(T)
    PROVE  /\ Opens(ids) \in SUBSET (1 .. Len(ids)) /\ Len(ids) \in Nat
           /\ HasCall(ids) => /\ Min(Opens(ids)) \in Opens(ids)
                             /\ \A y \in Opens(ids) : Min(Opens(ids)) <= y
                             /\ BeforeCalls(ids) = SubSeq(ids, 1, Min(Opens(ids)) - 1)
           /\ ~HasCall(ids) => BeforeCalls(ids) = ids
           /\ BeforeCalls(ids) \in Seq(T)
<1>1. Opens(ids) \in SUBSET (1 .. Len(ids)) /\ Len(ids) \in Nat /\ Opens(ids) \in SUBSET Nat
  BY DEF Opens
<1>2. BeforeCalls(ids) = IF Opens(ids) = {} THEN ids ELSE SubSeq(ids, 1, Min(Opens(ids)) - 1)
  BY Zenon DEF BeforeCalls, Opens
<1>3. ASSUME HasCall(ids)
      PROVE  Min(Opens(ids)) \in Opens(ids) /\ \A y \in Opens(ids) : Min(Opens(ids)) <= y
  BY <1>1, <1>3, LeastOf, Zenon DEF HasCall
<1>4. ASSUME HasCall(ids) PROVE SubSeq(ids, 1, Min(Opens(ids)) - 1) \in Seq(T)
  <2> DEFINE k == Min(Opens(ids)) - 1
  <2>1. Min(Opens(ids)) \in 1 .. Len(ids)
    BY <1>1, <1>3, <1>4
  <2>2. k \in Nat /\ \A j \in 1 .. k : ids[j] \in T
    BY <1>1, <2>1
  <2> HIDE DEF k
  <2>3. SubSeq(ids, 1, k) \in Seq(T)
    BY <2>2, SubSeqProperties
  <2> QED
    BY <2>3 DEF k
<1> QED
  BY <1>1, <1>2, <1>3, <1>4, Zenon DEF HasCall

\* The tokens before the first call do not change once there is a call.
LEMMA BeforeCallsOf ==
    ASSUME NEW T, NEW ids \in Seq(T), NEW t \in T
    PROVE  /\ ~HasCall(ids) => BeforeCalls(ids) = ids
           /\ HasCall(ids) \/ t = TC_OPEN => BeforeCalls(Append(ids, t)) = BeforeCalls(ids)
           /\ HasCall(Append(ids, t)) <=> HasCall(ids) \/ t = TC_OPEN
<1> DEFINE more == Append(ids, t)
           m == Len(ids)
<1>1. /\ more \in Seq(T) /\ m \in Nat /\ Len(more) = m + 1
      /\ (\A j \in 1 .. m : ids[j] = more[j]) /\ more[m + 1] = t
  BY Appended
<1>2. Opens(more) = Opens(ids) \cup (IF t = TC_OPEN THEN {m + 1} ELSE {})
  <2> HIDE DEF more
  <2> QED
    BY <1>1 DEF Opens
<1>3. HasCall(more) <=> HasCall(ids) \/ t = TC_OPEN
  BY <1>2 DEF HasCall
<1>6. ASSUME NEW k \in 1 .. m + 1 PROVE SubSeq(more, 1, k - 1) = SubSeq(ids, 1, k - 1)
  <2> DEFINE a == SubSeq(more, 1, k - 1)
             b == SubSeq(ids, 1, k - 1)
  <2>1. /\ a \in Seq(T) /\ Len(a) = IF 1 <= k - 1 THEN (k - 1) - 1 + 1 ELSE 0
        /\ \A j \in 1 .. (k - 1) - 1 + 1 : a[j] = more[1 + j - 1]
    <3> HIDE DEF more
    <3>1. \A j \in 1 .. k - 1 : more[j] \in T
      BY <1>1
    <3> QED
      BY <1>1, <3>1, SubSeqProperties
  <2>2. /\ b \in Seq(T) /\ Len(b) = IF 1 <= k - 1 THEN (k - 1) - 1 + 1 ELSE 0
        /\ \A j \in 1 .. (k - 1) - 1 + 1 : b[j] = ids[1 + j - 1]
    <3>1. \A j \in 1 .. k - 1 : ids[j] \in T
      BY <1>1
    <3> QED
      BY <1>1, <3>1, SubSeqProperties
  <2> HIDE DEF a, b, more
  <2>3. Len(a) = k - 1 /\ Len(b) = k - 1
    BY <1>1, <2>1, <2>2
  <2>4. ASSUME NEW j \in 1 .. k - 1 PROVE a[j] = b[j]
    <3>1. j \in 1 .. (k - 1) - 1 + 1 /\ 1 + j - 1 = j /\ j \in 1 .. m
      BY <1>1
    <3> QED
      BY <1>1, <2>1, <2>2, <3>1
  <2>5. a = b
    BY <2>1, <2>2, <2>3, <2>4, SeqEqual
  <2> QED
    BY <2>5 DEF a, b
<1> HIDE DEF more
<1>7. ASSUME HasCall(ids) PROVE BeforeCalls(more) = BeforeCalls(ids)
  <2> DEFINE p == Min(Opens(ids))
             q == Min(Opens(more))
  <2>1. HasCall(more)
    BY <1>3, <1>7
  <2>2. /\ p \in Opens(ids) /\ Opens(ids) \in SUBSET (1 .. m) /\ \A y \in Opens(ids) : p <= y
        /\ BeforeCalls(ids) = SubSeq(ids, 1, p - 1)
    BY <1>7, FirstOpen, Zenon
  <2>3. /\ q \in Opens(more) /\ \A y \in Opens(more) : q <= y
        /\ BeforeCalls(more) = SubSeq(more, 1, q - 1)
    BY <1>1, <2>1, FirstOpen, Zenon
  <2> HIDE DEF p, q
  <2>4. p \in 1 .. m
    BY <2>2
  <2>5. q = p
    <3>1. q \in Opens(ids) \/ q = m + 1
      BY <1>2, <2>3
    <3>2. q <= p
      BY <1>2, <2>2, <2>3
    <3>3. q \in Opens(ids)
      BY <1>1, <2>4, <3>1, <3>2
    <3> QED
      BY <2>2, <2>4, <3>2, <3>3
  <2>6. p \in 1 .. m + 1
    BY <1>1, <2>4
  <2> QED
    BY <1>6, <2>2, <2>3, <2>5, <2>6
<1>8. ASSUME ~HasCall(ids), t = TC_OPEN PROVE BeforeCalls(more) = BeforeCalls(ids)
  <2>1. Opens(more) = {m + 1} /\ HasCall(more)
    BY <1>2, <1>8 DEF HasCall
  <2>2. Min(Opens(more)) = m + 1
    <3>1. Min(Opens(more)) \in Opens(more)
      BY <1>1, <2>1, FirstOpen, Zenon
    <3> QED
      BY <2>1, <3>1
  <2>3. BeforeCalls(more) = SubSeq(more, 1, (m + 1) - 1)
    BY <1>1, <2>1, <2>2, FirstOpen, Zenon
  <2>4. m + 1 \in 1 .. m + 1
    BY <1>1
  <2>5. SubSeq(more, 1, (m + 1) - 1) = SubSeq(ids, 1, (m + 1) - 1)
    BY <1>6, <2>4, Zenon
  <2>6. SubSeq(ids, 1, (m + 1) - 1) = ids
    <3>1. (m + 1) - 1 = m
      BY <1>1
    <3>2. SubSeq(ids, 1, m) = ids
      OBVIOUS
    <3> QED
      BY <3>1, <3>2, Zenon
  <2>7. BeforeCalls(ids) = ids
    BY <1>8, FirstOpen, Zenon
  <2> QED
    BY <2>3, <2>5, <2>6, <2>7, Zenon
<1>9. ~HasCall(ids) => BeforeCalls(ids) = ids
  BY FirstOpen, Zenon
<1> QED
  BY <1>3, <1>7, <1>8, <1>9, Zenon DEF more

\* What the stream keeps is what the walk over the tokens before the first call
\* would have, what it has sent is its text, and no call has been closed.
SplitInv ==
    /\ gen_ids \in Seq(Tokens \ {TC_CLOSE})
    /\ stream =>
         /\ toolmode = HasCall(gen_ids)
         /\ After(BeforeCalls(gen_ids)) = [inch |-> inch, visible |-> vis]
         /\ vis \in Seq(Tokens)
         /\ sent = Decode(vis)
    /\ stream \in BOOLEAN /\ inch \in BOOLEAN
    /\ phase = "answered" => told = ParseCalls(gen_ids)

\* A token that is yielded goes through the split.
LEMMA SplitToken ==
    ASSUME SplitInv, NEW t \in Tokens, Token(t)
    PROVE  SplitInv'
<1>1. /\ phase = "running" /\ t \in Tokens \ {TC_CLOSE} /\ gen_ids' = Append(gen_ids, t)
      /\ UNCHANGED <<stream, phase, told>>
  BY DEF Token, Stops
<1>2. gen_ids \in Seq(Tokens \ {TC_CLOSE}) /\ gen_ids' \in Seq(Tokens \ {TC_CLOSE})
  BY <1>1, Appended DEF SplitInv
<1>3. ASSUME stream
      PROVE  /\ toolmode' = HasCall(gen_ids')
             /\ After(BeforeCalls(gen_ids')) = [inch |-> inch', visible |-> vis']
             /\ vis' \in Seq(Tokens) /\ sent' = Decode(vis') /\ inch' \in BOOLEAN
  <2>1. /\ toolmode = HasCall(gen_ids) /\ inch \in BOOLEAN
        /\ After(BeforeCalls(gen_ids)) = [inch |-> inch, visible |-> vis]
        /\ vis \in Seq(Tokens)
    BY <1>3 DEF SplitInv
  <2>2. /\ toolmode' = (toolmode \/ t = TC_OPEN)
        /\ inch' = IF toolmode' THEN inch ELSE ChannelState(inch, t)
        /\ vis' = IF toolmode' \/ inch' \/ t = CH_CLOSE THEN vis ELSE Append(vis, t)
        /\ sent' = Decode(vis')
    BY <1>3 DEF Token, EntersToolMode
  <2>3. toolmode' = HasCall(gen_ids')
    <3>1. HasCall(Append(gen_ids, t)) <=> HasCall(gen_ids) \/ t = TC_OPEN
      BY <1>1, <1>2, BeforeCallsOf, Zenon
    <3>2. HasCall(gen_ids) \in BOOLEAN /\ HasCall(gen_ids') = HasCall(Append(gen_ids, t))
      BY <1>1 DEF HasCall
    <3> QED
      BY <2>1, <2>2, <3>1, <3>2 DEF HasCall
  <2>4. vis' \in Seq(Tokens)
    BY <2>1, <2>2, Appended
  <2>5. inch' \in BOOLEAN
    BY <2>1, <2>2 DEF ChannelState
  <2>6. CASE toolmode'
    <3>1. BeforeCalls(gen_ids') = BeforeCalls(gen_ids)
      <4>1. HasCall(gen_ids) \/ t = TC_OPEN
        BY <2>1, <2>2, <2>6
      <4> QED
        BY <1>1, <1>2, <4>1, BeforeCallsOf, Zenon
    <3> QED
      BY <2>1, <2>2, <2>3, <2>4, <2>5, <2>6, <3>1
  <2>7. CASE ~toolmode'
    <3>1. BeforeCalls(gen_ids') = gen_ids' /\ BeforeCalls(gen_ids) = gen_ids
      <4>1. ~HasCall(gen_ids) /\ ~HasCall(gen_ids')
        BY <2>1, <2>2, <2>3, <2>7
      <4> QED
        BY <1>2, <4>1, FirstOpen, Zenon
    <3>2. After(gen_ids') = See(After(gen_ids), t)
      BY <1>1, <1>2, OneMore, Zenon
    <3>3. See([inch |-> inch, visible |-> vis], t) = [inch |-> inch', visible |-> vis']
      BY <2>1, <2>2, <2>7 DEF See, ChannelState, CH_OPEN, CH_CLOSE
    <3> QED
      BY <2>1, <2>2, <2>3, <2>4, <2>5, <3>1, <3>2, <3>3
  <2> QED
    BY <2>6, <2>7
<1>4. ~stream => inch' = inch
  BY DEF Token
<1> QED
  BY <1>1, <1>2, <1>3, <1>4 DEF SplitInv

\* The other steps tell what the whole parses to.
LEMMA SplitStep == SplitInv /\ [Next]_vars => SplitInv'
<1> SUFFICES ASSUME SplitInv, [Next]_vars PROVE SplitInv'
  OBVIOUS
<1>1. ASSUME NEW t \in Words \cup Marks, Token(t) PROVE SplitInv'
  BY <1>1, SplitToken DEF Tokens
<1>2. ASSUME Ends \/ FenceTimeout \/ TellCall \/ UNCHANGED vars PROVE SplitInv'
  <2>1. /\ UNCHANGED <<stream, gen_ids, vis, toolmode, inch, sent>>
        /\ phase' = "answered" => phase = "answered" /\ told' = told
    BY <1>2 DEF Ends, FenceTimeout, TellCall, vars
  <2> QED
    BY <2>1 DEF SplitInv
<1>3. ASSUME Answer PROVE SplitInv'
  <2>1. /\ UNCHANGED <<stream, gen_ids, vis, toolmode, inch>>
        /\ stream => sent' = sent
        /\ told' = ParseToolOutput(gen_ids).calls
    BY <1>3 DEF Answer
  <2>2. ParseToolOutput(gen_ids).calls = ParseCalls(gen_ids)
    BY DEF ParseToolOutput
  <2> QED
    BY <2>1, <2>2 DEF SplitInv
<1> QED
  BY <1>1, <1>2, <1>3 DEF Next

\* Nothing has been yielded.
LEMMA SplitInitially == Init => SplitInv
<1> SUFFICES ASSUME Init PROVE SplitInv
  OBVIOUS
<1>1. /\ stream \in BOOLEAN /\ gen_ids = <<>> /\ vis = <<>> /\ toolmode = FALSE /\ inch = FALSE
      /\ phase = "running" /\ sent = <<>>
  BY DEF Init
<1>2. ~HasCall(<<>>) /\ HasCall(<<>>) \in BOOLEAN
  BY DEF HasCall, Opens
<1>3. BeforeCalls(<<>>) = <<>>
  <2>1. <<>> \in Seq({})
    OBVIOUS
  <2> QED
    BY <1>2, <2>1, FirstOpen, Zenon
<1>4. gen_ids \in Seq(Tokens \ {TC_CLOSE}) /\ vis \in Seq(Tokens)
  BY <1>1
<1>5. toolmode = HasCall(gen_ids)
  BY <1>1, <1>2
<1>6. After(BeforeCalls(gen_ids)) = [inch |-> inch, visible |-> vis] /\ sent = Decode(vis)
  BY <1>1, <1>3, NoTokens, Zenon
<1> QED
  BY <1>1, <1>4, <1>5, <1>6 DEF SplitInv

LEMMA Split == Spec => []SplitInv
BY SplitInitially, SplitStep, PTL DEF Spec

-----------------------------------------------------------------------------
\* The incremental split and the parse of the whole agree, whatever the model
\* yields and wherever it is cut off (serve.py:491-507, 526).
THEOREM SplitCorrect == Spec => []StreamedIsContent
<1>1. ASSUME SplitInv PROVE StreamedIsContent
  <2>1. ASSUME stream PROVE Strip(sent) = ParseToolOutput(gen_ids).content
    <3>1. sent = Decode(vis) /\ After(BeforeCalls(gen_ids)) = [inch |-> inch, visible |-> vis]
      BY <1>1, <2>1 DEF SplitInv
    <3>2. Len(BeforeCalls(gen_ids)) \in Nat
      <4>1. gen_ids \in Seq(Tokens \ {TC_CLOSE})
        BY <1>1 DEF SplitInv
      <4>2. BeforeCalls(gen_ids) \in Seq(Tokens \ {TC_CLOSE})
        BY <4>1, FirstOpen, Zenon
      <4> QED
        BY <4>2
    <3>3. VisibleIds(BeforeCalls(gen_ids)) = vis
      <4>1. PICK f : Runs(f, "seen", BeforeCalls(gen_ids), Len(BeforeCalls(gen_ids)))
        BY <3>2, RunsExist
      <4>2. VisibleIds(BeforeCalls(gen_ids)) = After(BeforeCalls(gen_ids)).visible
        BY <3>2, <4>1, AfterIs
      <4> QED
        BY <3>1, <4>2
    <3> QED
      BY <3>1, <3>3 DEF ParseToolOutput
  <2>2. ParseToolOutput(gen_ids).calls = ParseCalls(gen_ids)
    BY DEF ParseToolOutput
  <2> QED
    BY <1>1, <2>1, <2>2 DEF StreamedIsContent, SplitInv
<1> QED
  BY <1>1, Split, PTL

\* The closing marker halts the engine, so there is never a second call: what
\* looks like one is text of the first (serve.py:402-406, 283-294).
THEOREM OneCallCorrect == Spec => []AtMostOneCall
<1>1. ASSUME SplitInv PROVE AtMostOneCall
  <2>1. Len(gen_ids) \in Nat /\ \A i \in 1 .. Len(gen_ids) : gen_ids[i] # TC_CLOSE
    BY <1>1 DEF SplitInv
  <2>2. ParseCalls(gen_ids) = <<>> \/ \E c : ParseCalls(gen_ids) = <<c>>
    BY <2>1, OneCall
  <2>3. Len(<<>>) = 0 /\ \A c : Len(<<c>>) = 1
    OBVIOUS
  <2> DEFINE calls == ParseCalls(gen_ids)
  <2>4. calls = <<>> \/ \E c : calls = <<c>>
    BY <2>2
  <2> HIDE DEF calls
  <2>5. Len(calls) = 0 \/ Len(calls) = 1
    BY <2>3, <2>4, Zenon
  <2> QED
    <3>1. \A n : n = 0 \/ n = 1 => n <= 1
      OBVIOUS
    <3> QED
      BY <2>5, <3>1, Zenon DEF AtMostOneCall, calls
<1> QED
  BY <1>1, Split, PTL

\* Calls are told once the generation has ended, and the finish reason says so.
ToldInv ==
    /\ phase \in {"running", "ended", "answered", "timed out"}
    /\ phase \in {"running", "timed out"} => told = <<>>
    /\ phase \in {"running", "ended"} => fin = "none"
    /\ phase = "answered" => fin = Finish(told)

\* A client is told to call a tool only by a generation that ended, and is told
\* so by the finish reason, wherever a wedge cuts the call (serve.py:502-510).
THEOREM ToldCorrect == Spec => []CallsAreFinished
<1>1. Init => ToldInv
  BY DEF Init, ToldInv
<1>2. ASSUME ToldInv, [Next]_vars PROVE ToldInv'
  <2>1. ASSUME NEW t \in Words \cup Marks, Token(t) PROVE ToldInv'
    BY <1>2, <2>1 DEF ToldInv, Token
  <2>2. CASE Ends
    BY <1>2, <2>2 DEF ToldInv, Ends
  <2>3. CASE FenceTimeout
    BY <1>2, <2>3 DEF ToldInv, FenceTimeout
  <2>4. CASE TellCall
    BY <1>2, <2>4 DEF ToldInv, TellCall
  <2>5. CASE Answer
    <3>1. /\ phase' = "answered" /\ told' = ParseToolOutput(gen_ids).calls
          /\ fin' = Finish(ParseToolOutput(gen_ids).calls) /\ UNCHANGED <<gen_ids, max_new>>
      BY <2>5 DEF Answer
    <3> QED
      BY <3>1 DEF ToldInv, Finish
  <2>6. CASE UNCHANGED vars
    BY <1>2, <2>6 DEF ToldInv, vars, Finish
  <2> QED
    BY <1>2, <2>1, <2>2, <2>3, <2>4, <2>5, <2>6 DEF Next
<1>3. ToldInv => CallsAreFinished
  BY DEF ToldInv, CallsAreFinished, Finish
<1> QED
  BY <1>1, <1>2, <1>3, PTL DEF Spec
-----------------------------------------------------------------------------
(* What a stream has sent *)

\* InChannel, Shown and ShownUpTo, of any tokens.
ChannelAt(ids, i) ==
    \E o \in 1..(i - 1) : ids[o] = CH_OPEN /\ \A c \in (o + 1)..(i - 1) : ids[c] # CH_CLOSE

ShownOf(ids) ==
    {i \in 1..Len(ids) : ids[i] \in Words /\ ~ChannelAt(ids, i) /\ \A o \in 1..i : ids[o] # TC_OPEN}

UpTo(S, k) == {i \in S : i <= k}

LEMMA OfTokens ==
    /\ Shown = ShownOf(gen_ids) /\ \A i : InChannel(i) = ChannelAt(gen_ids, i)
    /\ \A k : ShownUpTo(k) = UpTo(Shown, k)
<1>1. \A i : InChannel(i) = ChannelAt(gen_ids, i)
  BY Zenon DEF InChannel, ChannelAt
<1>2. Shown = ShownOf(gen_ids)
  BY <1>1, Zenon DEF Shown, ShownOf
<1>3. \A k : ShownUpTo(k) = UpTo(Shown, k)
  BY Zenon DEF ShownUpTo, UpTo
<1> QED
  BY <1>1, <1>2, <1>3, Zenon

\* A token more changes nothing before it, and is shown itself if it is a word
\* outside channels and no call has begun.
LEMMA ShownGrows ==
    ASSUME NEW T, NEW ids \in Seq(T), NEW t \in T
    PROVE  /\ ChannelAt(Append(ids, t), Len(ids) + 2) <=> ChannelState(ChannelAt(ids, Len(ids) + 1), t)
           /\ ShownOf(Append(ids, t)) =
                ShownOf(ids) \cup
                (IF t \in Words /\ ~ChannelAt(ids, Len(ids) + 1) /\ ~HasCall(Append(ids, t))
                 THEN {Len(ids) + 1} ELSE {})
           /\ ShownOf(ids) \subseteq 1 .. Len(ids)
<1> DEFINE more == Append(ids, t)
           n == Len(ids)
<1>1. n \in Nat /\ Len(more) = n + 1 /\ (\A j \in 1 .. n : more[j] = ids[j]) /\ more[n + 1] = t
  BY Appended
<1> HIDE DEF more, n
<1>2. ASSUME NEW i \in 1 .. n + 1 PROVE ChannelAt(more, i) = ChannelAt(ids, i)
  <2>1. \A o \in 1 .. (i - 1) : o \in 1 .. n /\ (o + 1) .. (i - 1) \subseteq 1 .. n
    BY <1>1
  <2>2. \A o \in 1 .. (i - 1) : more[o] = ids[o] /\ \A c \in (o + 1) .. (i - 1) : more[c] = ids[c]
    BY <1>1, <2>1
  <2>3. \A o \in 1 .. (i - 1) :
          /\ (more[o] = CH_OPEN) = (ids[o] = CH_OPEN)
          /\ (\A c \in (o + 1) .. (i - 1) : more[c] # CH_CLOSE)
               = (\A c \in (o + 1) .. (i - 1) : ids[c] # CH_CLOSE)
    BY <2>2
  <2> QED
    BY <2>3, Zenon DEF ChannelAt
<1>3. ChannelAt(more, n + 2) <=> ChannelState(ChannelAt(ids, n + 1), t)
  <2>1. (n + 2) - 1 = n + 1 /\ (n + 1) - 1 = n
    BY <1>1
  <2>2. ASSUME t = CH_OPEN PROVE ChannelAt(more, n + 2)
    <3>1. n + 1 \in 1 .. n + 1 /\ (n + 1 + 1) .. n + 1 = {} /\ more[n + 1] = CH_OPEN
      BY <1>1, <2>2
    <3> QED
      BY <2>1, <3>1 DEF ChannelAt
  <2>3. ASSUME t = CH_CLOSE PROVE ~ChannelAt(more, n + 2)
    <3>1. ASSUME NEW o \in 1 .. n + 1, more[o] = CH_OPEN
          PROVE  \E c \in (o + 1) .. n + 1 : more[c] = CH_CLOSE
      <4>1. o # n + 1
        BY <1>1, <2>3, <3>1 DEF CH_OPEN, CH_CLOSE
      <4>2. n + 1 \in (o + 1) .. n + 1
        BY <1>1, <4>1
      <4> QED
        BY <1>1, <2>3, <4>2
    <3> QED
      BY <2>1, <3>1 DEF ChannelAt
  <2>4. ASSUME t # CH_OPEN, t # CH_CLOSE PROVE ChannelAt(more, n + 2) = ChannelAt(ids, n + 1)
    <3>1. ASSUME NEW o \in 1 .. n, more[o] = CH_OPEN, \A c \in (o + 1) .. n + 1 : more[c] # CH_CLOSE
          PROVE  ids[o] = CH_OPEN /\ \A c \in (o + 1) .. n : ids[c] # CH_CLOSE
      BY <1>1, <3>1
    <3>2. ASSUME NEW o \in 1 .. n, ids[o] = CH_OPEN, \A c \in (o + 1) .. n : ids[c] # CH_CLOSE
          PROVE  more[o] = CH_OPEN /\ \A c \in (o + 1) .. n + 1 : more[c] # CH_CLOSE
      <4>1. ASSUME NEW c \in (o + 1) .. n + 1 PROVE more[c] # CH_CLOSE
        <5>1. c = n + 1 \/ (c \in (o + 1) .. n /\ c \in 1 .. n)
          BY <1>1
        <5> QED
          BY <1>1, <2>4, <3>2, <5>1
      <4> QED
        BY <1>1, <3>2, <4>1
    <3>3. \A o \in 1 .. n + 1 : more[o] = CH_OPEN => o \in 1 .. n
      BY <1>1, <2>4
    <3>4. 1 .. n \subseteq 1 .. n + 1
      BY <1>1
    <3>5. ChannelAt(more, n + 2) <=> \E o \in 1 .. n + 1 : more[o] = CH_OPEN /\ \A c \in (o + 1) .. n + 1 : more[c] # CH_CLOSE
      BY <2>1, Zenon DEF ChannelAt
    <3>6. ChannelAt(ids, n + 1) <=> \E o \in 1 .. n : ids[o] = CH_OPEN /\ \A c \in (o + 1) .. n : ids[c] # CH_CLOSE
      BY <2>1, Zenon DEF ChannelAt
    <3>7. ChannelAt(more, n + 2) \in BOOLEAN /\ ChannelAt(ids, n + 1) \in BOOLEAN
      BY Zenon DEF ChannelAt
    <3>8. ASSUME ChannelAt(more, n + 2) PROVE ChannelAt(ids, n + 1)
      <4>1. PICK o \in 1 .. n + 1 : more[o] = CH_OPEN /\ \A c \in (o + 1) .. n + 1 : more[c] # CH_CLOSE
        BY <3>5, <3>8, Zenon
      <4>2. o \in 1 .. n
        BY <3>3, <4>1, Zenon
      <4> QED
        BY <3>1, <3>6, <4>1, <4>2, Zenon
    <3>9. ASSUME ChannelAt(ids, n + 1) PROVE ChannelAt(more, n + 2)
      <4>1. PICK o \in 1 .. n : ids[o] = CH_OPEN /\ \A c \in (o + 1) .. n : ids[c] # CH_CLOSE
        BY <3>6, <3>9, Zenon
      <4>2. o \in 1 .. n + 1
        BY <3>4, Zenon
      <4> QED
        BY <3>2, <3>5, <4>1, <4>2, Zenon
    <3> QED
      BY <3>7, <3>8, <3>9
  <2> QED
    BY <2>2, <2>3, <2>4 DEF ChannelState, CH_OPEN, CH_CLOSE
<1>4. ASSUME NEW i \in 1 .. n PROVE i \in ShownOf(more) <=> i \in ShownOf(ids)
  <2>1. i \in 1 .. n + 1 /\ more[i] = ids[i] /\ \A o \in 1 .. i : more[o] = ids[o]
    BY <1>1
  <2>2. ChannelAt(more, i) = ChannelAt(ids, i)
    BY <1>2, <2>1
  <2> QED
    BY <1>1, <2>1, <2>2 DEF ShownOf, n
<1>5. n + 1 \in ShownOf(more) <=> t \in Words /\ ~ChannelAt(ids, n + 1) /\ ~HasCall(more)
  <2>1. n + 1 \in 1 .. n + 1 /\ 1 .. n + 1 = 1 .. Len(more) /\ more[n + 1] = t
    BY <1>1
  <2>2. ChannelAt(more, n + 1) = ChannelAt(ids, n + 1)
    BY <1>2, <2>1
  <2>3. HasCall(more) <=> \E o \in 1 .. Len(more) : more[o] = TC_OPEN
    BY DEF HasCall, Opens
  <2> QED
    BY <2>1, <2>2, <2>3, Zenon DEF ShownOf
<1>6. ShownOf(ids) \subseteq 1 .. n /\ ShownOf(more) \subseteq (1 .. n) \cup {n + 1}
  <2>1. ShownOf(ids) \subseteq 1 .. n
    BY DEF ShownOf, n
  <2>2. ShownOf(more) \subseteq 1 .. Len(more) /\ 1 .. Len(more) = (1 .. n) \cup {n + 1}
    BY <1>1 DEF ShownOf
  <2> QED
    BY <2>1, <2>2
<1>7. ShownOf(more) = ShownOf(ids) \cup
        (IF t \in Words /\ ~ChannelAt(ids, n + 1) /\ ~HasCall(more) THEN {n + 1} ELSE {})
  BY <1>4, <1>5, <1>6
<1> QED
  BY <1>3, <1>6, <1>7, Zenon DEF more, n

\* The places of the numbers of a set among them, with a greater one added.
LEMMA Places ==
    ASSUME NEW n \in Nat, NEW S \in SUBSET (1 .. n)
    PROVE  /\ Cardinality(S) \in Nat /\ Cardinality(S \cup {n + 1}) = Cardinality(S) + 1
           /\ \A i \in S : /\ UpTo(S \cup {n + 1}, i) = UpTo(S, i)
                           /\ Cardinality(UpTo(S, i)) \in 1 .. Cardinality(S)
           /\ UpTo(S \cup {n + 1}, n + 1) = S \cup {n + 1}
<1>1. IsFiniteSet(S) /\ n + 1 \notin S
  <2>1. IsFiniteSet(1 .. n)
    BY FS_Interval
  <2>2. IsFiniteSet(S)
    BY <2>1, FS_Subset, Zenon
  <2>3. n + 1 \notin S
    OBVIOUS
  <2> QED
    BY <2>2, <2>3
<1>2. Cardinality(S) \in Nat /\ Cardinality(S \cup {n + 1}) = Cardinality(S) + 1
  BY <1>1, FS_CardinalityType, FS_AddElement
<1>3. ASSUME NEW i \in S PROVE UpTo(S \cup {n + 1}, i) = UpTo(S, i)
  <2>1. i \in 1 .. n /\ ~(n + 1 <= i)
    OBVIOUS
  <2> QED
    BY <2>1 DEF UpTo
<1>4. ASSUME NEW i \in S PROVE Cardinality(UpTo(S, i)) \in 1 .. Cardinality(S)
  <2>1. UpTo(S, i) \in SUBSET S /\ i \in UpTo(S, i)
    BY DEF UpTo
  <2>2. IsFiniteSet(UpTo(S, i)) /\ Cardinality(UpTo(S, i)) <= Cardinality(S)
    BY <1>1, <2>1, FS_Subset
  <2>3. Cardinality(UpTo(S, i)) \in Nat /\ Cardinality(UpTo(S, i)) # 0
    BY <2>1, <2>2, FS_CardinalityType, FS_EmptySet
  <2> QED
    BY <1>2, <2>2, <2>3
<1>5. UpTo(S \cup {n + 1}, n + 1) = S \cup {n + 1}
  <2>1. \A i \in S \cup {n + 1} : i <= n + 1
    OBVIOUS
  <2> QED
    BY <2>1 DEF UpTo
<1> QED
  BY <1>2, <1>3, <1>4, <1>5

\* The channel of the stream is that of the tokens so far, and it has sent words.
ShownInv ==
    /\ stream /\ ~toolmode => (inch <=> InChannel(Len(gen_ids) + 1))
    /\ stream => sent \in Seq(Words)
    /\ SentIsVisible

\* A token of the stream is sent if it is shown.
LEMMA ShownToken ==
    ASSUME SplitInv, ShownInv, stream, NEW t \in Tokens, Token(t)
    PROVE  ShownInv'
<1> DEFINE T == Tokens \ {TC_CLOSE}
           n == Len(gen_ids)
           more == Append(gen_ids, t)
           S == ShownOf(gen_ids)
           shows == t \in Words /\ ~ChannelAt(gen_ids, n + 1) /\ ~HasCall(more)
<1>1. gen_ids \in Seq(T) /\ t \in T /\ gen_ids' = more /\ stream' = stream /\ n \in Nat /\ inch \in BOOLEAN
  BY DEF SplitInv, Token, Stops
<1>2. /\ toolmode' = (toolmode \/ t = TC_OPEN)
      /\ inch' = IF toolmode' THEN inch ELSE ChannelState(inch, t)
      /\ vis' = IF toolmode' \/ inch' \/ t = CH_CLOSE THEN vis ELSE Append(vis, t)
      /\ sent' = Decode(vis') /\ sent = Decode(vis) /\ vis \in Seq(Tokens)
  BY DEF SplitInv, Token, EntersToolMode
<1>3. toolmode = HasCall(gen_ids) /\ toolmode' = HasCall(more) /\ toolmode' \in BOOLEAN
  <2>1. SplitInv' /\ stream'
    BY <1>1, SplitToken
  <2>2. toolmode' = HasCall(gen_ids)'
    BY <2>1 DEF SplitInv
  <2>3. HasCall(gen_ids)' = HasCall(more)
    BY <1>1 DEF HasCall, Opens
  <2> QED
    BY <2>2, <2>3 DEF SplitInv, HasCall
<1>4. /\ ChannelAt(more, n + 2) <=> ChannelState(ChannelAt(gen_ids, n + 1), t)
      /\ ShownOf(more) = S \cup (IF shows THEN {n + 1} ELSE {})
      /\ S \in SUBSET (1 .. n)
  BY <1>1, ShownGrows, Zenon
<1>5. Shown = S /\ Shown' = ShownOf(more)
  <2>1. \A i : InChannel(i)' = ChannelAt(more, i)
    BY <1>1, Zenon DEF InChannel, ChannelAt
  <2>2. Shown' = ShownOf(more)
    BY <1>1, <2>1, Zenon DEF Shown, ShownOf
  <2> QED
    BY <2>2, OfTokens
<1>6. ~toolmode => inch = ChannelAt(gen_ids, n + 1)
  BY <1>1, OfTokens, Zenon DEF ShownInv, ChannelAt
<1>7. stream' /\ ~toolmode' => (inch' <=> InChannel(Len(gen_ids) + 1)')
  <2> SUFFICES ASSUME ~toolmode' PROVE inch' <=> InChannel(Len(gen_ids) + 1)'
    OBVIOUS
  <2>1. inch' = ChannelState(ChannelAt(gen_ids, n + 1), t)
    BY <1>2, <1>6
  <2>2. InChannel(Len(gen_ids) + 1)' = ChannelAt(more, Len(more) + 1)
    BY <1>1, Zenon DEF InChannel, ChannelAt
  <2>3. Len(more) + 1 = n + 2
    BY <1>1, Appended
  <2> QED
    BY <1>4, <2>1, <2>2, <2>3, Zenon
<1>8. shows <=> t \in Words /\ ~toolmode' /\ ~inch'
  <2>1. t \in Words => t # CH_OPEN /\ t # CH_CLOSE
    BY WordsAssumption DEF Marks
  <2>2. t \in Words /\ ~toolmode' => inch' = inch /\ inch = ChannelAt(gen_ids, n + 1)
    BY <1>2, <1>6, <2>1 DEF ChannelState
  <2> QED
    BY <1>3, <2>2
<1>9. sent \in Seq(Words) /\ sent' = IF shows THEN Append(sent, t) ELSE sent
  <2>1. sent \in Seq(Words)
    BY DEF ShownInv
  <2>2. t \in Words => t # CH_CLOSE
    BY WordsAssumption DEF Marks
  <2>3. Decode(Append(vis, t)) = IF t \in Words THEN Append(sent, t) ELSE sent
    BY <1>2, OneMore, Zenon DEF Spell
  <2> HIDE DEF shows
  <2>4. CASE shows
    BY <1>2, <1>8, <2>1, <2>2, <2>3, <2>4, Zenon
  <2>5. CASE ~shows
    <3>1. vis' = vis \/ (vis' = Append(vis, t) /\ t \notin Words)
      BY <1>2, <1>8, <2>5, Zenon
    <3>2. sent' = sent
      BY <1>2, <2>3, <3>1, Zenon
    <3> QED
      BY <2>1, <2>5, <3>2
  <2> QED
    BY <2>4, <2>5
<1>10. /\ Len(sent) = Cardinality(S)
       /\ \A i \in S : sent[Cardinality(UpTo(S, i))] = gen_ids[i]
  BY <1>5, OfTokens, Zenon DEF ShownInv, SentIsVisible
<1> HIDE DEF S, shows
<1>11. /\ Len(sent)' = Cardinality(ShownOf(more))
       /\ \A i \in ShownOf(more) : sent'[Cardinality(UpTo(ShownOf(more), i))] = more[i]
  <2>1. Len(more) = n + 1 /\ (\A i \in 1 .. n : more[i] = gen_ids[i]) /\ more[n + 1] = t
    BY <1>1, Appended
  <2>2. \A i \in S : more[i] = gen_ids[i]
    BY <1>4, <2>1
  <2>3. CASE ~shows
    BY <1>4, <1>9, <1>10, <2>2, <2>3
  <2>4. CASE shows
    <3>1. t \in Words /\ sent' = Append(sent, t)
      BY <1>8, <1>9, <2>4 DEF shows
    <3>2. /\ Len(sent') = Len(sent) + 1 /\ (\A j \in 1 .. Len(sent) : sent'[j] = sent[j])
          /\ sent'[Len(sent) + 1] = t
      BY <1>9, <3>1, Appended
    <3> DEFINE S2 == S \cup {n + 1}
    <3>3. ShownOf(more) = S2
      BY <1>4, <2>4
    <3>4. /\ Cardinality(S) \in Nat /\ Cardinality(S2) = Cardinality(S) + 1
          /\ \A i \in S : /\ UpTo(S2, i) = UpTo(S, i)
                          /\ Cardinality(UpTo(S, i)) \in 1 .. Cardinality(S)
          /\ UpTo(S2, n + 1) = S2
      BY <1>1, <1>4, Places, Zenon
    <3>5. ASSUME NEW i \in S PROVE sent'[Cardinality(UpTo(S2, i))] = more[i]
      BY <1>10, <2>2, <3>2, <3>4, <3>5
    <3>6. sent'[Cardinality(UpTo(S2, n + 1))] = more[n + 1]
      BY <1>10, <2>1, <3>2, <3>4
    <3>7. \A i \in S2 : sent'[Cardinality(UpTo(S2, i))] = more[i]
      BY <3>5, <3>6
    <3>8. Len(sent') = Cardinality(S2)
      BY <1>10, <3>2, <3>4
    <3> QED
      BY <3>3, <3>7, <3>8
  <2> QED
    BY <2>3, <2>4
<1>12. sent' \in Seq(Words)
  <2>1. shows => t \in Words
    BY DEF shows
  <2> QED
    BY <1>9, <2>1, Appended
<1>13. SentIsVisible'
  <2>1. \A k : ShownUpTo(k)' = UpTo(ShownOf(more), k)
    BY <1>5, Zenon DEF ShownUpTo, UpTo
  <2>2. Len(sent') = Cardinality(Shown')
    BY <1>5, <1>11
  <2>3. \A i \in Shown' : sent'[Cardinality(ShownUpTo(i)')] = gen_ids'[i]
    BY <1>1, <1>5, <1>11, <2>1, Zenon
  <2> QED
    BY <2>2, <2>3, Zenon DEF SentIsVisible
<1> QED
  BY <1>7, <1>12, <1>13, Zenon DEF ShownInv

\* The other steps yield nothing and leave what a stream has sent.
LEMMA ShownStep == SplitInv /\ ShownInv /\ [Next]_vars => ShownInv'
<1> SUFFICES ASSUME SplitInv, ShownInv, [Next]_vars PROVE ShownInv'
  OBVIOUS
<1>1. ASSUME stream, NEW t \in Words \cup Marks, Token(t) PROVE ShownInv'
  BY <1>1, ShownToken DEF Tokens
<1>2. ASSUME ~stream PROVE ShownInv'
  <2>1. stream' = stream
    BY DEF Next, Token, Ends, FenceTimeout, TellCall, Answer, vars
  <2> QED
    BY <1>2, <2>1, Zenon DEF ShownInv, SentIsVisible
<1>3. ASSUME stream, Ends \/ FenceTimeout \/ TellCall \/ Answer \/ UNCHANGED vars PROVE ShownInv'
  <2>1. UNCHANGED <<stream, gen_ids, toolmode, inch, sent>>
    BY <1>3 DEF Ends, FenceTimeout, TellCall, Answer, vars
  <2>2. InChannel(Len(gen_ids) + 1)' = InChannel(Len(gen_ids) + 1)
    BY <2>1, Zenon DEF InChannel
  <2>3. Shown' = Shown
    BY <2>1, Zenon DEF Shown, InChannel
  <2>4. \A k : ShownUpTo(k)' = ShownUpTo(k)
    BY <2>3, Zenon DEF ShownUpTo
  <2>5. SentIsVisible'
    BY <2>1, <2>3, <2>4, Zenon DEF ShownInv, SentIsVisible
  <2> QED
    BY <2>1, <2>2, <2>5, Zenon DEF ShownInv
<1> QED
  BY <1>1, <1>2, <1>3 DEF Next

\* At every moment a stream has sent exactly the words outside reasoning channels
\* and before the first call, in their order (serve.py:491-501).
THEOREM VisibleCorrect == Spec => []SentIsVisible
<1>1. Init => ShownInv
  <2> SUFFICES ASSUME Init PROVE ShownInv
    OBVIOUS
  <2>1. gen_ids = <<>> /\ sent = <<>> /\ Len(gen_ids) = 0 /\ Len(sent) = 0 /\ inch = FALSE /\ sent \in Seq(Words)
    BY DEF Init
  <2>2. Shown = {} /\ ~InChannel(Len(gen_ids) + 1)
    BY <2>1 DEF Shown, InChannel
  <2>3. SentIsVisible
    BY <2>1, <2>2, FS_EmptySet, Zenon DEF SentIsVisible
  <2> QED
    BY <2>1, <2>2, <2>3, Zenon DEF ShownInv
<1>2. ShownInv => SentIsVisible
  BY DEF ShownInv
<1> QED
  BY <1>1, <1>2, ShownStep, Split, PTL DEF Spec

=============================================================================
