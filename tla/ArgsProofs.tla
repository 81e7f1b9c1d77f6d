----------------------------- MODULE ArgsProofs -----------------------------
(***************************************************************************)
(* Proofs about Args, for every text, every list of arguments and every    *)
(* key: what the parser's searches find, what it makes of a text the       *)
(* template has written, and what of one that is broken off.               *)
(***************************************************************************)
EXTENDS Args, FiniteSetTheorems, SequenceTheorems, WellFoundedInduction, TLAPS

-----------------------------------------------------------------------------
(* Induction: a relation that is well-founded gives a least element and that *)
(* the step from n to n + 1, without an operator for the property.           *)

LessThan == {nn \in Nat \X Nat : nn[1] < nn[2]}

\* A set of numbers has a least one, which Min returns.
LEMMA LeastOf ==
    ASSUME NEW S \in SUBSET Nat, S # {}
    PROVE  /\ \E x \in S : \A y \in S : x <= y
           /\ Min(S) \in S /\ \A y \in S : Min(S) <= y
<1>1. IsWellFoundedOn(LessThan, Nat)
  BY NatLessThanWellFounded, Zenon DEF OpToRel, LessThan
<1>2. PICK x \in S : \A y \in S : ~(<<y, x>> \in LessThan)
  BY <1>1, WFMin, Zenon
<1>3. ASSUME NEW y \in S PROVE x <= y
  <2>1. x \in Nat /\ y \in Nat /\ (<<y, x>> \in LessThan) = (y < x)
    BY DEF LessThan
  <2> QED
    BY <1>2, <2>1
<1>4. \E z \in S : \A y \in S : z <= y
  BY <1>3
<1> QED
  BY <1>4 DEF Min

\* What holds of 0 and of the next number holds of all.
LEMMA Induction ==
    ASSUME NEW S, 0 \in S, \A k \in Nat : k \in S => k + 1 \in S
    PROVE  Nat \subseteq S
<1> SUFFICES ASSUME Nat \ S # {} PROVE FALSE
  OBVIOUS
<1>1. PICK x \in Nat \ S : \A y \in Nat \ S : x <= y
  <2>1. (Nat \ S) \in SUBSET Nat
    OBVIOUS
  <2> QED
    BY <2>1, LeastOf, Zenon
<1>2. x # 0 /\ x - 1 \in Nat
  BY <1>1
<1> QED
  BY <1>1, <1>2

\* A sequence with one element more.
LEMMA Appended ==
    ASSUME NEW S, NEW q \in Seq(S), NEW x \in S
    PROVE  /\ Append(q, x) \in Seq(S)
           /\ Len(Append(q, x)) = Len(q) + 1 /\ Len(q) \in Nat
           /\ \A j \in 1 .. Len(q) : Append(q, x)[j] = q[j]
           /\ Append(q, x)[Len(q) + 1] = x
OBVIOUS

\* Sequences that agree everywhere are the same.
LEMMA SameText ==
    ASSUME NEW T, NEW a \in Seq(T), NEW b \in Seq(T), Len(a) = Len(b), \A k \in 1 .. Len(a) : a[k] = b[k]
    PROVE  a = b
OBVIOUS

\* A set of numbers with a bound has a greatest one, which Max returns.
LEMMA GreatestOf ==
    ASSUME NEW n \in Nat, NEW S \in SUBSET (0 .. n), S # {}
    PROVE  Max(S) \in S /\ \A y \in S : Max(S) >= y
<1> DEFINE R == {k \in Nat : n - k \in S}
<1>1. \A y \in S : y \in 0 .. n /\ n - y \in Nat /\ n - (n - y) = y
  OBVIOUS
<1>2. R \in SUBSET Nat /\ R # {}
  <2>1. PICK y \in S : TRUE
    OBVIOUS
  <2>2. n - y \in R
    BY <1>1
  <2> QED
    BY <2>2
<1>3. PICK k \in R : \A y \in R : k <= y
  BY <1>2, LeastOf, Zenon
<1>4. n - k \in S /\ k \in Nat
  BY <1>3
<1>5. ASSUME NEW y \in S PROVE n - k >= y
  <2>1. y \in 0 .. n /\ n - y \in R
    BY <1>1
  <2>2. k <= n - y
    BY <1>3, <2>1
  <2> QED
    BY <1>4, <2>1, <2>2
<1>6. \E x \in S : \A y \in S : x >= y
  BY <1>4, <1>5
<1> QED
  BY <1>6 DEF Max

-----------------------------------------------------------------------------
(* What the searches find *)

Text == Seq(Symbols)

\* What a text may hold.
LEMMA SymbolsAre ==
    /\ {Q, Backtick, Space, "colon", "comma", "lbrack", "rbrack", "lbrace", "rbrace", "x", "1"} \subseteq Symbols
    /\ {"single", "double", "slash", "backslash", HostSep, ForeignSep} \subseteq Symbols
<1>1. HostSep \in {"slash", "backslash"} /\ ForeignSep \in {"slash", "backslash"}
  BY KeysAssumption
<1> QED
  BY <1>1, KeysAssumption DEF Punctuation, Brackets, Quotes

\* str.find
LEMMA FindIs ==
    ASSUME s \in Text, NEW x, NEW from \in Nat \ {0}
    PROVE  \/ Find(x, from) = 0 /\ \A p \in from .. Len(s) : s[p] # x
           \/ /\ Find(x, from) \in from .. Len(s) /\ s[Find(x, from)] = x
              /\ \A p \in from .. Find(x, from) - 1 : s[p] # x
<1> DEFINE at == {p \in from .. Len(s) : s[p] = x}
<1>1. Len(s) \in Nat
  BY DEF Text
<1>2. Find(x, from) = IF at = {} THEN 0 ELSE Min(at)
  BY Zenon DEF Find
<1>3. CASE at = {}
  BY <1>2, <1>3
<1>4. CASE at # {}
  <2>1. at \in SUBSET Nat
    BY <1>1
  <2>2. Min(at) \in at /\ \A y \in at : Min(at) <= y
    BY <1>4, <2>1, LeastOf, Zenon
  <2> DEFINE k == Min(at)
  <2>3. Find(x, from) = k
    BY <1>2, <1>4
  <2>4. k \in from .. Len(s) /\ s[k] = x
    BY <2>2
  <2>5. ASSUME NEW p \in from .. k - 1 PROVE s[p] # x
    <3>1. p \in from .. Len(s) /\ ~(k <= p)
      BY <1>1, <2>4
    <3> QED
      BY <2>2, <3>1
  <2> HIDE DEF k
  <2> QED
    BY <2>3, <2>4, <2>5
<1> QED
  BY <1>3, <1>4

\* The first place from there that is not in S, or behind the text.
LEMMA SkipInIs ==
    ASSUME s \in Text, NEW S, NEW from \in Nat \ {0}
    PROVE  /\ SkipIn(S, from) \in Nat /\ SkipIn(S, from) >= from
           /\ \A p \in from .. Len(s) : p < SkipIn(S, from) => s[p] \in S
           /\ SkipIn(S, from) <= Len(s) => s[SkipIn(S, from)] \notin S
           /\ from <= Len(s) + 1 => SkipIn(S, from) <= Len(s) + 1
<1> DEFINE m == Max({from, Len(s) + 1})
           ends == {p \in from .. Len(s) : s[p] \notin S} \cup {m}
           k == Min(ends)
<1>1. Len(s) \in Nat
  BY DEF Text
<1>2. m \in {from, Len(s) + 1} /\ m >= from /\ m >= Len(s) + 1
  <2>1. from \in Nat /\ Len(s) + 1 \in Nat
    BY <1>1
  <2>2. \E n \in Nat : {from, Len(s) + 1} \in SUBSET (0 .. n)
    <3>1. {from, Len(s) + 1} \in SUBSET (0 .. from + Len(s) + 1) /\ from + Len(s) + 1 \in Nat
      BY <1>1
    <3> QED
      BY <3>1
  <2> QED
    BY <2>2, GreatestOf
<1> HIDE DEF m
<1>3. ends \in SUBSET Nat /\ m \in ends
  BY <1>1, <1>2
<1>4. k \in ends /\ \A y \in ends : k <= y
  BY <1>3, LeastOf
<1>5. SkipIn(S, from) = k
  BY Zenon DEF SkipIn, m
<1>6. k \in Nat /\ k >= from /\ k <= m
  BY <1>1, <1>2, <1>3, <1>4
<1>7. ASSUME NEW p \in from .. Len(s), p < k PROVE s[p] \in S
  BY <1>1, <1>4, <1>6, <1>7
<1>8. k <= Len(s) => s[k] \notin S
  BY <1>1, <1>2, <1>4, <1>6
<1>9. from <= Len(s) + 1 => k <= Len(s) + 1
  BY <1>1, <1>2, <1>6
<1> HIDE DEF k
<1> QED
  BY <1>5, <1>6, <1>7, <1>8, <1>9

\* str.strip leaves a text that needs no stripping.
LEMMA StripOfIs ==
    ASSUME NEW T, NEW text \in Seq(T), NEW S
    PROVE  /\ StripOf(S, text) \in Seq(T)
           /\ text # <<>> /\ text[1] \notin S /\ text[Len(text)] \notin S => StripOf(S, text) = text
<1> DEFINE kept == {p \in 1 .. Len(text) : text[p] \notin S}
           a == Min(kept)
           b == Max(kept)
<1>1. Len(text) \in Nat /\ kept \in SUBSET Nat /\ kept \in SUBSET (0 .. Len(text))
  OBVIOUS
<1>2. StripOf(S, text) = IF kept = {} THEN <<>> ELSE SubSeq(text, a, b)
  BY Zenon DEF StripOf
<1>3. CASE kept = {}
  <2>1. <<>> \in Seq(T)
    OBVIOUS
  <2>2. ~(text # <<>> /\ text[1] \notin S)
    BY <1>1, <1>3
  <2> QED
    BY <1>2, <1>3, <2>1, <2>2, Zenon
<1>4. CASE kept # {}
  <2>1. a \in kept /\ \A y \in kept : a <= y
    BY <1>1, <1>4, LeastOf, Zenon
  <2>2. b \in kept /\ \A y \in kept : b >= y
    BY <1>1, <1>4, GreatestOf, Zenon
  <2>3. a \in 1 .. Len(text) /\ b \in 1 .. Len(text)
    BY <2>1, <2>2
  <2>4. \A j \in a .. b : text[j] \in T
    BY <1>1, <2>3
  <2>5. ASSUME text # <<>>, text[1] \notin S, text[Len(text)] \notin S PROVE a = 1 /\ b = Len(text)
    <3>1. 1 \in kept /\ Len(text) \in kept
      BY <1>1, <2>5
    <3>2. a <= 1 /\ b >= Len(text)
      BY <2>1, <2>2, <3>1
    <3> HIDE DEF a, b
    <3> QED
      BY <1>1, <2>3, <3>2
  <2> HIDE DEF a, b
  <2>6. SubSeq(text, a, b) \in Seq(T)
    BY <2>3, <2>4, SubSeqProperties
  <2>7. SubSeq(text, 1, Len(text)) = text
    OBVIOUS
  <2> QED
    BY <1>2, <1>4, <2>5, <2>6, <2>7
<1> QED
  BY <1>3, <1>4

\* str.rstrip: what is kept ends at the last symbol not in S.
LEMMA RStripOfIs ==
    ASSUME NEW T, NEW text \in Seq(T), NEW S
    PROVE  /\ RStripOf(S, text) \in Seq(T)
           /\ \A k \in 1 .. Len(text) :
                text[k] \notin S /\ (\A p \in k + 1 .. Len(text) : text[p] \in S)
                  => RStripOf(S, text) = SubSeq(text, 1, k)
<1> DEFINE kept == {p \in 1 .. Len(text) : text[p] \notin S} \cup {0}
           b == Max(kept)
<1>1. Len(text) \in Nat /\ kept \in SUBSET (0 .. Len(text)) /\ kept # {}
  OBVIOUS
<1>2. RStripOf(S, text) = SubSeq(text, 1, b)
  BY Zenon DEF RStripOf
<1>3. b \in kept /\ \A y \in kept : b >= y
  BY <1>1, GreatestOf, Zenon
<1>4. b \in 0 .. Len(text) /\ \A j \in 1 .. b : text[j] \in T
  <2>1. b \in 0 .. Len(text)
    BY <1>1, <1>3, Zenon
  <2> HIDE DEF b
  <2> QED
    BY <1>1, <2>1
<1>5. ASSUME NEW k \in 1 .. Len(text), text[k] \notin S, \A p \in k + 1 .. Len(text) : text[p] \in S
      PROVE  b = k
  <2>1. k \in kept
    BY <1>5
  <2>2. b >= k
    BY <1>3, <2>1
  <2>3. b # 0 /\ b \in 1 .. Len(text) /\ text[b] \notin S
    BY <1>3, <1>4, <2>2
  <2> HIDE DEF b
  <2>4. ~(b \in k + 1 .. Len(text))
    BY <1>5, <2>3
  <2> QED
    BY <1>1, <2>2, <2>3, <2>4
<1> HIDE DEF b
<1>6. SubSeq(text, 1, b) \in Seq(T)
  BY <1>4, SubSeqProperties
<1> QED
  BY <1>2, <1>5, <1>6
-----------------------------------------------------------------------------
(* What the template writes *)

\* f is what Joined has after each of the items.
Joins(f, items, m) ==
    f = [k \in 0 .. m |->
            IF k = 0 THEN <<>> ELSE f[k - 1] \o (IF k = 1 THEN <<>> ELSE <<"comma">>) \o items[k]]

\* One item more.
More1(before, items, k) == before \o (IF k = 1 THEN <<>> ELSE <<"comma">>) \o items[k]

LEMMA JoinsExist ==
    ASSUME NEW items, NEW m \in Nat
    PROVE  \E f : Joins(f, items, m)
<1> DEFINE S == {k \in Nat : \E f : Joins(f, items, k)}
<1>1. 0 \in S
  <2> DEFINE f == [k \in 0 .. 0 |-> <<>>]
  <2>1. Joins(f, items, 0)
    BY DEF Joins
  <2> QED
    BY <2>1
<1>2. ASSUME NEW k \in Nat, k \in S PROVE k + 1 \in S
  <2>1. PICK f : Joins(f, items, k)
    BY <1>2
  <2> DEFINE v == More1(f[k], items, k + 1)
             g == [j \in 0 .. k + 1 |-> IF j = k + 1 THEN v ELSE f[j]]
  <2>2. ASSUME NEW j \in 0 .. k + 1
        PROVE  g[j] = IF j = 0 THEN <<>> ELSE More1(g[j - 1], items, j)
    <3>1. CASE j = k + 1
      <4>1. g[j] = v /\ j # 0 /\ j - 1 = k /\ j - 1 \in 0 .. k + 1 /\ j - 1 # k + 1
        BY <3>1
      <4>2. g[j - 1] = f[k]
        BY <4>1
      <4> QED
        BY <3>1, <4>1, <4>2
    <3>2. CASE j # k + 1
      <4>1. j \in 0 .. k /\ g[j] = f[j] /\ (j # 0 => j - 1 \in 0 .. k + 1 /\ j - 1 # k + 1)
        BY <3>2
      <4>2. f[j] = IF j = 0 THEN <<>> ELSE More1(f[j - 1], items, j)
        BY <2>1, <4>1 DEF Joins, More1
      <4>3. j # 0 => g[j - 1] = f[j - 1]
        BY <4>1
      <4> QED
        BY <4>1, <4>2, <4>3
    <3> QED
      BY <3>1, <3>2
  <2>3. Joins(g, items, k + 1)
    <3>1. g = [j \in 0 .. k + 1 |-> g[j]]
      OBVIOUS
    <3> HIDE DEF g
    <3> QED
      BY <2>2, <3>1 DEF Joins, More1
  <2> QED
    BY <2>3
<1> HIDE DEF S
<1>3. Nat \subseteq S
  BY <1>1, <1>2, Induction
<1> QED
  BY <1>3 DEF S

LEMMA JoinsUnique ==
    ASSUME NEW items, NEW m \in Nat, NEW f, Joins(f, items, m), NEW g, Joins(g, items, m)
    PROVE  g = f
<1> DEFINE S == {k \in Nat : k <= m => f[k] = g[k]}
<1>1. 0 \in S
  BY DEF Joins
<1>2. ASSUME NEW k \in Nat, k \in S PROVE k + 1 \in S
  <2> SUFFICES ASSUME k + 1 <= m PROVE f[k + 1] = g[k + 1]
    OBVIOUS
  <2>1. f[k] = g[k]
    BY <1>2
  <2>2. f[k + 1] = More1(f[k], items, k + 1) /\ g[k + 1] = More1(g[k], items, k + 1)
    <3>1. k + 1 \in 0 .. m /\ k + 1 # 0 /\ (k + 1) - 1 = k
      OBVIOUS
    <3> QED
      BY <3>1 DEF Joins, More1
  <2> QED
    BY <2>1, <2>2
<1> HIDE DEF S
<1>3. Nat \subseteq S
  BY <1>1, <1>2, Induction
<1>4. \A k \in 0 .. m : f[k] = g[k]
  BY <1>3 DEF S
<1>5. f = [k \in 0 .. m |-> f[k]] /\ g = [k \in 0 .. m |-> g[k]]
  BY Zenon DEF Joins
<1> QED
  BY <1>4, <1>5

\* Joined is the last of them.
LEMMA JoinedIs ==
    ASSUME NEW items, Len(items) \in Nat, NEW f, Joins(f, items, Len(items))
    PROVE  Joined(items) = f[Len(items)]
<1>1. f = [k \in 0 .. Len(items) |->
            IF k = 0 THEN <<>> ELSE f[k - 1] \o (IF k = 1 THEN <<>> ELSE <<"comma">>) \o items[k]]
  BY DEF Joins
<1>2. ASSUME NEW g,
             g = [k \in 0 .. Len(items) |->
                   IF k = 0 THEN <<>> ELSE g[k - 1] \o (IF k = 1 THEN <<>> ELSE <<"comma">>) \o items[k]]
      PROVE  g = f
  <2>1. Joins(g, items, Len(items))
    BY <1>2 DEF Joins
  <2> QED
    BY <2>1, JoinsUnique
<1> QED
  BY <1>1, <1>2 DEF Joined

\* Where the pieces are: the k-th begins behind what there was, with a comma
\* unless it is the first, and nothing that comes later changes it.
Begins(f, k) == Len(f[k - 1]) + (IF k = 1 THEN 0 ELSE 1)

LEMMA JoinsHas ==
    ASSUME NEW T, "comma" \in T, NEW n \in Nat, NEW items, \A k \in 1 .. n : items[k] \in Seq(T),
           NEW f, Joins(f, items, n)
    PROVE  /\ f[0] = <<>> /\ \A k \in 0 .. n : f[k] \in Seq(T)
           /\ \A k \in 1 .. n :
                /\ Len(f[k]) = Begins(f, k) + Len(items[k])
                /\ k > 1 => f[k][Len(f[k - 1]) + 1] = "comma"
                /\ \A j \in 1 .. Len(items[k]) : f[k][Begins(f, k) + j] = items[k][j]
                /\ \A j \in 1 .. Len(f[k - 1]) : f[k][j] = f[k - 1][j]
<1>1. f[0] = <<>>
  BY DEF Joins
<1>2. ASSUME NEW k \in 1 .. n PROVE k - 1 \in 0 .. n /\ f[k] = More1(f[k - 1], items, k)
  <2>1. k - 1 \in 0 .. n /\ k \in 0 .. n /\ k # 0
    OBVIOUS
  <2>2. f[k] = More1(f[k - 1], items, k)
    BY <2>1, Zenon DEF Joins, More1
  <2> QED
    BY <2>1, <2>2
<1> DEFINE S == {k \in Nat : k <= n => f[k] \in Seq(T)}
<1>3. 0 \in S
  <2>1. f[0] \in Seq(T)
    BY <1>1, EmptySeq, Zenon
  <2> QED
    BY <2>1
<1>4. ASSUME NEW k \in Nat, k \in S PROVE k + 1 \in S
  <2> SUFFICES ASSUME k + 1 <= n PROVE f[k + 1] \in Seq(T)
    OBVIOUS
  <2>1. k + 1 \in 1 .. n /\ (k + 1) - 1 = k /\ f[k] \in Seq(T)
    BY <1>4
  <2>2. f[k + 1] = More1(f[k], items, k + 1) /\ items[k + 1] \in Seq(T)
    BY <1>2, <2>1
  <2> QED
    BY <2>1, <2>2 DEF More1
<1> HIDE DEF S
<1>5. Nat \subseteq S
  BY <1>3, <1>4, Induction
<1>6. \A k \in 0 .. n : f[k] \in Seq(T)
  BY <1>5 DEF S
<1>7. ASSUME NEW k \in 1 .. n
      PROVE  /\ Len(f[k]) = Begins(f, k) + Len(items[k])
             /\ k > 1 => f[k][Len(f[k - 1]) + 1] = "comma"
             /\ \A j \in 1 .. Len(items[k]) : f[k][Begins(f, k) + j] = items[k][j]
             /\ \A j \in 1 .. Len(f[k - 1]) : f[k][j] = f[k - 1][j]
  <2> DEFINE a == f[k - 1]
             b == items[k]
             c == f[k]
  <2>1. a \in Seq(T) /\ b \in Seq(T) /\ c = More1(a, items, k)
    BY <1>2, <1>6
  <2> HIDE DEF a, c
  <2>2. CASE k = 1
    <3>1. c = a \o <<>> \o b /\ a \o <<>> = a
      BY <2>1, <2>2 DEF More1
    <3>2. c = a \o b
      BY <3>1
    <3> HIDE DEF b
    <3>3. /\ Len(c) = Len(a) + Len(b)
          /\ \A j \in 1 .. Len(a) + Len(b) : c[j] = IF j <= Len(a) THEN a[j] ELSE b[j - Len(a)]
      BY <2>1, <3>2, ConcatProperties, Zenon
    <3>4. Len(a) \in Nat /\ Len(b) \in Nat
      BY <2>1
    <3>5. \A j \in 1 .. Len(b) : c[Len(a) + j] = b[j]
      BY <3>3, <3>4
    <3>6. \A j \in 1 .. Len(a) : c[j] = a[j]
      BY <3>3, <3>4
    <3> QED
      BY <2>2, <3>3, <3>4, <3>5, <3>6 DEF Begins, a, b, c
  <2>3. CASE k # 1
    <3> DEFINE d == a \o <<"comma">>
    <3>1. c = d \o b /\ <<"comma">> \in Seq(T) /\ Len(<<"comma">>) = 1 /\ <<"comma">>[1] = "comma"
      <4>1. More1(a, items, k) = d \o b
        BY <2>3, Zenon DEF More1
      <4>2. <<"comma">> \in Seq(T) /\ Len(<<"comma">>) = 1 /\ <<"comma">>[1] = "comma"
        OBVIOUS
      <4> QED
        BY <2>1, <4>1, <4>2, Zenon
    <3>2. /\ d \in Seq(T) /\ Len(d) = Len(a) + 1
          /\ \A j \in 1 .. Len(a) + 1 : d[j] = IF j <= Len(a) THEN a[j] ELSE <<"comma">>[j - Len(a)]
      <4>1. /\ d \in Seq(T) /\ Len(d) = Len(a) + Len(<<"comma">>)
            /\ \A j \in 1 .. Len(a) + Len(<<"comma">>) : d[j] = IF j <= Len(a) THEN a[j] ELSE <<"comma">>[j - Len(a)]
        BY <2>1, <3>1, ConcatProperties, Zenon
      <4> HIDE DEF d
      <4> QED
        BY <3>1, <4>1
    <3> HIDE DEF b, d
    <3>3. /\ Len(c) = Len(d) + Len(b)
          /\ \A j \in 1 .. Len(d) + Len(b) : c[j] = IF j <= Len(d) THEN d[j] ELSE b[j - Len(d)]
      <4>1. b \in Seq(T) /\ d \in Seq(T)
        BY <2>1, <3>2
      <4>2. /\ Len(d \o b) = Len(d) + Len(b)
            /\ \A j \in 1 .. Len(d) + Len(b) : (d \o b)[j] = IF j <= Len(d) THEN d[j] ELSE b[j - Len(d)]
        BY <4>1, ConcatProperties, Zenon
      <4> QED
        BY <3>1, <4>2, Zenon
    <3>4. Len(a) \in Nat /\ Len(b) \in Nat
      BY <2>1 DEF b
    <3>5. \A j \in 1 .. Len(b) : c[Len(a) + 1 + j] = b[j]
      BY <3>2, <3>3, <3>4
    <3>6. \A j \in 1 .. Len(a) : c[j] = a[j]
      BY <3>2, <3>3, <3>4
    <3>7. c[Len(a) + 1] = "comma"
      BY <3>1, <3>2, <3>3, <3>4
    <3> QED
      BY <2>3, <3>2, <3>3, <3>4, <3>5, <3>6, <3>7 DEF Begins, a, b, c
  <2> QED
    BY <2>2, <2>3
<1> QED
  BY <1>1, <1>6, <1>7, Zenon

\* What is written stays where it is.
LEMMA JoinsKeep ==
    ASSUME NEW T, "comma" \in T, NEW n \in Nat, NEW items, \A k \in 1 .. n : items[k] \in Seq(T),
           NEW f, Joins(f, items, n), NEW k \in 0 .. n
    PROVE  Len(f[k]) <= Len(f[n]) /\ \A j \in 1 .. Len(f[k]) : f[n][j] = f[k][j]
<1> DEFINE S == {d \in Nat : d + k <= n =>
                    Len(f[k]) <= Len(f[d + k]) /\ \A j \in 1 .. Len(f[k]) : f[d + k][j] = f[k][j]}
<1>1. \A l \in 0 .. n : f[l] \in Seq(T) /\ Len(f[l]) \in Nat
  <2>1. \A l \in 0 .. n : f[l] \in Seq(T)
    BY JoinsHas, Zenon
  <2> QED
    BY <2>1
<1>2. 0 \in S
  BY <1>1
<1>3. ASSUME NEW d \in Nat, d \in S PROVE d + 1 \in S
  <2> SUFFICES ASSUME d + 1 + k <= n
               PROVE  Len(f[k]) <= Len(f[d + 1 + k]) /\ \A j \in 1 .. Len(f[k]) : f[d + 1 + k][j] = f[k][j]
    OBVIOUS
  <2> DEFINE l == d + 1 + k
  <2>1. l \in 1 .. n /\ l - 1 = d + k /\ d + k \in 0 .. n
    OBVIOUS
  <2>2. Len(f[k]) <= Len(f[l - 1]) /\ \A j \in 1 .. Len(f[k]) : f[l - 1][j] = f[k][j]
    BY <1>3, <2>1
  <2> HIDE DEF l
  <2>3. Len(f[l]) = Begins(f, l) + Len(items[l]) /\ \A j \in 1 .. Len(f[l - 1]) : f[l][j] = f[l - 1][j]
    BY <2>1, JoinsHas
  <2>4. Len(items[l]) \in Nat /\ Len(f[l - 1]) \in Nat /\ Len(f[k]) \in Nat
    BY <1>1, <2>1
  <2> QED
    <3> DEFINE x == Len(f[l - 1])
               y == Len(f[k])
               z == Len(f[l])
               w == Len(items[l])
               b == Begins(f, l)
    <3>1. b \in Nat /\ b >= x
      <4>1. b = x + (IF l = 1 THEN 0 ELSE 1) /\ x \in Nat
        BY <2>4, Zenon DEF Begins
      <4> HIDE DEF x, b
      <4> QED
        BY <4>1
    <3>2. y <= z
      <4>1. z = b + w /\ w \in Nat /\ x \in Nat /\ y \in Nat /\ y <= x
        BY <2>2, <2>3, <2>4
      <4> HIDE DEF x, y, z, w, b
      <4> QED
        BY <3>1, <4>1
    <3>3. ASSUME NEW j \in 1 .. Len(f[k]) PROVE f[l][j] = f[k][j]
      <4>1. j \in 1 .. Len(f[l - 1])
        BY <2>2, <2>4
      <4> QED
        BY <2>2, <2>3, <4>1
    <3> QED
      BY <3>2, <3>3 DEF l
<1> HIDE DEF S
<1>4. n - k \in S /\ (n - k) + k = n
  BY <1>2, <1>3, Induction
<1>5. (n - k) + k <= n
  BY <1>4
<1> QED
  BY <1>4, <1>5, Zenon DEF S
-----------------------------------------------------------------------------
(* Texts, values and dicts *)

\* A piece of a text.
LEMMA PieceIs ==
    ASSUME NEW T, NEW text \in Seq(T), NEW a \in Nat \ {0}, NEW b \in Int, b <= Len(text)
    PROVE  /\ SubSeq(text, a, b) \in Seq(T)
           /\ Len(SubSeq(text, a, b)) = IF a <= b THEN b - a + 1 ELSE 0
           /\ \A j \in 1 .. b - a + 1 : SubSeq(text, a, b)[j] = text[a + j - 1]
<1>1. \A j \in a .. b : text[j] \in T
  OBVIOUS
<1> QED
  BY <1>1, SubSeqProperties

IsDict(d) ==
    /\ d = [key \in DOMAIN d |-> d[key]]
    /\ DOMAIN d \in SUBSET Text /\ IsFiniteSet(DOMAIN d)
    /\ \A key \in DOMAIN d : d[key] \in Values

\* A value is put into a dict.
LEMMA PutIs ==
    ASSUME NEW d, IsDict(d), NEW key \in Text, NEW value \in Values
    PROVE  IsDict(Put(d, key, value))
<1> DEFINE e == Put(d, key, value)
<1>1. e = [k \in DOMAIN d \cup {key} |-> IF k = key THEN value ELSE d[k]]
  BY Zenon DEF Put
<1> HIDE DEF e
<1>2. DOMAIN e = DOMAIN d \cup {key} /\ e = [k \in DOMAIN e |-> e[k]]
  BY <1>1
<1>3. \A k \in DOMAIN e : e[k] \in Values
  BY <1>1 DEF IsDict
<1>4. IsFiniteSet(DOMAIN e)
  BY <1>2, FS_AddElement DEF IsDict
<1>5. DOMAIN e \in SUBSET Text
  BY <1>2 DEF IsDict
<1> QED
  BY <1>2, <1>3, <1>4, <1>5 DEF IsDict, e

\* Nothing has been read.
LEMMA NothingRead == IsDict(<<>>)
<1>1. DOMAIN <<>> = {} /\ <<>> = [key \in {} |-> <<>>[key]]
  OBVIOUS
<1>2. IsFiniteSet({})
  BY FS_EmptySet
<1> QED
  BY <1>1, <1>2 DEF IsDict

\* The four kinds of values.
LEMMA ValuesAre ==
    /\ \A text \in Text : Str(text) \in Values
    /\ \A text \in Text : IsNum(text) => Num(text) \in Values
    /\ \A texts \in Seq(Text) : List(texts) \in Values
    /\ EmptyDict \in Values
<1>1. \A text \in Text : Str(text) \in Values
  BY DEF Values, Str, Text
<1>2. \A text \in Text : IsNum(text) => Num(text) \in Values
  BY DEF Values, Num, IsNum
<1>3. \A texts \in Seq(Text) : List(texts) \in Values
  BY DEF Values, List, Text
<1>4. EmptyDict \in Values
  <2>1. <<>> \in Seq([key : Keys, text : Seq(Symbols)])
    BY EmptySeq, Zenon
  <2> QED
    BY <2>1 DEF Values, EmptyDict, Object
<1> QED
  BY <1>1, <1>2, <1>3, <1>4, Zenon

LEMMA KindOfValue ==
    ASSUME NEW v \in Values
    PROVE  \/ v.kind = "str" /\ v.is \in Text /\ v = Str(v.is)
           \/ v.kind = "num" /\ v.is \in Seq({"1"}) /\ v.is # <<>> /\ v = Num(v.is)
           \/ v.kind = "list" /\ v.is \in Seq(Text) /\ v = List(v.is)
           \/ v.kind = "dict" /\ v.is \in Seq([key : Keys, text : Text]) /\ v = Object(v.is)
<1>1. CASE v \in [kind : {"str"}, is : Seq(Symbols)]
  BY <1>1 DEF Str, Text
<1>2. CASE v \in [kind : {"num"}, is : Seq({"1"}) \ {<<>>}]
  BY <1>2 DEF Num
<1>3. CASE v \in [kind : {"list"}, is : Seq(Seq(Symbols))]
  BY <1>3 DEF List, Text
<1>4. CASE v \in [kind : {"dict"}, is : Seq([key : Keys, text : Seq(Symbols)])]
  BY <1>4 DEF Object, Text
<1> QED
  BY <1>1, <1>2, <1>3, <1>4, Zenon DEF Values

\* How each is written.
Items(texts) == [k \in 1 .. Len(texts) |-> Quote(texts[k])]
Field(field) == field.key \o <<"colon">> \o Quote(field.text)
Fields(fields) == [k \in 1 .. Len(fields) |-> Field(fields[k])]

LEMMA WriteIs ==
    /\ \A text : Write(Str(text)) = <<Q>> \o text \o <<Q>>
    /\ \A text : Write(Num(text)) = text
    /\ \A texts : Write(List(texts)) = <<"lbrack">> \o Joined(Items(texts)) \o <<"rbrack">>
    /\ \A fields : Write(Object(fields)) = <<"lbrace">> \o Joined(Fields(fields)) \o <<"rbrace">>
<1>1. \A text : Write(Str(text)) = <<Q>> \o text \o <<Q>>
  BY DEF Write, Str, Quote
<1>2. \A text : Write(Num(text)) = text
  BY DEF Write, Num
<1>3. \A texts : Write(List(texts)) = <<"lbrack">> \o Joined(Items(texts)) \o <<"rbrack">>
  BY DEF Write, List, Items
<1>4. \A fields : Write(Object(fields)) = <<"lbrace">> \o Joined(Fields(fields)) \o <<"rbrace">>
  BY DEF Write, Object, Fields, Field
<1> QED
  BY <1>1, <1>2, <1>3, <1>4, Zenon

LEMMA EmptyWritten == Write(EmptyDict) = <<"lbrace", "rbrace">>
<1> DEFINE none == Fields(<<>>)
<1>1. Len(none) = 0 /\ Len(none) \in Nat
  BY DEF Fields
<1> HIDE DEF none
<1>2. PICK f : Joins(f, none, Len(none))
  BY <1>1, JoinsExist, Zenon
<1>3. f[0] = <<>>
  BY <1>1, <1>2 DEF Joins
<1>4. Joined(none) = <<>>
  BY <1>1, <1>2, <1>3, JoinedIs, Zenon
<1>5. <<"lbrace">> \o <<>> \o <<"rbrace">> = <<"lbrace", "rbrace">>
  <2> DEFINE a == <<"lbrace">>
             z == <<"rbrace">>
             q == <<"lbrace", "rbrace">>
  <2>1. a \in Seq(Symbols) /\ z \in Seq(Symbols) /\ q \in Seq(Symbols)
    BY SymbolsAre
  <2>2. Len(a) = 1 /\ a[1] = "lbrace" /\ Len(z) = 1 /\ z[1] = "rbrace" /\ Len(q) = 2 /\ q[1] = "lbrace" /\ q[2] = "rbrace"
    OBVIOUS
  <2> HIDE DEF a, z, q
  <2>3. a \o <<>> = a
    BY <2>1, ConcatEmptySeq, Zenon
  <2>4. /\ a \o z \in Seq(Symbols) /\ Len(a \o z) = Len(a) + Len(z)
        /\ \A j \in 1 .. Len(a) + Len(z) : (a \o z)[j] = IF j <= Len(a) THEN a[j] ELSE z[j - Len(a)]
    BY <2>1, ConcatProperties, Zenon
  <2>5. Len(a \o z) = Len(q) /\ \A j \in 1 .. Len(a \o z) : (a \o z)[j] = q[j]
    BY <2>2, <2>4
  <2>6. a \o z = q
    BY <2>1, <2>4, <2>5, SameText, Zenon
  <2> QED
    BY <2>3, <2>6, Zenon DEF a, z, q
<1> QED
  BY <1>4, <1>5, WriteIs, Zenon DEF EmptyDict, none

\* What is joined of texts is a text.
LEMMA JoinedText ==
    ASSUME NEW items, Len(items) \in Nat, \A k \in 1 .. Len(items) : items[k] \in Text
    PROVE  Joined(items) \in Text
<1>1. PICK f : Joins(f, items, Len(items))
  BY JoinsExist, Zenon
<1>2. "comma" \in Symbols /\ \A k \in 1 .. Len(items) : items[k] \in Seq(Symbols)
  BY SymbolsAre DEF Text
<1>3. \A k \in 0 .. Len(items) : f[k] \in Seq(Symbols)
  BY <1>1, <1>2, JoinsHas, Zenon
<1>4. Len(items) \in 0 .. Len(items)
  OBVIOUS
<1> QED
  BY <1>1, <1>3, <1>4, JoinedIs, Zenon DEF Text

LEMMA WriteText ==
    ASSUME NEW v \in Values
    PROVE  Write(v) \in Text
<1>1. \A x \in Symbols : <<x>> \in Text
  BY DEF Text
<1>2. Q \in Symbols /\ "lbrack" \in Symbols /\ "rbrack" \in Symbols /\ "lbrace" \in Symbols /\ "rbrace" \in Symbols
      /\ "x" \in Symbols /\ "1" \in Symbols
  BY SymbolsAre
<1>3. \A a, b \in Text : a \o b \in Text
  BY DEF Text
<1>4. CASE v.is \in Text /\ v = Str(v.is)
  <2>1. Write(v) = <<Q>> \o v.is \o <<Q>>
    BY <1>4, WriteIs, Zenon
  <2>2. <<Q>> \in Text
    BY <1>1, <1>2, Zenon
  <2>3. <<Q>> \o v.is \in Text
    BY <1>3, <1>4, <2>2, Zenon
  <2>4. (<<Q>> \o v.is) \o <<Q>> \in Text
    BY <1>3, <2>2, <2>3, Zenon
  <2> QED
    BY <2>1, <2>4
<1>5. CASE v.is \in Seq({"1"}) /\ v = Num(v.is)
  <2>1. v.is \in Text
    BY <1>2, <1>5 DEF Text
  <2> QED
    BY <1>5, <2>1, WriteIs, Zenon
<1>6. ASSUME NEW items, Len(items) \in Nat, \A k \in 1 .. Len(items) : items[k] \in Text,
             NEW x \in Symbols, NEW y \in Symbols
      PROVE  <<x>> \o Joined(items) \o <<y>> \in Text
  <2>1. Joined(items) \in Text
    BY <1>6, JoinedText, Zenon
  <2>2. <<x>> \in Text /\ <<y>> \in Text
    BY <1>1, Zenon
  <2>3. <<x>> \o Joined(items) \in Text
    BY <1>3, <2>1, <2>2, Zenon
  <2> QED
    BY <1>3, <2>2, <2>3, Zenon
<1>7. \A text \in Text : Quote(text) \in Text
  BY <1>1, <1>2, <1>3, Zenon DEF Quote
<1>8. CASE v.is \in Seq(Text) /\ v = List(v.is)
  <2> DEFINE items == Items(v.is)
  <2>1. Len(v.is) \in Nat /\ \A k \in 1 .. Len(v.is) : v.is[k] \in Text
    BY <1>8
  <2>2. Len(items) = Len(v.is) /\ \A k \in 1 .. Len(v.is) : items[k] = Quote(v.is[k])
    BY <2>1 DEF Items
  <2>3. \A k \in 1 .. Len(items) : items[k] \in Text
    BY <1>7, <2>1, <2>2
  <2> HIDE DEF items
  <2>4. <<"lbrack">> \o Joined(items) \o <<"rbrack">> \in Text
    BY <1>2, <1>6, <2>1, <2>2, <2>3, Zenon
  <2> QED
    BY <1>8, <2>4, WriteIs, Zenon DEF items
<1>9. CASE v.is \in Seq([key : Keys, text : Text]) /\ v = Object(v.is)
  <2> DEFINE items == Fields(v.is)
             R == [key : Keys, text : Text]
  <2>1. Len(v.is) \in Nat /\ \A k \in 1 .. Len(v.is) : v.is[k] \in R
    <3> HIDE DEF R
    <3>1. v.is \in Seq(R)
      BY <1>9 DEF R
    <3> QED
      BY <3>1
  <2>2. Len(items) = Len(v.is) /\ \A k \in 1 .. Len(v.is) : items[k] = Field(v.is[k])
    <3> HIDE DEF R
    <3> QED
      BY <2>1 DEF Fields
  <2> HIDE DEF items
  <2>3. ASSUME NEW k \in 1 .. Len(items) PROVE items[k] \in Text
    <3> DEFINE field == v.is[k]
    <3>1. field \in R /\ items[k] = Field(field)
      BY <2>1, <2>2
    <3> HIDE DEF field
    <3>2. field.key \in Text /\ field.text \in Text
      BY <3>1, KeysAssumption DEF Text
    <3>3. <<"colon">> \in Text
      BY SymbolsAre DEF Text
    <3>4. Field(field) \in Text
      BY <1>3, <1>7, <3>2, <3>3, Zenon DEF Field
    <3> QED
      BY <3>1, <3>4, Zenon
  <2>4. <<"lbrace">> \o Joined(items) \o <<"rbrace">> \in Text
    BY <1>2, <1>6, <2>1, <2>2, <2>3, Zenon
  <2> QED
    BY <1>9, <2>4, WriteIs, Zenon DEF items
<1> QED
  BY <1>4, <1>5, <1>8, <1>9, KindOfValue, Zenon

\* The pieces of the arguments.
Pair(pairs, k) == pairs[k].key \o <<"colon">> \o Write(pairs[k].value)
Pieces(pairs) == [k \in 1 .. Len(pairs) |-> Pair(pairs, k)]
ArePairs(pairs) ==
    Len(pairs) \in Nat /\ \A k \in 1 .. Len(pairs) : pairs[k].key \in Text /\ pairs[k].value \in Values

LEMMA PiecesAre ==
    ASSUME NEW pairs, ArePairs(pairs)
    PROVE  /\ WritePairs(pairs) = Joined(Pieces(pairs)) /\ Len(Pieces(pairs)) = Len(pairs)
           /\ \A k \in 1 .. Len(pairs) : Pieces(pairs)[k] = Pair(pairs, k) /\ Pair(pairs, k) \in Text
           /\ WritePairs(pairs) \in Text
<1>1. WritePairs(pairs) = Joined(Pieces(pairs))
  BY DEF WritePairs, Pieces, Pair
<1>2. Len(Pieces(pairs)) = Len(pairs) /\ \A k \in 1 .. Len(pairs) : Pieces(pairs)[k] = Pair(pairs, k)
  BY DEF Pieces, ArePairs
<1>3. ASSUME NEW k \in 1 .. Len(pairs) PROVE Pair(pairs, k) \in Text
  <2>1. pairs[k].key \in Seq(Symbols) /\ Write(pairs[k].value) \in Seq(Symbols) /\ <<"colon">> \in Seq(Symbols)
    BY WriteText, SymbolsAre DEF ArePairs, Text
  <2> QED
    BY <2>1 DEF Pair, Text
<1>4. Joined(Pieces(pairs)) \in Text
  BY <1>2, <1>3, JoinedText DEF ArePairs
<1> QED
  BY <1>1, <1>2, <1>3, <1>4

\* The keys of a dict, in some order, each once.
LEMMA KeysInOrder ==
    ASSUME NEW S, IsFiniteSet(S)
    PROVE  /\ SetToSeq(S) \in [1 .. Cardinality(S) -> S] /\ Len(SetToSeq(S)) = Cardinality(S)
           /\ Cardinality(S) \in Nat
           /\ \A a, b \in 1 .. Cardinality(S) : SetToSeq(S)[a] = SetToSeq(S)[b] => a = b
           /\ \A x \in S : \E a \in 1 .. Cardinality(S) : SetToSeq(S)[a] = x
<1> DEFINE n == Cardinality(S)
           f == SetToSeq(S)
<1>1. n \in Nat /\ ExistsBijection(1 .. n, S)
  BY FS_CountingElements, FS_CardinalityType
<1>2. \E g \in [1 .. n -> S] : IsInjective(g)
  BY <1>1 DEF ExistsBijection, Bijection, Injection
<1>3. f \in [1 .. n -> S] /\ IsInjective(f)
  BY <1>2 DEF SetToSeq
<1> HIDE DEF f
<1>4. Len(f) = n
  BY <1>1, <1>3
<1>5. \A a, b \in 1 .. n : f[a] = f[b] => a = b
  BY <1>3 DEF IsInjective
<1>6. f \in Injection(1 .. n, S)
  BY <1>3 DEF Injection
<1>7. IsFiniteSet(1 .. n) /\ Cardinality(1 .. n) = n
  BY <1>1, FS_Interval
<1>8. f \in Surjection(1 .. n, S)
  BY <1>6, <1>7, FS_Injection
<1>9. \A x \in S : \E a \in 1 .. n : f[a] = x
  BY <1>8 DEF Surjection
<1> QED
  BY <1>1, <1>3, <1>4, <1>5, <1>9 DEF f
-----------------------------------------------------------------------------
(* What the variables hold. *)

MeantIs ==
    \/ meant.kind = "given" /\ meant.it \in Given
    \/ meant.kind = "tail" /\ meant.it \in Tails
    \/ meant.kind = "text"
    \/ meant.kind = "again"

TypeInv ==
    /\ s \in Text /\ i \in Nat \ {0}
    /\ IsDict(out) /\ IsDict(first)
    /\ phase \in {"parse", "parsed", "raised", "again"}
    /\ MeantIs

\* One round of the parser: the key and where its value begins.
LEMMA RoundIs ==
    ASSUME s \in Text, i \in Nat \ {0}, Colon # 0
    PROVE  /\ KeyFrom \in Nat /\ KeyFrom >= i
           /\ Colon \in KeyFrom .. Len(s) /\ s[Colon] = "colon" /\ Key \in Text
           /\ ValueFrom \in Nat /\ ValueFrom > Colon /\ ValueFrom <= Len(s) + 1
           /\ \A p \in Colon + 1 .. Len(s) : p < ValueFrom => s[p] = Space
<1>0. Len(s) \in Nat
  BY DEF Text
<1>1. KeyFrom \in Nat /\ KeyFrom >= i
  BY SkipInIs DEF KeyFrom
<1>2. KeyFrom \in Nat \ {0}
  BY <1>1
<1>3. Colon \in KeyFrom .. Len(s) /\ s[Colon] = "colon"
  BY <1>2, FindIs DEF Colon
<1>4. Colon \in Nat /\ Colon >= 1 /\ Colon <= Len(s)
  BY <1>0, <1>1, <1>2, <1>3
<1>5. Colon + 1 \in Nat \ {0} /\ Colon + 1 <= Len(s) + 1 /\ Colon - 1 \in Int /\ Colon - 1 <= Len(s)
  BY <1>0, <1>4
<1>6. SubSeq(s, KeyFrom, Colon - 1) \in Seq(Symbols)
  BY <1>2, <1>5, PieceIs DEF Text
<1>7. Key \in Text
  <2> DEFINE cut == SubSeq(s, KeyFrom, Colon - 1)
  <2>1. StripOf({Space}, cut) \in Seq(Symbols)
    BY <1>6, StripOfIs
  <2>2. StripOf(Quotes, StripOf({Space}, cut)) \in Seq(Symbols)
    BY <2>1, StripOfIs, Zenon
  <2>3. StripOf({Space}, StripOf(Quotes, StripOf({Space}, cut))) \in Seq(Symbols)
    BY <2>2, StripOfIs, Zenon
  <2> QED
    BY <2>3 DEF Key, Text
<1>8. /\ ValueFrom \in Nat /\ ValueFrom >= Colon + 1 /\ ValueFrom <= Len(s) + 1
      /\ \A p \in Colon + 1 .. Len(s) : p < ValueFrom => s[p] \in {Space}
  BY <1>5, SkipInIs DEF ValueFrom
<1> QED
  BY <1>1, <1>3, <1>4, <1>7, <1>8

\* Among the tails of a text there is a last one, and TailOf finds it.
LEMMA TailIs ==
    ASSUME NEW rest \in Text, TailKeys(rest) # {}
    PROVE  TailOf(rest) \in TailKeys(rest) /\ \A u \in TailKeys(rest) : TailOf(rest)[1] >= u[1]
<1> DEFINE firsts == {u[1] : u \in TailKeys(rest)}
<1>0. Len(rest) \in Nat
  BY DEF Text
<1>1. \A u \in TailKeys(rest) : u[1] \in Nat /\ u[1] <= Len(rest)
  BY <1>0 DEF TailKeys
<1>2. firsts \in SUBSET (0 .. Len(rest)) /\ firsts # {}
  BY <1>0, <1>1
<1>3. Max(firsts) \in firsts /\ \A y \in firsts : y <= Max(firsts)
  BY <1>0, <1>2, GreatestOf
<1>4. PICK t \in TailKeys(rest) : t[1] = Max(firsts)
  BY <1>3
<1>5. \A u \in TailKeys(rest) : u[1] \in firsts
  OBVIOUS
<1> HIDE DEF firsts
<1>6. ASSUME NEW u \in TailKeys(rest) PROVE t[1] >= u[1]
  BY <1>1, <1>3, <1>4, <1>5
<1> QED
  BY <1>6 DEF TailOf
\* The dict with its paths normalised.
LEMMA ReplaceIs ==
    ASSUME NEW text \in Text
    PROVE  /\ Replace(text) \in Text /\ Len(Replace(text)) = Len(text)
           /\ \A p \in 1 .. Len(text) : Replace(text)[p] = IF text[p] = ForeignSep THEN HostSep ELSE text[p]
           /\ Replace(Replace(text)) = Replace(text)
<1>1. HostSep \in Symbols /\ HostSep # ForeignSep
  BY SymbolsAre, KeysAssumption
<1>2. \A p \in 1 .. Len(text) : text[p] \in Symbols
  BY DEF Text
<1>3. Replace(text) \in Text /\ Len(Replace(text)) = Len(text)
  BY <1>1, <1>2 DEF Replace, Text
<1>4. \A p \in 1 .. Len(text) : Replace(text)[p] = IF text[p] = ForeignSep THEN HostSep ELSE text[p]
  BY DEF Replace
<1>5. \A p \in 1 .. Len(text) : Replace(text)[p] # ForeignSep
  BY <1>1, <1>4
<1>6. Replace(Replace(text)) = [p \in 1 .. Len(text) |-> Replace(text)[p]]
  BY <1>3, <1>5 DEF Replace
<1>7. Replace(text) = [p \in 1 .. Len(text) |-> Replace(text)[p]]
  BY DEF Replace
<1> QED
  BY <1>3, <1>4, <1>6, <1>7

LEMMA NormalizedIs ==
    ASSUME NEW d, IsDict(d)
    PROVE  /\ IsDict(NormalizePaths(d)) /\ DOMAIN NormalizePaths(d) = DOMAIN d
           /\ NormalizePaths(NormalizePaths(d)) = NormalizePaths(d)
<1> DEFINE n == NormalizePaths(d)
<1>1. DOMAIN n = DOMAIN d
  BY DEF NormalizePaths
<1>2. \A k \in DOMAIN d :
        n[k] = IF d[k].kind = "str" /\ k \in PathKeys THEN Str(Replace(d[k].is)) ELSE d[k]
  BY DEF NormalizePaths
<1>3. ASSUME NEW k \in DOMAIN d
      PROVE  /\ n[k] \in Values
             /\ n[k] = IF n[k].kind = "str" /\ k \in PathKeys THEN Str(Replace(n[k].is)) ELSE n[k]
  <2>1. d[k] \in Values
    BY DEF IsDict
  <2>2. CASE d[k].kind = "str" /\ k \in PathKeys
    <3>1. d[k].is \in Text
      BY <2>1, <2>2, KindOfValue
    <3>2. n[k] = Str(Replace(d[k].is)) /\ Replace(d[k].is) \in Text
      BY <1>2, <2>2, <3>1, ReplaceIs
    <3>3. n[k] \in Values
      BY <3>2, ValuesAre
    <3>4. n[k].is = Replace(d[k].is)
      BY <3>2 DEF Str
    <3>5. Replace(n[k].is) = Replace(d[k].is)
      BY <3>1, <3>4, ReplaceIs
    <3> QED
      BY <3>2, <3>3, <3>5
  <2>3. CASE ~(d[k].kind = "str" /\ k \in PathKeys)
    BY <1>2, <2>1, <2>3
  <2> QED
    BY <2>2, <2>3
<1>4. n = [k \in DOMAIN d |-> n[k]]
  BY DEF NormalizePaths
<1>5. NormalizePaths(n) = [k \in DOMAIN n |->
        IF n[k].kind = "str" /\ k \in PathKeys THEN Str(Replace(n[k].is)) ELSE n[k]]
  BY DEF NormalizePaths
<1> HIDE DEF n
<1>6. NormalizePaths(n) = n
  BY <1>1, <1>3, <1>4, <1>5
<1>7. IsDict(n)
  BY <1>1, <1>3, <1>4 DEF IsDict
<1> QED
  BY <1>1, <1>6, <1>7 DEF n

\* The pairs a dict is written as.
PairsOf(d) ==
    [k \in 1 .. Len(SetToSeq(DOMAIN d)) |->
        [key |-> SetToSeq(DOMAIN d)[k], value |-> d[SetToSeq(DOMAIN d)[k]]]]

LEMMA PairsOfDict ==
    ASSUME NEW d, IsDict(d)
    PROVE  /\ ArePairs(PairsOf(d)) /\ Len(PairsOf(d)) = Cardinality(DOMAIN d)
           /\ \A k \in 1 .. Len(PairsOf(d)) : PairsOf(d)[k].key \in DOMAIN d /\ PairsOf(d)[k].value = d[PairsOf(d)[k].key]
           /\ \A a, b \in 1 .. Len(PairsOf(d)) : PairsOf(d)[a].key = PairsOf(d)[b].key => a = b
           /\ \A key \in DOMAIN d : \E k \in 1 .. Len(PairsOf(d)) : PairsOf(d)[k].key = key
<1> DEFINE S == DOMAIN d
           q == SetToSeq(S)
           n == Cardinality(S)
<1>1. /\ q \in [1 .. n -> S] /\ Len(q) = n /\ n \in Nat
      /\ \A a, b \in 1 .. n : q[a] = q[b] => a = b
      /\ \A x \in S : \E a \in 1 .. n : q[a] = x
  BY KeysInOrder, Zenon DEF IsDict
<1>2. PairsOf(d) = [k \in 1 .. n |-> [key |-> q[k], value |-> d[q[k]]]]
  BY <1>1, Zenon DEF PairsOf
<1> HIDE DEF q, n
<1>3. Len(PairsOf(d)) = n
  BY <1>1, <1>2
<1>4. \A k \in 1 .. n : PairsOf(d)[k].key = q[k] /\ PairsOf(d)[k].value = d[q[k]] /\ q[k] \in S
  BY <1>1, <1>2
<1>5. ArePairs(PairsOf(d))
  BY <1>1, <1>3, <1>4 DEF ArePairs, IsDict
<1> QED
  BY <1>1, <1>3, <1>4, <1>5 DEF n
\* Whatever a round takes is a dict of values.
LEMMA TakesKeepsType ==
    ASSUME TypeInv, NEW dict, IsDict(dict), NEW next \in Nat \ {0}, phase = "parse", Takes(dict, next)
    PROVE  TypeInv'
BY Zenon DEF Takes, TypeInv, MeantIs

LEMMA LiteralType == ASSUME TypeInv, Literal PROVE TypeInv'
<1> DEFINE e == Find(Q, ValueFrom + 1)
           value == SubSeq(s, ValueFrom + 1, e - 1)
<1>1. s \in Text /\ i \in Nat \ {0} /\ IsDict(out) /\ phase = "parse" /\ Colon # 0 /\ Len(s) \in Nat
  BY DEF TypeInv, Literal, AtValue, More, Text
<1>2. Key \in Text /\ ValueFrom \in Nat
  BY <1>1, RoundIs
<1>3. e # 0 /\ Takes(Put(out, Key, Str(value)), e + 1)
  BY Zenon DEF Literal
<1>4. ValueFrom + 1 \in Nat \ {0}
  BY <1>2
<1>5. e \in ValueFrom + 1 .. Len(s)
  BY <1>1, <1>3, <1>4, FindIs
<1> HIDE DEF e
<1>6. e - 1 \in Int /\ e - 1 <= Len(s) /\ e + 1 \in Nat \ {0}
  BY <1>1, <1>4, <1>5
<1>7. value \in Text
  BY <1>1, <1>4, <1>6, PieceIs DEF Text
<1> HIDE DEF value
<1>8. IsDict(Put(out, Key, Str(value)))
  BY <1>1, <1>2, <1>7, PutIs, ValuesAre
<1> QED
  BY <1>1, <1>3, <1>6, <1>8, TakesKeepsType

LEMMA StripValType == ASSUME NEW text \in Text PROVE StripVal(text) \in Text
<1> DEFINE v == StripOf({Space}, text)
<1>1. v \in Text
  BY StripOfIs DEF Text
<1> HIDE DEF v
<1>2. Len(v) \in Nat /\ Len(v) - 1 \in Int /\ Len(v) - 1 <= Len(v)
  BY <1>1 DEF Text
<1>3. SubSeq(v, 2, Len(v) - 1) \in Text
  BY <1>1, <1>2, PieceIs DEF Text
<1>4. StripVal(text) = v \/ StripVal(text) = SubSeq(v, 2, Len(v) - 1)
  BY Zenon DEF StripVal, v
<1> QED
  BY <1>1, <1>3, <1>4

LEMMA UnterminatedType == ASSUME TypeInv, Unterminated PROVE TypeInv'
<1> DEFINE rest == SubSeq(s, ValueFrom + 1, Len(s))
           t == TailOf(rest)
           head == RStripOf({Space, Backtick} \cup Quotes, SubSeq(rest, 1, t[1] - 1))
           name == StripOf({Space}, SubSeq(rest, t[1] + 1, t[2] - 1))
           tail == StripVal(SubSeq(rest, t[2] + 1, Len(rest)))
<1>1. s \in Text /\ i \in Nat \ {0} /\ IsDict(out) /\ phase = "parse" /\ Colon # 0 /\ Len(s) \in Nat
  BY DEF TypeInv, Unterminated, AtValue, More, Text
<1>2. Key \in Text /\ ValueFrom + 1 \in Nat \ {0} /\ Len(s) + 1 \in Nat \ {0}
  BY <1>1, RoundIs
<1>3. rest \in Text
  BY <1>1, <1>2, PieceIs DEF Text
<1>4. \/ TailKeys(rest) = {} /\ Takes(Put(out, Key, Str(rest)), Len(s) + 1)
      \/ TailKeys(rest) # {} /\ Takes(Put(Put(out, Key, Str(head)), name, Str(tail)), Len(s) + 1)
  BY Zenon DEF Unterminated
<1> HIDE DEF rest
<1>5. CASE TailKeys(rest) = {} /\ Takes(Put(out, Key, Str(rest)), Len(s) + 1)
  <2>1. IsDict(Put(out, Key, Str(rest)))
    BY <1>1, <1>2, <1>3, PutIs, ValuesAre
  <2> QED
    BY <1>1, <1>2, <1>5, <2>1, TakesKeepsType
<1>6. CASE TailKeys(rest) # {} /\ Takes(Put(Put(out, Key, Str(head)), name, Str(tail)), Len(s) + 1)
  <2>0. t \in TailKeys(rest) /\ Len(rest) \in Nat
    BY <1>3, <1>6, TailIs DEF Text
  <2> HIDE DEF t
  <2>1. t[1] \in 1 .. Len(rest) /\ t[2] \in 1 .. Len(rest)
    BY <2>0 DEF TailKeys
  <2>2. /\ t[1] - 1 \in Int /\ t[1] - 1 <= Len(rest) /\ t[1] + 1 \in Nat \ {0}
        /\ t[2] - 1 \in Int /\ t[2] - 1 <= Len(rest) /\ t[2] + 1 \in Nat \ {0}
    BY <2>0, <2>1
  <2>3. SubSeq(rest, 1, t[1] - 1) \in Text
    BY <1>3, <2>2, PieceIs DEF Text
  <2>4. SubSeq(rest, t[1] + 1, t[2] - 1) \in Text
    BY <1>3, <2>2, PieceIs DEF Text
  <2>5. SubSeq(rest, t[2] + 1, Len(rest)) \in Text
    BY <1>3, <2>0, <2>2, PieceIs DEF Text
  <2>6. head \in Text /\ name \in Text /\ tail \in Text
    BY <2>3, <2>4, <2>5, RStripOfIs, StripOfIs, StripValType DEF Text
  <2> HIDE DEF head, name, tail
  <2>7. IsDict(Put(out, Key, Str(head)))
    BY <1>1, <1>2, <2>6, PutIs, ValuesAre
  <2>8. IsDict(Put(Put(out, Key, Str(head)), name, Str(tail)))
    BY <2>6, <2>7, PutIs, ValuesAre
  <2> QED
    BY <1>1, <1>2, <1>6, <2>8, TakesKeepsType
<1> QED
  BY <1>4, <1>5, <1>6

LEMMA QuotedType == ASSUME TypeInv, Quoted PROVE TypeInv'
<1>1. s \in Text /\ i \in Nat \ {0} /\ IsDict(out) /\ phase = "parse" /\ Colon # 0 /\ Len(s) \in Nat
  BY DEF TypeInv, Quoted, AtValue, More, Text
<1>2. Key \in Text /\ ValueFrom + 1 \in Nat \ {0}
  BY <1>1, RoundIs
<1>3. PICK q \in Quotes :
        LET found == Find(q, ValueFrom + 1)
            e == IF found = 0 THEN Len(s) ELSE found - 1
        IN  Takes(Put(out, Key, Str(SubSeq(s, ValueFrom + 1, e))), e + 2)
  BY Zenon DEF Quoted
<1> DEFINE found == Find(q, ValueFrom + 1)
           e == IF found = 0 THEN Len(s) ELSE found - 1
           value == SubSeq(s, ValueFrom + 1, e)
<1>4. found = 0 \/ found \in ValueFrom + 1 .. Len(s)
  BY <1>1, <1>2, FindIs
<1>5. e \in Int /\ e <= Len(s) /\ e + 2 \in Nat \ {0}
  BY <1>1, <1>2, <1>4
<1>6. Takes(Put(out, Key, Str(value)), e + 2)
  BY <1>3, Zenon
<1> HIDE DEF e
<1>7. value \in Text
  BY <1>1, <1>2, <1>5, PieceIs DEF Text
<1> HIDE DEF value
<1>8. IsDict(Put(out, Key, Str(value)))
  BY <1>1, <1>2, <1>7, PutIs, ValuesAre
<1> QED
  BY <1>1, <1>5, <1>6, <1>8, TakesKeepsType
-----------------------------------------------------------------------------
(* json.loads, symbol by symbol *)

\* r is what the reader has after each symbol.
JsonRuns(r, raw) ==
    r = [p \in 0 .. Len(raw) |-> IF p = 0 THEN Reader("start", <<>>) ELSE JsonRead(r[p - 1], raw[p])]

LEMMA JsonRunsExist ==
    ASSUME NEW raw, Len(raw) \in Nat
    PROVE  \E r : JsonRuns(r, raw)
<1> DEFINE Step(r, p) == IF p = 0 THEN Reader("start", <<>>) ELSE JsonRead(r[p - 1], raw[p])
           S == {k \in Nat : \E r : \A p \in 0 .. k : r[p] = Step(r, p)}
<1>1. 0 \in S
  <2> DEFINE r == [p \in 0 .. 0 |-> Reader("start", <<>>)]
  <2>1. \A p \in 0 .. 0 : r[p] = Step(r, p)
    OBVIOUS
  <2> QED
    BY <2>1
<1>2. ASSUME NEW k \in Nat, k \in S PROVE k + 1 \in S
  <2>1. PICK r : \A p \in 0 .. k : r[p] = Step(r, p)
    BY <1>2
  <2> DEFINE v == JsonRead(r[k], raw[k + 1])
             g == [p \in 0 .. k + 1 |-> IF p = k + 1 THEN v ELSE r[p]]
  <2>2. ASSUME NEW p \in 0 .. k + 1 PROVE g[p] = Step(g, p)
    <3>1. CASE p = k + 1
      <4>1. g[p] = v /\ p # 0 /\ p - 1 = k /\ p - 1 \in 0 .. k + 1 /\ p - 1 # k + 1
        BY <3>1
      <4>2. g[p - 1] = r[k]
        BY <4>1
      <4> QED
        BY <3>1, <4>1, <4>2
    <3>2. CASE p # k + 1
      <4>1. p \in 0 .. k /\ g[p] = r[p] /\ (p # 0 => p - 1 \in 0 .. k + 1 /\ p - 1 # k + 1)
        BY <3>2
      <4>2. r[p] = Step(r, p)
        BY <2>1, <4>1
      <4>3. p # 0 => g[p - 1] = r[p - 1]
        BY <4>1
      <4> QED
        BY <4>1, <4>2, <4>3
    <3> QED
      BY <3>1, <3>2
  <2> HIDE DEF g
  <2>3. \E h : \A p \in 0 .. k + 1 : h[p] = Step(h, p)
    BY <2>2
  <2> QED
    BY <2>3
<1>3. Nat \subseteq S
  <2> HIDE DEF S
  <2> QED
    BY <1>1, <1>2, Induction
<1>4. PICK r : \A p \in 0 .. Len(raw) : r[p] = Step(r, p)
  BY <1>3
<1> DEFINE h == [p \in 0 .. Len(raw) |-> r[p]]
<1>5. ASSUME NEW p \in 0 .. Len(raw) PROVE h[p] = Step(h, p)
  <2>1. p # 0 => p - 1 \in 0 .. Len(raw)
    OBVIOUS
  <2>2. p # 0 => h[p - 1] = r[p - 1]
    BY <2>1
  <2> QED
    BY <1>4, <2>2
<1>6. h = [p \in 0 .. Len(raw) |-> h[p]]
  OBVIOUS
<1> HIDE DEF h
<1>7. h = [p \in 0 .. Len(raw) |-> Step(h, p)]
  BY <1>5, <1>6
<1> QED
  BY <1>7, Zenon DEF JsonRuns

\* Json is the last of them.
LEMMA JsonIs ==
    ASSUME NEW raw, Len(raw) \in Nat, NEW r, JsonRuns(r, raw)
    PROVE  Json(raw) = r[Len(raw)]
<1>1. ASSUME NEW g, JsonRuns(g, raw) PROVE g = r
  <2> DEFINE S == {k \in Nat : k <= Len(raw) => g[k] = r[k]}
  <2>1. 0 \in S
    BY <1>1 DEF JsonRuns
  <2>2. ASSUME NEW k \in Nat, k \in S PROVE k + 1 \in S
    <3> SUFFICES ASSUME k + 1 <= Len(raw) PROVE g[k + 1] = r[k + 1]
      OBVIOUS
    <3>1. g[k] = r[k]
      BY <2>2
    <3>2. k + 1 \in 0 .. Len(raw) /\ k + 1 # 0 /\ (k + 1) - 1 = k
      OBVIOUS
    <3>3. g[k + 1] = JsonRead(g[k], raw[k + 1]) /\ r[k + 1] = JsonRead(r[k], raw[k + 1])
      BY <1>1, <3>2 DEF JsonRuns
    <3> QED
      BY <3>1, <3>3
  <2> HIDE DEF S
  <2>3. Nat \subseteq S
    BY <2>1, <2>2, Induction
  <2>4. \A k \in 0 .. Len(raw) : g[k] = r[k]
    BY <2>3 DEF S
  <2>5. g = [k \in 0 .. Len(raw) |-> g[k]] /\ r = [k \in 0 .. Len(raw) |-> r[k]]
    BY <1>1, Zenon DEF JsonRuns
  <2> QED
    BY <2>4, <2>5
<1> QED
  BY <1>1, Zenon DEF Json, JsonRuns

\* The string that is being read, with a symbol more.
Longer(texts, c) == [texts EXCEPT ![Len(texts)] = Append(@, c)]

LEMMA LongerIs ==
    ASSUME NEW q \in Seq(Text), NEW text \in Text, NEW c \in Symbols
    PROVE  Longer(Append(q, text), c) = Append(q, Append(text, c)) /\ Append(text, c) \in Text
<1> DEFINE a == Append(q, text)
           b == Append(text, c)
           n == Len(q)
<1>1. b \in Text
  BY DEF Text
<1> HIDE DEF b
<1>2. n \in Nat /\ Len(a) = n + 1 /\ a[n + 1] = text /\ a \in Seq(Text) /\ \A j \in 1 .. n : a[j] = q[j]
  BY Appended
<1> HIDE DEF a
<1>3. /\ Append(q, b) \in Seq(Text) /\ Len(Append(q, b)) = n + 1 /\ Append(q, b)[n + 1] = b
      /\ \A j \in 1 .. n : Append(q, b)[j] = q[j]
  BY <1>1, Appended
<1> DEFINE l == Longer(a, c)
<1>4. l = [a EXCEPT ![n + 1] = b]
  <2>1. l = [a EXCEPT ![n + 1] = Append(a[n + 1], c)]
    BY <1>2 DEF Longer
  <2> QED
    BY <1>2, <2>1 DEF b
<1> HIDE DEF l, n
<1>5. l \in Seq(Text) /\ Len(l) = n + 1 /\ l[n + 1] = b /\ \A j \in 1 .. n : l[j] = q[j]
  BY <1>1, <1>2, <1>4
<1>6. l = Append(q, b)
  BY <1>2, <1>3, <1>5, SameText
<1> QED
  BY <1>1, <1>6 DEF l, a, b

\* What a symbol does to the reader.
LEMMA JsonReads ==
    ASSUME NEW r, NEW x
    PROVE  /\ r.at = "start" /\ x = "lbrack" => JsonRead(r, x) = Reader("first", <<>>)
           /\ r.at \in {"first", "next"} /\ x = Q => JsonRead(r, x) = Reader("string", Append(r.is, <<>>))
           /\ r.at = "string" /\ x = Q => JsonRead(r, x) = Reader("behind", r.is)
           /\ r.at = "string" /\ x \notin {Q, "double", "backslash"}
                => JsonRead(r, x) = Reader("string", Longer(r.is, x))
           /\ r.at = "behind" /\ x = "comma" => JsonRead(r, x) = Reader("next", r.is)
           /\ r.at \in {"first", "behind"} /\ x = "rbrack" => JsonRead(r, x) = Reader("end", r.is)
           /\ \/ JsonRead(r, x) \in {Reader("first", <<>>), Reader("refused", <<>>)}
              \/ JsonRead(r, x) = Reader("string", Append(r.is, <<>>))
              \/ r.at = "string" /\ JsonRead(r, x) \in {Reader("behind", r.is), Reader("escape", r.is)}
              \/ /\ r.at \in {"string", "escape"}
                 /\ JsonRead(r, x) \in {Reader("string", Longer(r.is, x)), Reader("string", Longer(r.is, "double"))}
              \/ JsonRead(r, x) \in {Reader("next", r.is), Reader("end", r.is), r}
BY DEF JsonRead, Longer, Unescape, Q, Space

\* A reader has read texts, the last of them perhaps only in part.
IsReader(r) ==
    /\ r = Reader(r.at, r.is) /\ r.is \in Seq(Text)
    /\ r.at \in {"string", "escape"} => r.is # <<>>

LEMMA JsonType ==
    ASSUME NEW raw \in Text
    PROVE  Json(raw).is \in Seq(Text)
<1>1. Len(raw) \in Nat /\ \A p \in 1 .. Len(raw) : raw[p] \in Symbols
  BY DEF Text
<1>2. PICK r : JsonRuns(r, raw)
  BY <1>1, JsonRunsExist, Zenon
<1>3. ASSUME NEW a, NEW q \in Seq(Text), a \notin {"string", "escape"} \/ q # <<>>
      PROVE  IsReader(Reader(a, q))
  BY <1>3 DEF IsReader, Reader
<1>4. <<>> \in Seq(Text) /\ <<>> \in Text
  BY DEF Text
<1>5. ASSUME NEW q \in Seq(Text), q # <<>>, NEW c \in Symbols
      PROVE  Longer(q, c) \in Seq(Text) /\ Longer(q, c) # <<>>
  <2> DEFINE n == Len(q) - 1
             h == SubSeq(q, 1, n)
             l == q[n + 1]
  <2>1. n \in Nat /\ n + 1 = Len(q) /\ l \in Text
    BY <1>5
  <2>2. h \in Seq(Text) /\ Len(h) = n /\ \A j \in 1 .. n : h[j] = q[j]
    BY <2>1
  <2> HIDE DEF n, h, l
  <2>3. Append(h, l) \in Seq(Text) /\ Len(Append(h, l)) = n + 1 /\ \A j \in 1 .. n + 1 : Append(h, l)[j] = q[j]
    BY <2>1, <2>2 DEF l
  <2>4. q = Append(h, l)
    BY <2>1, <2>3, SameText
  <2>5. Longer(q, c) = Append(h, Append(l, c)) /\ Append(l, c) \in Text
    BY <2>1, <2>2, <2>4, LongerIs
  <2>6. Append(h, Append(l, c)) \in Seq(Text) /\ Append(h, Append(l, c)) # <<>>
    BY <2>2, <2>5
  <2> QED
    BY <2>5, <2>6
<1>6. ASSUME NEW o, IsReader(o), NEW x \in Symbols PROVE IsReader(JsonRead(o, x))
  <2> DEFINE y == JsonRead(o, x)
  <2>1. o.is \in Seq(Text) /\ Append(o.is, <<>>) \in Seq(Text) /\ Append(o.is, <<>>) # <<>>
    <3>1. \A q \in Seq(Text) : Append(q, <<>>) \in Seq(Text) /\ Append(q, <<>>) # <<>>
      <4> SUFFICES ASSUME NEW q \in Seq(Text) PROVE Append(q, <<>>) \in Seq(Text) /\ Append(q, <<>>) # <<>>
        OBVIOUS
      <4>1. Append(q, <<>>) \in Seq(Text) /\ Len(Append(q, <<>>)) = Len(q) + 1 /\ Len(q) \in Nat
        BY <1>4, Appended
      <4>2. Len(<<>>) = 0
        OBVIOUS
      <4> QED
        BY <4>1, <4>2
    <3> QED
      BY <1>6, <3>1, Zenon DEF IsReader
  <2>2. CASE y \in {Reader("first", <<>>), Reader("refused", <<>>)}
    BY <1>3, <1>4, <2>2
  <2>3. CASE y = Reader("string", Append(o.is, <<>>))
    BY <1>3, <2>1, <2>3, Zenon
  <2>4. CASE o.at = "string" /\ y \in {Reader("behind", o.is), Reader("escape", o.is)}
    BY <1>3, <1>6, <2>1, <2>4 DEF IsReader
  <2>5. CASE o.at \in {"string", "escape"} /\ y \in {Reader("string", Longer(o.is, x)), Reader("string", Longer(o.is, "double"))}
    <3>1. o.is # <<>> /\ "double" \in Symbols
      BY <1>6, <2>5, SymbolsAre DEF IsReader
    <3>2. Longer(o.is, x) \in Seq(Text) /\ Longer(o.is, x) # <<>>
      BY <1>5, <2>1, <3>1, Zenon
    <3>3. Longer(o.is, "double") \in Seq(Text) /\ Longer(o.is, "double") # <<>>
      BY <1>5, <2>1, <3>1, Zenon
    <3>4. IsReader(Reader("string", Longer(o.is, x))) /\ IsReader(Reader("string", Longer(o.is, "double")))
      BY <1>3, <3>2, <3>3, Zenon
    <3> QED
      BY <2>5, <3>4
  <2>6. CASE y \in {Reader("next", o.is), Reader("end", o.is), o}
    BY <1>3, <1>6, <2>1, <2>6
  <2> QED
    BY <2>2, <2>3, <2>4, <2>5, <2>6, JsonReads, Zenon
<1> DEFINE S == {k \in Nat : k <= Len(raw) => IsReader(r[k])}
<1>7. 0 \in S
  <2>1. r[0] = Reader("start", <<>>)
    BY <1>1, <1>2 DEF JsonRuns
  <2> QED
    BY <1>3, <1>4, <2>1
<1>8. ASSUME NEW k \in Nat, k \in S PROVE k + 1 \in S
  <2> SUFFICES ASSUME k + 1 <= Len(raw) PROVE IsReader(r[k + 1])
    OBVIOUS
  <2>1. IsReader(r[k]) /\ raw[k + 1] \in Symbols
    BY <1>1, <1>8
  <2>2. r[k + 1] = JsonRead(r[k], raw[k + 1])
    <3>1. k + 1 \in 0 .. Len(raw) /\ k + 1 # 0 /\ (k + 1) - 1 = k
      BY <1>1
    <3> QED
      BY <1>2, <3>1 DEF JsonRuns
  <2> QED
    BY <1>6, <2>1, <2>2, Zenon
<1> HIDE DEF S
<1>9. Nat \subseteq S
  BY <1>7, <1>8, Induction
<1>10. IsReader(r[Len(raw)])
  BY <1>1, <1>9 DEF S
<1> QED
  BY <1>1, <1>2, <1>10, JsonIs, Zenon DEF IsReader

BareEnd ==
    Min({p \in ValueFrom .. Len(s) : s[p] = "comma" /\ Depth(ValueFrom, p - 1) <= 0} \cup {Len(s) + 1})

BareValue(raw) ==
    IF IsNum(raw) THEN Num(raw)
    ELSE IF IsEmptyDict(raw) THEN EmptyDict
    ELSE IF Json(raw).at = "end" THEN List(Json(raw).is)
    ELSE Str(StripOf(Quotes, raw))

LEMMA BareType == ASSUME TypeInv, Bare PROVE TypeInv'
<1> DEFINE e == BareEnd
           cut == SubSeq(s, ValueFrom, e - 1)
           raw == StripOf({Space}, cut)
<1>1. s \in Text /\ i \in Nat \ {0} /\ IsDict(out) /\ phase = "parse" /\ Colon # 0 /\ Len(s) \in Nat
  BY DEF TypeInv, Bare, More, Text
<1>2. Key \in Text /\ ValueFrom \in Nat \ {0}
  BY <1>1, RoundIs
<1>3. Takes(Put(out, Key, BareValue(raw)), e)
  BY Zenon DEF Bare, BareEnd, BareValue
<1> DEFINE ends == {p \in ValueFrom .. Len(s) : s[p] = "comma" /\ Depth(ValueFrom, p - 1) <= 0} \cup {Len(s) + 1}
<1>4. ends \in SUBSET Nat /\ ends # {} /\ Len(s) + 1 \in ends /\ \A x \in ends : x # 0
  BY <1>1, <1>2
<1>5. e = Min(ends)
  BY DEF BareEnd
<1> HIDE DEF ends, e
<1>6. Min(ends) \in ends /\ \A y \in ends : Min(ends) <= y
  BY <1>4, LeastOf, Zenon
<1>7. e \in Nat \ {0} /\ e <= Len(s) + 1
  BY <1>4, <1>5, <1>6
<1>8. e - 1 \in Int /\ e - 1 <= Len(s)
  BY <1>1, <1>7
<1>9. cut \in Text
  BY <1>1, <1>2, <1>8, PieceIs DEF Text
<1> HIDE DEF cut
<1>10. raw \in Text
  BY <1>9, StripOfIs DEF Text
<1> HIDE DEF raw
<1>11. Str(StripOf(Quotes, raw)) \in Values
  <2>1. StripOf(Quotes, raw) \in Text
    BY <1>10, StripOfIs DEF Text
  <2> QED
    BY <2>1, ValuesAre, Zenon
<1>12. List(Json(raw).is) \in Values
  BY <1>10, JsonType, ValuesAre, Zenon
<1>13. IsNum(raw) => Num(raw) \in Values
  BY <1>10, ValuesAre, Zenon
<1>14. BareValue(raw) \in Values
  BY <1>11, <1>12, <1>13, ValuesAre, Zenon DEF BareValue
<1>15. IsDict(Put(out, Key, BareValue(raw)))
  BY <1>1, <1>2, <1>14, PutIs
<1> QED
  BY <1>1, <1>3, <1>7, <1>15, TakesKeepsType

LEMMA RaiseType == ASSUME TypeInv, Raise PROVE TypeInv'
BY Zenon DEF TypeInv, Raise, MeantIs

LEMMA ParsedType == ASSUME TypeInv, Parsed PROVE TypeInv'
<1>1. IsDict(NormalizePaths(out))
  BY NormalizedIs DEF TypeInv
<1>2. phase' \in {"parse", "parsed", "raised", "again"}
  BY DEF Parsed
<1> QED
  BY <1>1, <1>2, Zenon DEF TypeInv, Parsed, MeantIs

LEMMA SendBackIs ==
    ASSUME SendBack
    PROVE  /\ s' = WritePairs(PairsOf(out)) /\ meant' = [kind |-> "again", it |-> <<>>]
           /\ i' = 1 /\ out' = <<>> /\ phase' = "parse" /\ first' = out /\ phase = "parsed"
BY Zenon DEF SendBack, PairsOf

LEMMA SendBackType == ASSUME TypeInv, SendBack PROVE TypeInv'
<1>1. s' \in Text
  BY SendBackIs, PairsOfDict, PiecesAre DEF TypeInv
<1>2. i' \in Nat \ {0} /\ phase' \in {"parse", "parsed", "raised", "again"} /\ meant'.kind = "again"
  BY SendBackIs
<1>3. IsDict(out') /\ IsDict(first')
  BY SendBackIs, NothingRead DEF TypeInv
<1> QED
  BY <1>1, <1>2, <1>3 DEF TypeInv, MeantIs

LEMMA ElementsOf ==
    ASSUME NEW T, NEW q \in Seq(T)
    PROVE  Len(q) \in Nat /\ \A k \in 1 .. Len(q) : q[k] \in T
OBVIOUS

\* The lists of arguments the model means can be written.
LEMMA GivenPairs ==
    ASSUME NEW pairs \in Given
    PROVE  ArePairs(pairs) /\ \A k \in 1 .. Len(pairs) : pairs[k].key \in Keys /\ Delimited(pairs[k].value)
<1>1. pairs \in Seq([key : Keys, value : Values]) /\ \A k \in 1 .. Len(pairs) : Delimited(pairs[k].value)
  BY InputsAssumption
<1>2. Len(pairs) \in Nat /\ \A k \in 1 .. Len(pairs) : pairs[k] \in [key : Keys, value : Values]
  BY <1>1, ElementsOf, Zenon
<1>3. \A k \in 1 .. Len(pairs) : pairs[k].key \in Keys /\ pairs[k].value \in Values
  BY <1>2
<1>4. Keys \subseteq Text
  BY KeysAssumption DEF Text
<1> QED
  BY <1>1, <1>2, <1>3, <1>4 DEF ArePairs

LEMMA TailText ==
    ASSUME NEW t \in Tails
    PROVE  t.text \in Text /\ t.value \in Text /\ WriteTail(<<"a">>, t) \in Text
<1>1. t.text \in Text /\ t.value \in Text
  BY InputsAssumption DEF Text
<1>2. <<"a">> \in Text
  BY KeysAssumption DEF Text
<1>3. <<"colon", Q>> \in Text /\ <<"single">> \in Text /\ "path" \in Symbols
  <2>1. <<"path">> \in Seq(Symbols)
    BY KeysAssumption
  <2>2. "path" \in Symbols
    BY <2>1
  <2> QED
    BY <2>2, SymbolsAre DEF Text
<1>4. <<Backtick, "comma", "path", "colon", "single">> \in Text
  BY <1>3, SymbolsAre DEF Text
<1>5. \A a, b \in Text : a \o b \in Text
  BY DEF Text
<1>6. WriteTail(<<"a">>, t) \in Text
  BY <1>1, <1>2, <1>3, <1>4, <1>5, Zenon DEF WriteTail
<1> QED
  BY <1>1, <1>6

LEMMA InitType == ASSUME Init PROVE TypeInv
<1>1. s \in Text /\ MeantIs
  <2>1. ASSUME NEW pairs \in Given, meant = [kind |-> "given", it |-> pairs], s = WritePairs(pairs)
        PROVE  s \in Text /\ MeantIs
    BY <2>1, GivenPairs, PiecesAre DEF MeantIs
  <2>2. ASSUME NEW t \in Tails, meant = [kind |-> "tail", it |-> t], s = WriteTail(<<"a">>, t)
        PROVE  s \in Text /\ MeantIs
    BY <2>2, TailText DEF MeantIs
  <2>3. ASSUME NEW text \in Texts, meant = [kind |-> "text", it |-> text], s = text
        PROVE  s \in Text /\ MeantIs
    BY <2>3, InputsAssumption DEF MeantIs, Text
  <2> QED
    BY <2>1, <2>2, <2>3, Zenon DEF Init
<1>2. i \in Nat \ {0} /\ phase \in {"parse", "parsed", "raised", "again"} /\ out = <<>> /\ first = <<>>
  BY DEF Init
<1> QED
  BY <1>1, <1>2, NothingRead DEF TypeInv

\* The variables hold texts and dicts of values, whatever the text.
THEOREM TypeCorrect == Spec => []TypeInv
<1>1. Init => TypeInv
  BY InitType
<1>2. TypeInv /\ [Next]_vars => TypeInv'
  <2>1. TypeInv /\ Next => TypeInv'
    BY LiteralType, UnterminatedType, QuotedType, BareType, RaiseType, ParsedType, SendBackType, Zenon DEF Next
  <2>2. TypeInv /\ UNCHANGED vars => TypeInv'
    BY Zenon DEF TypeInv, MeantIs, vars
  <2> QED
    BY <2>1, <2>2, Zenon
<1> QED
  BY <1>1, <1>2, PTL DEF Spec
-----------------------------------------------------------------------------
(* Raising *)

\* Where the parser raises, the text ends in a colon and spaces.
LEMMA RaisedAtColon ==
    ASSUME TypeInv, Raise
    PROVE  RStripOf({Space}, s) # <<>> /\ RStripOf({Space}, s)[Len(RStripOf({Space}, s))] = "colon"
<1> DEFINE c == Colon
           stripped == RStripOf({Space}, s)
<1>1. s \in Text /\ i \in Nat \ {0} /\ c # 0 /\ Len(s) \in Nat /\ ValueFrom > Len(s)
  BY DEF TypeInv, Raise, More, Text
<1>2. /\ KeyFrom \in Nat /\ KeyFrom >= i /\ c \in KeyFrom .. Len(s) /\ s[c] = "colon"
      /\ \A p \in c + 1 .. Len(s) : p < ValueFrom => s[p] = Space
  BY <1>1, RoundIs
<1> HIDE DEF c
<1>3. c \in Nat /\ c >= 1 /\ c <= Len(s)
  BY <1>1, <1>2
<1>4. \A p \in c + 1 .. Len(s) : s[p] \in {Space}
  <2>1. ValueFrom \in Nat
    BY <1>1, RoundIs DEF c
  <2> QED
    BY <1>1, <1>2, <1>3, <2>1
<1>5. s[c] \notin {Space}
  BY <1>2 DEF Space
<1>6. stripped = SubSeq(s, 1, c)
  BY <1>1, <1>3, <1>4, <1>5, RStripOfIs DEF Text
<1>7. Len(SubSeq(s, 1, c)) = c /\ SubSeq(s, 1, c)[c] = s[c]
  <2>1. /\ Len(SubSeq(s, 1, c)) = IF 1 <= c THEN c - 1 + 1 ELSE 0
        /\ \A j \in 1 .. c - 1 + 1 : SubSeq(s, 1, c)[j] = s[1 + j - 1]
    BY <1>1, <1>3, PieceIs DEF Text
  <2> QED
    BY <1>3, <2>1
<1> HIDE DEF stripped
<1>8. stripped # <<>> /\ stripped[Len(stripped)] = "colon"
  BY <1>2, <1>3, <1>6, <1>7
<1> QED
  BY <1>8 DEF stripped

\* The parser raises only where the last value is missing.
THEOREM RaisesCorrect == Spec => []RaisesOnlyOnMissingValue
<1>1. Init => RaisesOnlyOnMissingValue
  BY DEF Init, RaisesOnlyOnMissingValue
<1>2. TypeInv /\ RaisesOnlyOnMissingValue /\ [Next]_vars => RaisesOnlyOnMissingValue'
  <2> SUFFICES ASSUME TypeInv, RaisesOnlyOnMissingValue, [Next]_vars PROVE RaisesOnlyOnMissingValue'
    OBVIOUS
  <2>1. CASE Raise
    <3>1. s' = s
      BY <2>1 DEF Raise
    <3> QED
      BY <2>1, <3>1, RaisedAtColon, Zenon DEF RaisesOnlyOnMissingValue, RStripOf
  <2>2. CASE UNCHANGED vars
    BY <2>2, Zenon DEF RaisesOnlyOnMissingValue, RStripOf, vars
  <2>3. ASSUME NEW dict, NEW next, Takes(dict, next), phase = "parse" PROVE phase' # "raised"
    BY <2>3 DEF Takes
  <2>4. CASE Literal \/ Unterminated \/ Quoted \/ Bare \/ Parsed \/ SendBack
    <3>1. Literal => phase' # "raised"
      BY <2>3, Zenon DEF Literal, AtValue, More
    <3>2. Unterminated => phase' # "raised"
      BY <2>3, Zenon DEF Unterminated, AtValue, More
    <3>3. Quoted => phase' # "raised"
      BY <2>3, Zenon DEF Quoted, AtValue, More
    <3>4. Bare => phase' # "raised"
      BY <2>3, Zenon DEF Bare, More
    <3>5. Parsed => phase' # "raised"
      BY DEF Parsed
    <3>6. SendBack => phase' # "raised"
      BY DEF SendBack
    <3> QED
      BY <2>4, <3>1, <3>2, <3>3, <3>4, <3>5, <3>6 DEF RaisesOnlyOnMissingValue
  <2> QED
    BY <2>1, <2>2, <2>4, Zenon DEF Next
<1> QED
  BY <1>1, <1>2, TypeCorrect, PTL DEF Spec

\* What has been normalised stays so; only what was sent back is parsed again.
NormInv ==
    /\ phase = "parsed" => NormalizePaths(out) = out /\ meant.kind # "again"
    /\ NormalizePaths(first) = first
    /\ phase = "again" => meant.kind = "again"

\* Paths that have been normalised are left alone by normalising them again.
THEOREM NormCorrect == Spec => []NormInv
<1>1. Init => NormInv
  <2>1. NormalizePaths(<<>>) = <<>>
    BY DEF NormalizePaths
  <2> QED
    BY <2>1 DEF Init, NormInv
<1>2. TypeInv /\ NormInv /\ [Next]_vars => NormInv'
  <2> SUFFICES ASSUME TypeInv, NormInv, [Next]_vars PROVE NormInv'
    OBVIOUS
  <2>1. ASSUME NEW dict, NEW next, Takes(dict, next), phase = "parse" PROVE NormInv'
    <3>1. phase' = "parse" /\ first' = first
      BY <2>1 DEF Takes
    <3>2. phase' # "parsed" /\ phase' # "again"
      BY <3>1
    <3> QED
      BY <3>1, <3>2, Zenon DEF NormInv, NormalizePaths
  <2>2. Literal \/ Unterminated => NormInv'
    BY <2>1, Zenon DEF Literal, Unterminated, AtValue, More
  <2>3. Quoted \/ Bare => NormInv'
    BY <2>1, Zenon DEF Quoted, Bare, AtValue, More
  <2>4. CASE Raise
    <3>1. phase' # "parsed" /\ phase' # "again" /\ first' = first
      BY <2>4 DEF Raise
    <3> QED
      BY <3>1, Zenon DEF NormInv, NormalizePaths
  <2>5. CASE Parsed
    <3>1. out' = NormalizePaths(out) /\ first' = first /\ meant' = meant
      BY <2>5 DEF Parsed
    <3>2. NormalizePaths(NormalizePaths(out)) = NormalizePaths(out)
      BY NormalizedIs DEF TypeInv
    <3>3. NormalizePaths(out') = out'
      BY <3>1, <3>2
    <3>4. NormalizePaths(first') = first'
      BY <3>1 DEF NormInv
    <3>5. phase' = "again" => meant'.kind = "again"
      BY <2>5 DEF Parsed
    <3>6. phase' = "parsed" => meant'.kind # "again"
      BY <2>5 DEF Parsed
    <3> QED
      BY <3>3, <3>4, <3>5, <3>6 DEF NormInv
  <2>6. CASE SendBack
    <3>1. first' = out /\ phase' # "parsed" /\ phase' # "again" /\ phase = "parsed"
      BY <2>6, SendBackIs
    <3>2. NormalizePaths(first') = first'
      BY <3>1 DEF NormInv
    <3> QED
      BY <3>1, <3>2 DEF NormInv
  <2>7. CASE UNCHANGED vars
    BY <2>7, Zenon DEF NormInv, NormalizePaths, vars
  <2> QED
    BY <2>2, <2>3, <2>4, <2>5, <2>6, <2>7, Zenon DEF Next
<1> QED
  BY <1>1, <1>2, TypeCorrect, PTL DEF Spec
-----------------------------------------------------------------------------
(* A string that is broken off *)

Joint(a, b, c) ==
    /\ c \in Text /\ Len(c) = Len(a) + Len(b)
    /\ Len(a) \in Nat /\ Len(b) \in Nat
    /\ \A k \in 1 .. Len(a) : c[k] = a[k]
    /\ \A k \in 1 .. Len(b) : c[Len(a) + k] = b[k]

LEMMA JoinOf == ASSUME NEW a \in Text, NEW b \in Text PROVE Joint(a, b, a \o b)
BY DEF Text, Joint

\* Where everything is in a broken text.
TailAt(t, n, m) ==
    /\ Len(t) = n + m + 9
    /\ t[1] = "a" /\ t[2] = "colon" /\ t[3] = Q
    /\ t[n + 4] = Backtick /\ t[n + 5] = "comma" /\ t[n + 6] = "path" /\ t[n + 7] = "colon"
    /\ t[n + 8] = "single" /\ t[n + m + 9] = "single"

LEMMA TailLayout ==
    ASSUME NEW t \in Tails
    PROVE  /\ TailAt(WriteTail(<<"a">>, t), Len(t.text), Len(t.value))
           /\ \A j \in 1 .. Len(t.text) : WriteTail(<<"a">>, t)[3 + j] = t.text[j]
           /\ \A j \in 1 .. Len(t.value) : WriteTail(<<"a">>, t)[Len(t.text) + 8 + j] = t.value[j]
           /\ Len(t.text) \in Nat /\ Len(t.value) \in Nat
<1> DEFINE n == Len(t.text)
           m == Len(t.value)
           a == <<"a">> \o <<"colon", Q>>
           b == a \o t.text
           mid == <<Backtick, "comma", "path", "colon", "single">>
           c == b \o mid
           d == c \o t.value
           last == <<"single">>
           e == d \o last
<1>1. t.text \in Text /\ t.value \in Text /\ n \in Nat /\ m \in Nat
  BY TailText DEF Text
<1>2. WriteTail(<<"a">>, t) = e
  BY Zenon DEF WriteTail
<1>3. "a" \in Symbols /\ "path" \in Symbols
  <2>1. <<"a">> \in Seq(Symbols) /\ <<"path">> \in Seq(Symbols)
    BY KeysAssumption
  <2> QED
    BY <2>1
<1>4. a \in Text /\ Len(a) = 3 /\ a[1] = "a" /\ a[2] = "colon" /\ a[3] = Q
  BY <1>3, SymbolsAre DEF Text
<1>5. mid \in Text /\ Len(mid) = 5 /\ mid[1] = Backtick /\ mid[2] = "comma" /\ mid[3] = "path"
      /\ mid[4] = "colon" /\ mid[5] = "single"
  BY <1>3, SymbolsAre DEF Text
<1>6. <<"single">> \in Text /\ Len(<<"single">>) = 1 /\ <<"single">>[1] = "single"
  BY SymbolsAre DEF Text
<1> HIDE DEF a, mid, last
<1> HIDE DEF n, m, b
<1>7. b \in Text /\ Len(b) = 3 + n /\ (\A k \in 1 .. 3 : b[k] = a[k]) /\ \A k \in 1 .. n : b[3 + k] = t.text[k]
  <2>1. Joint(a, t.text, b)
    BY <1>1, <1>4, JoinOf, Zenon DEF b
  <2> QED
    BY <1>1, <1>4, <2>1 DEF Joint, n
<1> HIDE DEF c
<1>8. c \in Text /\ Len(c) = 8 + n /\ (\A k \in 1 .. 3 + n : c[k] = b[k]) /\ \A k \in 1 .. 5 : c[(3 + n) + k] = mid[k]
  <2>1. Joint(b, mid, c)
    BY <1>5, <1>7, JoinOf, Zenon DEF c
  <2> QED
    BY <1>1, <1>5, <1>7, <2>1 DEF Joint
<1> HIDE DEF d
<1>9. d \in Text /\ Len(d) = 8 + n + m /\ (\A k \in 1 .. 8 + n : d[k] = c[k]) /\ \A k \in 1 .. m : d[(8 + n) + k] = t.value[k]
  <2>1. Joint(c, t.value, d)
    BY <1>1, <1>8, JoinOf, Zenon DEF d
  <2> QED
    BY <1>1, <1>8, <2>1 DEF Joint, m
<1> HIDE DEF e
<1>10. e \in Text /\ Len(e) = 9 + n + m /\ (\A k \in 1 .. 8 + n + m : e[k] = d[k]) /\ e[(8 + n + m) + 1] = "single"
  <2>1. Joint(d, last, e)
    BY <1>6, <1>9, JoinOf, Zenon DEF e, last
  <2> QED
    BY <1>1, <1>6, <1>9, <2>1 DEF Joint, last
<1>11. \A k \in 1 .. 3 : e[k] = a[k]
  BY <1>1, <1>7, <1>8, <1>9, <1>10
<1>12. \A k \in 1 .. 5 : e[(3 + n) + k] = mid[k]
  <2> SUFFICES ASSUME NEW k \in 1 .. 5 PROVE e[(3 + n) + k] = mid[k]
    OBVIOUS
  <2>1. (3 + n) + k \in 1 .. 8 + n /\ (3 + n) + k \in 1 .. 8 + n + m
    BY <1>1
  <2> QED
    BY <1>8, <1>9, <1>10, <2>1
<1>13. e[n + 4] = Backtick /\ e[n + 5] = "comma" /\ e[n + 6] = "path" /\ e[n + 7] = "colon" /\ e[n + 8] = "single"
  BY <1>1, <1>5, <1>12
<1>14. e[1] = "a" /\ e[2] = "colon" /\ e[3] = Q
  BY <1>4, <1>11
<1>15. \A j \in 1 .. n : e[3 + j] = t.text[j]
  <2> SUFFICES ASSUME NEW j \in 1 .. n PROVE e[3 + j] = t.text[j]
    OBVIOUS
  <2>1. 3 + j \in 1 .. 3 + n /\ 3 + j \in 1 .. 8 + n /\ 3 + j \in 1 .. 8 + n + m
    BY <1>1
  <2> QED
    BY <1>7, <1>8, <1>9, <1>10, <2>1
<1>16. \A j \in 1 .. m : e[n + 8 + j] = t.value[j]
  <2> SUFFICES ASSUME NEW j \in 1 .. m PROVE e[n + 8 + j] = t.value[j]
    OBVIOUS
  <2>1. (8 + n) + j \in 1 .. 8 + n + m /\ n + 8 + j = (8 + n) + j
    BY <1>1
  <2> QED
    BY <1>9, <1>10, <2>1
<1>17. Len(e) = n + m + 9 /\ e[n + m + 9] = "single"
  BY <1>1, <1>10
<1>18. TailAt(e, n, m)
  BY <1>13, <1>14, <1>17 DEF TailAt
<1> QED
  BY <1>1, <1>2, <1>15, <1>16, <1>18, Zenon DEF n, m
\* The key of the broken string, which has no end.
LEMMA TailRound ==
    ASSUME NEW t \in Tails, s = WriteTail(<<"a">>, t), i = 1
    PROVE  /\ Colon = 2 /\ Key = <<"a">> /\ ValueFrom = 3 /\ s[3] = Q /\ Find(Q, 4) = 0
           /\ s \in Text /\ Len(s) = Len(t.text) + Len(t.value) + 9
<1> DEFINE n == Len(t.text)
           m == Len(t.value)
<1>1. /\ TailAt(s, n, m) /\ n \in Nat /\ m \in Nat
      /\ \A j \in 1 .. n : s[3 + j] = t.text[j]
      /\ \A j \in 1 .. m : s[n + 8 + j] = t.value[j]
  BY TailLayout
<1>2. s \in Text /\ Len(s) \in Nat
  BY TailText DEF Text
<1> HIDE DEF n, m
<1>3. Len(s) = n + m + 9 /\ s[1] = "a" /\ s[2] = "colon" /\ s[3] = Q
  BY <1>1 DEF TailAt
<1>4. "a" \notin {Space, "comma"} /\ "a" \notin {Space} \cup Quotes /\ "a" # "colon" /\ Q \notin {Space} /\ Q # "comma"
  BY DEF Space, Quotes, Q
<1>5. KeyFrom = 1
  <2>1. /\ KeyFrom \in Nat /\ KeyFrom >= 1
        /\ \A p \in 1 .. Len(s) : p < KeyFrom => s[p] \in {Space, "comma"}
    BY <1>2, SkipInIs DEF KeyFrom
  <2>2. 1 \in 1 .. Len(s)
    BY <1>1, <1>3
  <2>3. ~(1 < KeyFrom)
    BY <1>3, <1>4, <2>1, <2>2
  <2> QED
    BY <2>1, <2>3
<1>6. Colon = 2
  <2>1. \/ Find("colon", 1) = 0 /\ \A p \in 1 .. Len(s) : s[p] # "colon"
        \/ /\ Find("colon", 1) \in 1 .. Len(s) /\ s[Find("colon", 1)] = "colon"
           /\ \A p \in 1 .. Find("colon", 1) - 1 : s[p] # "colon"
    BY <1>2, FindIs
  <2> DEFINE f == Find("colon", 1)
  <2> HIDE DEF f
  <2>2. f \in 1 .. Len(s) /\ s[f] = "colon" /\ \A p \in 1 .. f - 1 : s[p] # "colon"
    BY <1>1, <1>3, <2>1 DEF f
  <2>3. f # 1 /\ ~(f > 2)
    BY <1>1, <1>3, <1>4, <2>2
  <2>4. f = 2
    BY <1>2, <2>2, <2>3
  <2> QED
    BY <1>5, <2>4 DEF Colon, f
<1>7. Key = <<"a">>
  <2> DEFINE cut == SubSeq(s, 1, 1)
  <2>1. cut \in Seq(Symbols) /\ Len(cut) = 1 /\ cut[1] = "a"
    <3>1. /\ cut \in Seq(Symbols) /\ Len(cut) = IF 1 <= 1 THEN 1 - 1 + 1 ELSE 0
          /\ \A j \in 1 .. 1 - 1 + 1 : cut[j] = s[1 + j - 1]
      BY <1>1, <1>2, <1>3, PieceIs DEF Text
    <3> QED
      BY <1>3, <3>1
  <2> HIDE DEF cut
  <2>2. cut = <<"a">>
    BY <2>1
  <2>3. StripOf({Space}, cut) = cut /\ StripOf(Quotes, cut) = cut
    <3>1. /\ cut[1] \notin {Space} /\ cut[Len(cut)] \notin {Space}
          /\ cut[1] \notin Quotes /\ cut[Len(cut)] \notin Quotes /\ cut # <<>>
      BY <1>4, <2>1, <2>2
    <3>2. StripOf({Space}, cut) = cut
      BY <2>1, <3>1, StripOfIs, Zenon
    <3>3. StripOf(Quotes, cut) = cut
      BY <2>1, <3>1, StripOfIs, Zenon
    <3> QED
      BY <3>2, <3>3
  <2>4. Key = StripOf({Space}, StripOf(Quotes, StripOf({Space}, cut)))
    <3>1. Colon - 1 = 1
      BY <1>6
    <3> QED
      BY <1>5, <3>1, Zenon DEF Key, cut
  <2> QED
    BY <2>2, <2>3, <2>4
<1>8. ValueFrom = 3
  <2>0. ValueFrom = SkipIn({Space}, 3)
    BY <1>6 DEF ValueFrom
  <2>1. /\ SkipIn({Space}, 3) \in Nat /\ SkipIn({Space}, 3) >= 3
        /\ \A p \in 3 .. Len(s) : p < SkipIn({Space}, 3) => s[p] \in {Space}
    BY <1>2, SkipInIs
  <2>2. 3 \in 3 .. Len(s)
    BY <1>1, <1>3
  <2>3. ~(3 < SkipIn({Space}, 3))
    BY <1>3, <1>4, <2>1, <2>2
  <2> QED
    BY <2>0, <2>1, <2>3
<1>9. \A p \in 4 .. Len(s) : s[p] # Q
  <2> SUFFICES ASSUME NEW p \in 4 .. Len(s) PROVE s[p] # Q
    OBVIOUS
  <2>1. \A j \in 1 .. n : t.text[j] # Q
    BY InputsAssumption DEF Contains, n
  <2>2. \A j \in 1 .. m : t.value[j] # Q
    BY InputsAssumption DEF Contains, m
  <2>3. CASE p \in 4 .. n + 3
    <3>1. p - 3 \in 1 .. n /\ p = 3 + (p - 3)
      BY <1>1, <2>3
    <3> QED
      BY <1>1, <2>1, <3>1
  <2>4. CASE p \in n + 9 .. n + m + 8
    <3>1. p - (n + 8) \in 1 .. m /\ p = n + 8 + (p - (n + 8))
      BY <1>1, <2>4
    <3> QED
      BY <1>1, <2>2, <3>1
  <2>5. CASE p \in {n + 4, n + 5, n + 6, n + 7, n + 8, n + m + 9}
    <3>1. "path" # Q /\ "comma" # Q /\ "colon" # Q /\ "single" # Q /\ Backtick # Q
      BY DEF Q, Backtick
    <3> QED
      BY <1>1, <2>5, <3>1 DEF TailAt
  <2> QED
    BY <1>1, <1>3, <2>3, <2>4, <2>5
<1>10. Find(Q, 4) = 0
  BY <1>2, <1>9, FindIs
<1> QED
  BY <1>2, <1>3, <1>6, <1>7, <1>8, <1>10 DEF n, m
\* What follows the quote of the broken string.
RestAt(rest, text, value) ==
    /\ rest \in Text /\ Len(rest) = Len(text) + Len(value) + 6
    /\ \A j \in 1 .. Len(text) : rest[j] = text[j]
    /\ rest[Len(text) + 1] = Backtick /\ rest[Len(text) + 2] = "comma" /\ rest[Len(text) + 3] = "path"
    /\ rest[Len(text) + 4] = "colon" /\ rest[Len(text) + 5] = "single"
    /\ \A j \in 1 .. Len(value) : rest[Len(text) + 5 + j] = value[j]
    /\ rest[Len(text) + Len(value) + 6] = "single"

LEMMA RestIs ==
    ASSUME NEW t \in Tails, s = WriteTail(<<"a">>, t), i = 1
    PROVE  RestAt(SubSeq(s, 4, Len(s)), t.text, t.value)
<1> DEFINE n == Len(t.text)
           m == Len(t.value)
           rest == SubSeq(s, 4, Len(s))
<1>1. /\ TailAt(s, n, m) /\ n \in Nat /\ m \in Nat
      /\ \A j \in 1 .. n : s[3 + j] = t.text[j]
      /\ \A j \in 1 .. m : s[n + 8 + j] = t.value[j]
  BY TailLayout
<1>2. s \in Text /\ Len(s) = n + m + 9
  BY TailRound
<1> HIDE DEF n, m
<1>3. /\ rest \in Text /\ Len(rest) = IF 4 <= Len(s) THEN Len(s) - 4 + 1 ELSE 0
      /\ \A j \in 1 .. Len(s) - 4 + 1 : rest[j] = s[4 + j - 1]
  BY <1>1, <1>2, PieceIs DEF Text
<1> HIDE DEF rest
<1>4. Len(rest) = n + m + 6 /\ \A j \in 1 .. n + m + 6 : rest[j] = s[3 + j]
  BY <1>1, <1>2, <1>3
<1>5. \A j \in 1 .. n : rest[j] = t.text[j]
  <2> SUFFICES ASSUME NEW j \in 1 .. n PROVE rest[j] = t.text[j]
    OBVIOUS
  <2>1. j \in 1 .. n + m + 6
    BY <1>1
  <2> QED
    BY <1>1, <1>4, <2>1
<1>6. /\ rest[n + 1] = s[n + 4] /\ rest[n + 2] = s[n + 5] /\ rest[n + 3] = s[n + 6]
      /\ rest[n + 4] = s[n + 7] /\ rest[n + 5] = s[n + 8] /\ rest[n + m + 6] = s[n + m + 9]
  <2>1. /\ 3 + (n + 1) = n + 4 /\ 3 + (n + 2) = n + 5 /\ 3 + (n + 3) = n + 6
        /\ 3 + (n + 4) = n + 7 /\ 3 + (n + 5) = n + 8 /\ 3 + (n + m + 6) = n + m + 9
    BY <1>1
  <2>2. {n + 1, n + 2, n + 3, n + 4, n + 5, n + m + 6} \subseteq 1 .. n + m + 6
    BY <1>1
  <2> QED
    BY <1>4, <2>1, <2>2
<1>7. \A j \in 1 .. m : rest[n + 5 + j] = t.value[j]
  <2> SUFFICES ASSUME NEW j \in 1 .. m PROVE rest[n + 5 + j] = t.value[j]
    OBVIOUS
  <2>1. n + 5 + j \in 1 .. n + m + 6 /\ 3 + (n + 5 + j) = n + 8 + j
    BY <1>1
  <2> QED
    BY <1>1, <1>4, <2>1
<1> QED
  BY <1>1, <1>3, <1>4, <1>5, <1>6, <1>7 DEF RestAt, TailAt, n, m, rest

\* The last ",key:" of it is the one that was written, whatever the string holds.
LEMMA TailFound ==
    ASSUME NEW text \in Text, NEW value \in Text, NEW rest, RestAt(rest, text, value),
           ~Contains(value, "comma")
    PROVE  /\ TailKeys(rest) # {}
           /\ TailOf(rest)[1] = Len(text) + 2 /\ TailOf(rest)[2] = Len(text) + 4
<1> DEFINE n == Len(text)
           m == Len(value)
           L == Len(rest)
<1>0. "path" # Space /\ "colon" # Space /\ "path" # "1" /\ "comma" # "path" /\ "comma" # "colon"
      /\ "comma" # "single" /\ "path" # "colon" /\ "colon" \notin {"x", "1"}
  BY DEF Space
<1>1. n \in Nat /\ m \in Nat /\ rest \in Text /\ L = n + m + 6 /\ rest[n + 2] = "comma"
      /\ rest[n + 3] = "path" /\ rest[n + 4] = "colon" /\ rest[n + 5] = "single" /\ rest[n + m + 6] = "single"
      /\ \A j \in 1 .. m : rest[n + 5 + j] = value[j]
  BY DEF RestAt, Text
<1> HIDE DEF n, m, L
<1>2. Word("path") /\ ~Word("colon")
  <2>1. <<"path">> \in Keys
    BY KeysAssumption
  <2>2. <<"colon">> \notin Keys
    <3>1. <<"colon">>[1] = "colon" /\ "colon" \in Punctuation
      BY DEF Punctuation
    <3> QED
      BY <3>1, KeysAssumption
  <2> QED
    BY <1>0, <2>1, <2>2 DEF Word
<1>3. <<n + 2, n + 4>> \in TailKeys(rest)
  <2> DEFINE cut == SubSeq(rest, n + 2 + 1, n + 4 - 1)
  <2>1. cut \in Seq(Symbols) /\ Len(cut) = 1 /\ cut[1] = "path"
    <3> DEFINE a == n + 2 + 1
               b == n + 4 - 1
    <3>1. a \in Nat \ {0} /\ b \in Int /\ b <= Len(rest) /\ a = b /\ a = n + 3
      BY <1>1 DEF L
    <3> HIDE DEF a, b
    <3>2. /\ SubSeq(rest, a, b) \in Seq(Symbols) /\ Len(SubSeq(rest, a, b)) = IF a <= b THEN b - a + 1 ELSE 0
          /\ \A j \in 1 .. b - a + 1 : SubSeq(rest, a, b)[j] = rest[a + j - 1]
      BY <1>1, <3>1, PieceIs DEF Text
    <3>3. SubSeq(rest, a, b) \in Seq(Symbols) /\ Len(SubSeq(rest, a, b)) = 1 /\ SubSeq(rest, a, b)[1] = rest[a]
      BY <3>1, <3>2
    <3> QED
      BY <1>1, <3>1, <3>3 DEF a, b
  <2> HIDE DEF cut
  <2>2. StripOf({Space}, cut) = cut
    <3>1. cut # <<>>
      <4>1. Len(<<>>) = 0 /\ 0 # 1
        OBVIOUS
      <4> QED
        BY <2>1, <4>1, Zenon
    <3>2. cut[1] \notin {Space}
      BY <1>0, <2>1
    <3>3. cut[Len(cut)] \notin {Space}
      BY <2>1, <3>2, Zenon
    <3> QED
      BY <2>1, <3>1, <3>2, <3>3, StripOfIs, Zenon
  <2>3. IsWord(cut)
    BY <1>0, <1>2, <2>1 DEF IsWord, Letter
  <2>4. n + 2 \in 1 .. Len(rest) /\ n + 4 \in 1 .. Len(rest) /\ n + 2 < n + 4
    BY <1>1 DEF L
  <2>5. IsWord(StripOf({Space}, SubSeq(rest, n + 2 + 1, n + 4 - 1)))
    BY <2>2, <2>3, Zenon DEF cut
  <2> DEFINE tt == <<n + 2, n + 4>>
  <2>6. tt \in (1 .. Len(rest)) \X (1 .. Len(rest)) /\ tt[1] = n + 2 /\ tt[2] = n + 4
    BY <2>4
  <2> HIDE DEF tt
  <2>7. tt \in TailKeys(rest)
    <3>1. tt[1] < tt[2] /\ rest[tt[1]] = "comma" /\ rest[tt[2]] = "colon"
      BY <1>1, <2>4, <2>6
    <3>2. IsWord(StripOf({Space}, SubSeq(rest, tt[1] + 1, tt[2] - 1)))
      <4>1. tt[1] = n + 2 /\ tt[2] = n + 4
        BY <2>6, Zenon
      <4>2. tt[1] + 1 = n + 2 + 1 /\ tt[2] - 1 = n + 4 - 1
        BY <1>1, <4>1
      <4> QED
        BY <2>5, <4>2, Zenon
    <3> QED
      BY <2>6, <3>1, <3>2, Zenon DEF TailKeys
  <2> QED
    BY <2>7 DEF tt
<1> DEFINE t == TailOf(rest)
<1>4. t \in TailKeys(rest) /\ \A u \in TailKeys(rest) : t[1] >= u[1]
  BY <1>1, <1>3, TailIs
<1> HIDE DEF t
<1>5. /\ t[1] \in 1 .. Len(rest) /\ t[2] \in 1 .. Len(rest)
      /\ t[1] < t[2] /\ rest[t[1]] = "comma" /\ rest[t[2]] = "colon"
      /\ IsWord(StripOf({Space}, SubSeq(rest, t[1] + 1, t[2] - 1)))
  BY <1>4 DEF TailKeys
<1>6. t[1] >= n + 2
  <2>1. <<n + 2, n + 4>>[1] = n + 2
    OBVIOUS
  <2> QED
    BY <1>3, <1>4, <2>1
<1>7. t[1] = n + 2
  <2> SUFFICES ASSUME t[1] > n + 2 PROVE FALSE
    BY <1>1, <1>5, <1>6
  <2>1. CASE t[1] \in {n + 3, n + 4, n + 5, n + m + 6}
    BY <1>0, <1>1, <1>5, <2>1
  <2>2. CASE t[1] \in n + 6 .. n + m + 5
    <3>1. t[1] - (n + 5) \in 1 .. m /\ t[1] = n + 5 + (t[1] - (n + 5))
      BY <1>1, <2>2
    <3>2. rest[t[1]] = value[t[1] - (n + 5)]
      BY <1>1, <3>1
    <3> QED
      BY <1>5, <3>1, <3>2 DEF Contains, m
  <2> QED
    BY <1>1, <1>5, <2>1, <2>2 DEF L
<1>8. t[2] = n + 4
  <2> SUFFICES ASSUME t[2] # n + 4 PROVE FALSE
    OBVIOUS
  <2>1. t[2] > n + 4 /\ t[2] \in Nat /\ t[2] <= Len(rest)
    BY <1>0, <1>1, <1>5, <1>7 DEF L
  <2> DEFINE a == t[1] + 1
             b == t[2] - 1
             cut == SubSeq(rest, a, b)
  <2>2. a = n + 3 /\ b \in Int /\ b >= n + 4 /\ b <= Len(rest)
    BY <1>1, <1>7, <2>1
  <2>3. IsWord(StripOf({Space}, cut))
    BY <1>5, Zenon
  <2> HIDE DEF a, b
  <2>4. /\ cut \in Seq(Symbols) /\ Len(cut) = IF a <= b THEN b - a + 1 ELSE 0
        /\ \A j \in 1 .. b - a + 1 : cut[j] = rest[a + j - 1]
    BY <1>1, <2>2, PieceIs DEF Text
  <2> HIDE DEF cut
  <2>5. Len(cut) >= 2 /\ cut[1] = "path" /\ cut[2] = "colon" /\ Len(cut) \in Nat
    BY <1>1, <2>2, <2>4
  <2>6. Len(StripOf({Space}, cut)) >= 2 /\ StripOf({Space}, cut)[2] = "colon" /\ Len(StripOf({Space}, cut)) \in Nat
    <3> DEFINE kept == {p \in 1 .. Len(cut) : cut[p] \notin {Space}}
    <3>1. 1 \in kept /\ 2 \in kept /\ kept \in SUBSET (0 .. Len(cut)) /\ \A p \in kept : p >= 1
      BY <1>0, <2>5
    <3>2. Min(kept) \in kept /\ \A y \in kept : Min(kept) <= y
      <4>1. kept \in SUBSET Nat /\ kept # {}
        BY <3>1
      <4> QED
        BY <4>1, LeastOf, Zenon
    <3>3. Max(kept) \in kept /\ \A y \in kept : Max(kept) >= y
      BY <2>5, <3>1, GreatestOf
    <3>4. StripOf({Space}, cut) = SubSeq(cut, Min(kept), Max(kept))
      BY <3>1 DEF StripOf
    <3> DEFINE z == Max(kept)
    <3>5. Min(kept) = 1 /\ z >= 2 /\ z \in Int /\ z <= Len(cut)
      BY <2>5, <3>1, <3>2, <3>3
    <3> HIDE DEF kept, z
    <3>6. /\ Len(SubSeq(cut, 1, z)) = IF 1 <= z THEN z - 1 + 1 ELSE 0
          /\ \A j \in 1 .. z - 1 + 1 : SubSeq(cut, 1, z)[j] = cut[1 + j - 1]
      BY <2>4, <3>5, PieceIs
    <3>7. StripOf({Space}, cut) = SubSeq(cut, 1, z)
      BY <3>4, <3>5 DEF z
    <3>8. Len(SubSeq(cut, 1, z)) = z /\ SubSeq(cut, 1, z)[2] = cut[2]
      BY <3>5, <3>6
    <3>9. Len(StripOf({Space}, cut)) = z /\ StripOf({Space}, cut)[2] = "colon"
      BY <2>5, <3>7, <3>8, Zenon
    <3>10. z >= 2 /\ z \in Nat
      BY <3>5
    <3> QED
      BY <3>9, <3>10, Zenon
  <2> DEFINE name == StripOf({Space}, cut)
  <2> HIDE DEF name
  <2>7. Word(name[2])
    <3>1. IsWord(name) /\ Len(name) >= 2 /\ Len(name) \in Nat
      BY <2>3, <2>6 DEF name
    <3>2. 2 \in 1 .. Len(name)
      BY <3>1
    <3> QED
      BY <3>1, <3>2 DEF IsWord
  <2> QED
    BY <1>2, <2>6, <2>7 DEF name
<1> QED
  BY <1>3, <1>7, <1>8 DEF t, n
\* A symbol that is stripped anyway makes no difference at the end.
LEMMA RStripKeeps ==
    ASSUME NEW text \in Text, NEW head \in Text, NEW S, Len(head) = Len(text) + 1,
           \A j \in 1 .. Len(text) : head[j] = text[j], head[Len(text) + 1] \in S
    PROVE  RStripOf(S, head) = RStripOf(S, text)
<1> DEFINE kept == {p \in 1 .. Len(text) : text[p] \notin S} \cup {0}
           b == Max(kept)
<1>1. Len(text) \in Nat
  BY DEF Text
<1>2. {p \in 1 .. Len(head) : head[p] \notin S} \cup {0} = kept
  BY <1>1
<1>3. kept \in SUBSET (0 .. Len(text)) /\ kept # {}
  BY <1>1
<1>4. b \in kept
  BY <1>1, <1>3, GreatestOf
<1>5. b \in Nat /\ b <= Len(text) /\ b <= Len(head)
  BY <1>1, <1>3, <1>4
<1>6. RStripOf(S, head) = SubSeq(head, 1, b) /\ RStripOf(S, text) = SubSeq(text, 1, b)
  BY <1>2, Zenon DEF RStripOf
<1> HIDE DEF b, kept
<1>7. /\ SubSeq(head, 1, b) \in Text /\ Len(SubSeq(head, 1, b)) = b
      /\ \A j \in 1 .. b : SubSeq(head, 1, b)[j] = head[j]
  <2>1. /\ SubSeq(head, 1, b) \in Seq(Symbols) /\ Len(SubSeq(head, 1, b)) = IF 1 <= b THEN b - 1 + 1 ELSE 0
        /\ \A j \in 1 .. b - 1 + 1 : SubSeq(head, 1, b)[j] = head[1 + j - 1]
    BY <1>5, PieceIs DEF Text
  <2> QED
    BY <1>5, <2>1 DEF Text
<1>8. /\ SubSeq(text, 1, b) \in Text /\ Len(SubSeq(text, 1, b)) = b
      /\ \A j \in 1 .. b : SubSeq(text, 1, b)[j] = text[j]
  <2>1. /\ SubSeq(text, 1, b) \in Seq(Symbols) /\ Len(SubSeq(text, 1, b)) = IF 1 <= b THEN b - 1 + 1 ELSE 0
        /\ \A j \in 1 .. b - 1 + 1 : SubSeq(text, 1, b)[j] = text[1 + j - 1]
    BY <1>5, PieceIs DEF Text
  <2> QED
    BY <1>5, <2>1 DEF Text
<1> DEFINE x == SubSeq(head, 1, b)
           y == SubSeq(text, 1, b)
<1> HIDE DEF x, y
<1>9. x \in Seq(Symbols) /\ Len(x) = b /\ \A j \in 1 .. b : x[j] = head[j]
  BY <1>7, Zenon DEF x, Text
<1>10. y \in Seq(Symbols) /\ Len(y) = b /\ \A j \in 1 .. b : y[j] = text[j]
  BY <1>8, Zenon DEF y, Text
<1>11. \A j \in 1 .. b : x[j] = y[j]
  BY <1>1, <1>5, <1>9, <1>10
<1>12. x = y
  BY <1>9, <1>10, <1>11, SameText, Zenon
<1> QED
  BY <1>6, <1>12, Zenon DEF x, y

\* Matching quotes are taken off.
LEMMA StripValIs ==
    ASSUME NEW value \in Text, NEW q \in Text, Len(q) = Len(value) + 2, q[1] = "single",
           q[Len(value) + 2] = "single", \A j \in 1 .. Len(value) : q[1 + j] = value[j]
    PROVE  StripVal(q) = value
<1> DEFINE m == Len(value)
<1>1. m \in Nat /\ Len(q) = m + 2 /\ q # <<>>
  <2>1. Len(<<>>) = 0 /\ m \in Nat
    BY DEF Text
  <2> QED
    BY <2>1
<1>2. "single" \notin {Space} /\ "single" \in Quotes
  BY DEF Space, Quotes
<1>3. StripOf({Space}, q) = q
  <2>1. q[1] \notin {Space} /\ q[Len(q)] \notin {Space}
    BY <1>1, <1>2
  <2> QED
    BY <1>1, <2>1, StripOfIs, Zenon DEF Text
<1>4. Len(q) >= 2 /\ q[1] \in Quotes /\ q[Len(q)] = q[1]
  BY <1>1, <1>2
<1>5. StripVal(q) = SubSeq(q, 2, Len(q) - 1)
  BY <1>3, <1>4, Zenon DEF StripVal
<1> DEFINE z == Len(q) - 1
<1>6. z \in Int /\ z <= Len(q) /\ z = m + 1
  BY <1>1
<1> HIDE DEF m, z
<1>7. /\ SubSeq(q, 2, z) \in Seq(Symbols) /\ Len(SubSeq(q, 2, z)) = IF 2 <= z THEN z - 2 + 1 ELSE 0
      /\ \A j \in 1 .. z - 2 + 1 : SubSeq(q, 2, z)[j] = q[2 + j - 1]
  BY <1>6, PieceIs DEF Text
<1> DEFINE x == SubSeq(q, 2, z)
<1> HIDE DEF x
<1>8. x \in Seq(Symbols) /\ Len(x) = IF 2 <= z THEN z - 2 + 1 ELSE 0
  BY <1>7, Zenon DEF x
<1>9. \A j \in 1 .. z - 2 + 1 : x[j] = q[2 + j - 1]
  BY <1>7, Zenon DEF x
<1>10. Len(x) = m
  BY <1>1, <1>6, <1>8
<1>11. ASSUME NEW j \in 1 .. m PROVE x[j] = value[j]
  <2>1. j \in 1 .. z - 2 + 1 /\ 2 + j - 1 = 1 + j
    BY <1>1, <1>6
  <2>2. q[1 + j] = value[j]
    BY DEF m
  <2> QED
    BY <1>9, <2>1, <2>2
<1>12. x = value
  <2>1. value \in Seq(Symbols) /\ Len(value) = Len(x) /\ \A j \in 1 .. Len(x) : x[j] = value[j]
    BY <1>10, <1>11 DEF Text, m
  <2> QED
    BY <1>8, <2>1, SameText, Zenon
<1> QED
  BY <1>5, <1>12 DEF x, z
\* Both values of a broken text.
Stripped == {Space, Backtick} \cup Quotes
Recovered(t) == Put(Put(<<>>, <<"a">>, Str(RStripOf(Stripped, t.text))), <<"path">>, Str(t.value))

\* Where the broken text is read: before it, and when all of it has been taken.
TailStart == phase = "parse" /\ i = 1 /\ out = <<>> /\ s = WriteTail(<<"a">>, meant.it)
TailTaken == phase = "parse" /\ i = Len(s) + 1 /\ out = Recovered(meant.it)
TailDone == phase = "parsed" /\ out = NormalizePaths(Recovered(meant.it))
TailInv == meant.kind = "tail" => TailStart \/ TailTaken \/ TailDone

\* The pieces of the rest.
LEMMA RestPieces ==
    ASSUME NEW text \in Text, NEW value \in Text, NEW rest, RestAt(rest, text, value)
    PROVE  /\ RStripOf(Stripped, SubSeq(rest, 1, Len(text) + 1)) = RStripOf(Stripped, text)
           /\ StripOf({Space}, SubSeq(rest, Len(text) + 3, Len(text) + 3)) = <<"path">>
           /\ StripVal(SubSeq(rest, Len(text) + 5, Len(rest))) = value
<1> DEFINE n == Len(text)
           m == Len(value)
<1>1. /\ n \in Nat /\ m \in Nat /\ rest \in Text /\ Len(rest) = n + m + 6
      /\ \A j \in 1 .. n : rest[j] = text[j]
      /\ \A j \in 1 .. m : rest[n + 5 + j] = value[j]
      /\ rest[n + 1] = Backtick /\ rest[n + 3] = "path" /\ rest[n + 5] = "single" /\ rest[n + m + 6] = "single"
  BY DEF RestAt, Text
<1> HIDE DEF n, m
<1>2. RStripOf(Stripped, SubSeq(rest, 1, n + 1)) = RStripOf(Stripped, text)
  <2> DEFINE b == n + 1
             head == SubSeq(rest, 1, b)
  <2>1. b \in Int /\ b <= Len(rest) /\ b = n + 1
    BY <1>1
  <2> HIDE DEF b
  <2>2. /\ head \in Seq(Symbols) /\ Len(head) = IF 1 <= b THEN b - 1 + 1 ELSE 0
        /\ \A j \in 1 .. b - 1 + 1 : head[j] = rest[1 + j - 1]
    BY <1>1, <2>1, PieceIs DEF Text
  <2> HIDE DEF head
  <2>3. Len(head) = n + 1 /\ \A j \in 1 .. n + 1 : head[j] = rest[j]
    BY <1>1, <2>1, <2>2
  <2>4. \A j \in 1 .. n : head[j] = text[j]
    BY <1>1, <2>3
  <2>5. head[n + 1] \in Stripped
    BY <1>1, <2>3 DEF Stripped
  <2>6. head \in Text
    BY <2>2 DEF Text
  <2>7. RStripOf(Stripped, head) = RStripOf(Stripped, text)
    BY <2>3, <2>4, <2>5, <2>6, RStripKeeps, Zenon DEF n
  <2> QED
    BY <2>7, Zenon DEF head, b
<1>3. StripOf({Space}, SubSeq(rest, n + 3, n + 3)) = <<"path">>
  <2> DEFINE b == n + 3
             cut == SubSeq(rest, b, b)
  <2>1. b \in Nat \ {0} /\ b \in Int /\ b <= Len(rest) /\ b = n + 3
    BY <1>1
  <2> HIDE DEF b
  <2>2. /\ cut \in Seq(Symbols) /\ Len(cut) = IF b <= b THEN b - b + 1 ELSE 0
        /\ \A j \in 1 .. b - b + 1 : cut[j] = rest[b + j - 1]
    BY <1>1, <2>1, PieceIs DEF Text
  <2> HIDE DEF cut
  <2>3. cut \in Seq(Symbols) /\ Len(cut) = 1 /\ cut[1] = "path"
    BY <1>1, <2>1, <2>2
  <2>4. cut = <<"path">>
    BY <2>3
  <2>5. cut[1] \notin {Space} /\ cut[Len(cut)] \notin {Space} /\ cut # <<>>
    BY <2>3, <2>4 DEF Space
  <2>6. StripOf({Space}, cut) = cut
    BY <2>3, <2>5, StripOfIs, Zenon
  <2> QED
    BY <2>4, <2>6, Zenon DEF cut, b
<1>4. StripVal(SubSeq(rest, n + 5, Len(rest))) = value
  <2> DEFINE a == n + 5
             b == Len(rest)
             q == SubSeq(rest, a, b)
  <2>1. a \in Nat \ {0} /\ a = n + 5 /\ b \in Int /\ b <= Len(rest) /\ b = n + m + 6
    BY <1>1
  <2> HIDE DEF a, b
  <2>2. /\ q \in Seq(Symbols) /\ Len(q) = IF a <= b THEN b - a + 1 ELSE 0
        /\ \A j \in 1 .. b - a + 1 : q[j] = rest[a + j - 1]
    BY <1>1, <2>1, PieceIs DEF Text
  <2> HIDE DEF q
  <2>3. q \in Text /\ Len(q) = m + 2 /\ \A j \in 1 .. m + 2 : q[j] = rest[n + 4 + j]
    BY <1>1, <2>1, <2>2 DEF Text
  <2>4. n + 4 + 1 = n + 5 /\ n + 4 + (m + 2) = n + m + 6 /\ 1 \in 1 .. m + 2 /\ m + 2 \in 1 .. m + 2
    BY <1>1
  <2>5. q[1] = "single" /\ q[m + 2] = "single"
    BY <1>1, <2>3, <2>4
  <2>6. ASSUME NEW j \in 1 .. m PROVE q[1 + j] = value[j]
    <3>1. 1 + j \in 1 .. m + 2 /\ n + 4 + (1 + j) = n + 5 + j
      BY <1>1
    <3> QED
      BY <1>1, <2>3, <3>1
  <2>7. StripVal(q) = value
    BY <2>3, <2>5, <2>6, StripValIs, Zenon DEF m
  <2> QED
    BY <2>7, Zenon DEF q, a, b
<1> QED
  BY <1>2, <1>3, <1>4, Zenon DEF n

\* The broken text is taken in one round.
LEMMA TailStep ==
    ASSUME TypeInv, meant.kind = "tail", TailStart, Next
    PROVE  TailTaken'
<1> DEFINE t == meant.it
           rest == SubSeq(s, 4, Len(s))
           n == Len(t.text)
<1>1. t \in Tails /\ s = WriteTail(<<"a">>, t) /\ i = 1 /\ phase = "parse" /\ out = <<>>
  BY DEF TypeInv, MeantIs, TailStart
<1> HIDE DEF t
<1>2. /\ Colon = 2 /\ Key = <<"a">> /\ ValueFrom = 3 /\ s[3] = Q /\ Find(Q, 4) = 0
      /\ s \in Text /\ Len(s) = Len(t.text) + Len(t.value) + 9
  BY <1>1, TailRound
<1>3. t.text \in Text /\ t.value \in Text /\ n \in Nat /\ Len(t.value) \in Nat /\ ~Contains(t.value, "comma")
  BY <1>1, TailText, InputsAssumption DEF Text
<1>4. RestAt(rest, t.text, t.value)
  BY <1>1, RestIs
<1>5. TailKeys(rest) # {} /\ TailOf(rest)[1] = n + 2 /\ TailOf(rest)[2] = n + 4
  BY <1>3, <1>4, TailFound
<1>6. More /\ ValueFrom <= Len(s) /\ ~(ValueFrom > Len(s)) /\ Q \notin Quotes
  <2> DEFINE l == Len(s)
             a == Len(t.text)
             b == Len(t.value)
             c == Colon
             v == ValueFrom
  <2>1. l = a + b + 9 /\ a \in Nat /\ b \in Nat /\ c = 2 /\ v = 3
    BY <1>2, <1>3, Zenon
  <2> HIDE DEF l, a, b, c, v
  <2>2. 1 <= l /\ v <= l /\ ~(v > l) /\ c # 0
    BY <2>1
  <2>3. Q \notin Quotes
    BY DEF Quotes, Q
  <2> QED
    BY <1>1, <2>2, <2>3, Zenon DEF More, l, c, v
<1>7. ValueFrom + 1 = 4
  BY <1>2
<1>8. Unterminated
  <2>1. ~Literal
    BY <1>2, <1>7, Zenon DEF Literal
  <2>2. ~Quoted
    BY <1>2, <1>6, Zenon DEF Quoted, AtValue
  <2>3. ~Bare
    BY <1>2, <1>6, Zenon DEF Bare
  <2>4. ~Raise
    BY <1>6, Zenon DEF Raise
  <2>5. ~Parsed
    BY <1>6, Zenon DEF Parsed
  <2>6. ~SendBack
    BY <1>1 DEF SendBack
  <2> QED
    BY <2>1, <2>2, <2>3, <2>4, <2>5, <2>6, Zenon DEF Next
<1> DEFINE f == TailOf(rest)
           head == RStripOf(Stripped, SubSeq(rest, 1, f[1] - 1))
           name == StripOf({Space}, SubSeq(rest, f[1] + 1, f[2] - 1))
           tail == StripVal(SubSeq(rest, f[2] + 1, Len(rest)))
<1>9. Takes(Put(Put(out, Key, Str(head)), name, Str(tail)), Len(s) + 1)
  BY <1>5, <1>7, <1>8, Zenon DEF Unterminated, Stripped
<1>10. f[1] - 1 = n + 1 /\ f[1] + 1 = n + 3 /\ f[2] - 1 = n + 3 /\ f[2] + 1 = n + 5
  BY <1>3, <1>5
<1> HIDE DEF f, rest
<1>11. head = RStripOf(Stripped, t.text) /\ name = <<"path">> /\ tail = t.value
  <2>1. /\ RStripOf(Stripped, SubSeq(rest, 1, n + 1)) = RStripOf(Stripped, t.text)
        /\ StripOf({Space}, SubSeq(rest, n + 3, n + 3)) = <<"path">>
        /\ StripVal(SubSeq(rest, n + 5, Len(rest))) = t.value
    BY <1>3, <1>4, RestPieces, Zenon
  <2> QED
    BY <1>10, <2>1, Zenon
<1> HIDE DEF head, name, tail
<1>12. Takes(Recovered(t), Len(s) + 1)
  BY <1>1, <1>2, <1>9, <1>11, Zenon DEF Recovered
<1>13. out' = Recovered(t) /\ i' = Len(s) + 1 /\ s' = s /\ meant' = meant /\ phase' = phase
  BY <1>12, Zenon DEF Takes
<1>14. TailTaken' = (phase' = "parse" /\ i' = Len(s') + 1 /\ out' = Recovered(meant.it)')
  BY DEF TailTaken
<1>15. Recovered(meant.it)' = Recovered(t)
  BY <1>13, Zenon DEF t
<1> QED
  BY <1>1, <1>13, <1>14, <1>15, Zenon
\* Nothing is read behind the end.
LEMMA NothingMore ==
    ASSUME TypeInv, phase = "parse", i = Len(s) + 1, Next
    PROVE  Parsed
<1>1. ~More
  <2>1. Len(s) \in Nat
    BY DEF TypeInv, Text
  <2>2. ~(i <= Len(s))
    BY <2>1
  <2> QED
    BY <2>2, Zenon DEF More
<1>2. ~Literal /\ ~Unterminated /\ ~Quoted
  BY <1>1, Zenon DEF Literal, Unterminated, Quoted, AtValue
<1>3. ~Bare /\ ~Raise
  BY <1>1, Zenon DEF Bare, Raise
<1>4. ~SendBack
  BY DEF SendBack
<1> QED
  BY <1>2, <1>3, <1>4, Zenon DEF Next

\* No round changes what was meant, or what was read before it.
LEMMA RoundKeeps ==
    ASSUME Next, phase = "parse"
    PROVE  meant' = meant /\ s' = s /\ first' = first
<1>1. \A dict, next : Takes(dict, next) => meant' = meant /\ s' = s /\ first' = first
  BY Zenon DEF Takes
<1>2. Literal \/ Unterminated \/ Quoted \/ Bare => meant' = meant /\ s' = s /\ first' = first
  BY <1>1, Zenon DEF Literal, Unterminated, Quoted, Bare
<1>3. Raise \/ Parsed => meant' = meant /\ s' = s /\ first' = first
  BY Zenon DEF Raise, Parsed
<1>4. ~SendBack
  BY DEF SendBack
<1> QED
  BY <1>2, <1>3, <1>4, Zenon DEF Next

\* When nothing is being parsed, a call can only be sent back.
LEMMA ThenSentBack ==
    ASSUME Next, phase # "parse"
    PROVE  SendBack
<1>1. ~Literal /\ ~Unterminated /\ ~Quoted
  BY Zenon DEF Literal, Unterminated, Quoted, AtValue, More
<1>2. ~Bare /\ ~Raise /\ ~Parsed
  BY Zenon DEF Bare, Raise, Parsed, More
<1> QED
  BY <1>1, <1>2, Zenon DEF Next

LEMMA TailNext ==
    ASSUME TypeInv, TailInv, [Next]_vars
    PROVE  TailInv'
<1>1. CASE UNCHANGED vars
  BY <1>1, Zenon DEF TailInv, TailStart, TailTaken, TailDone, vars
<1>2. CASE Next /\ phase # "parse"
  <2>1. meant' = [kind |-> "again", it |-> <<>>]
    BY <1>2, ThenSentBack, SendBackIs, Zenon
  <2>2. meant'.kind # "tail"
    BY <2>1
  <2> QED
    BY <2>2, Zenon DEF TailInv
<1>3. CASE Next /\ phase = "parse"
  <2>1. meant' = meant
    BY <1>3, RoundKeeps
  <2>2. CASE meant.kind # "tail"
    BY <2>1, <2>2, Zenon DEF TailInv
  <2>3. CASE meant.kind = "tail" /\ TailStart
    BY <1>3, <2>3, TailStep, Zenon DEF TailInv
  <2>4. CASE meant.kind = "tail" /\ TailTaken
    <3>1. Parsed
      BY <1>3, <2>4, NothingMore, Zenon DEF TailTaken
    <3>2. out' = NormalizePaths(Recovered(meant.it)) /\ phase' = "parsed"
      BY <2>4, <3>1 DEF Parsed, TailTaken
    <3>3. NormalizePaths(Recovered(meant.it))' = NormalizePaths(Recovered(meant.it))
      BY <2>1, Zenon
    <3> QED
      BY <3>2, <3>3, Zenon DEF TailInv, TailDone
  <2>5. ~TailDone
    BY <1>3 DEF TailDone
  <2> QED
    BY <2>2, <2>3, <2>4, <2>5, Zenon DEF TailInv
<1> QED
  BY <1>1, <1>2, <1>3, Zenon

\* Every broken text, whatever commas and colons its string holds, gives the
\* string before the stray backtick and the path behind it.
THEOREM RecoveryCorrect == Spec => []RecoversTail
<1>1. Init => TailInv
  <2> SUFFICES ASSUME Init, meant.kind = "tail" PROVE TailStart
    BY Zenon DEF TailInv
  <2>1. i = 1 /\ out = <<>> /\ phase = "parse"
    BY Zenon DEF Init
  <2>2. s = WriteTail(<<"a">>, meant.it)
    <3>1. ASSUME NEW pairs \in Given, meant = [kind |-> "given", it |-> pairs] PROVE FALSE
      BY <3>1
    <3>2. ASSUME NEW t \in Tails, meant = [kind |-> "tail", it |-> t] PROVE meant.it = t
      BY <3>2
    <3>3. ASSUME NEW text \in Texts, meant = [kind |-> "text", it |-> text] PROVE FALSE
      BY <3>3
    <3> QED
      BY <3>1, <3>2, <3>3, Zenon DEF Init
  <2> QED
    BY <2>1, <2>2, Zenon DEF TailStart
<1>2. TypeInv /\ TailInv /\ [Next]_vars => TailInv'
  BY TailNext
<1>3. TypeInv /\ TailInv => RecoversTail
  <2> SUFFICES ASSUME TypeInv, TailDone, meant.kind = "tail"
               PROVE  /\ DOMAIN out = {<<"a">>, <<"path">>}
                      /\ out[<<"path">>].is = Replace(meant.it.value)
                      /\ out[<<"a">>].is = RStripOf({Space, Backtick} \cup Quotes, meant.it.text)
    <3>1. phase = "parsed" => ~TailStart /\ ~TailTaken
      BY DEF TailStart, TailTaken
    <3> QED
      BY <3>1, Zenon DEF TailInv, RecoversTail
  <2> DEFINE a == <<"a">>
             p == <<"path">>
             d == Recovered(meant.it)
  <2>1. a # p /\ p \in PathKeys /\ a \notin PathKeys
    BY KeysAssumption
  <2> HIDE DEF a, p
  <2>2. d = Put(Put(<<>>, a, Str(RStripOf(Stripped, meant.it.text))), p, Str(meant.it.value))
    BY Zenon DEF Recovered, a, p
  <2>3. DOMAIN d = {a, p} /\ d[a] = Str(RStripOf(Stripped, meant.it.text)) /\ d[p] = Str(meant.it.value)
    BY <2>1, <2>2 DEF Put
  <2> HIDE DEF d
  <2>4. out = NormalizePaths(d)
    BY Zenon DEF TailDone, d
  <2>5. DOMAIN out = {a, p} /\ out[a] = d[a] /\ out[p] = IF d[p].kind = "str" THEN Str(Replace(d[p].is)) ELSE d[p]
    BY <2>1, <2>3, <2>4 DEF NormalizePaths
  <2>6. d[p].kind = "str" /\ d[p].is = meant.it.value /\ d[a].is = RStripOf(Stripped, meant.it.text)
    BY <2>3 DEF Str
  <2>7. Str(Replace(meant.it.value)).is = Replace(meant.it.value)
    BY DEF Str
  <2>8. out[p].is = Replace(meant.it.value)
    BY <2>5, <2>6, <2>7, Zenon
  <2>9. out[a].is = RStripOf({Space, Backtick} \cup Quotes, meant.it.text)
    BY <2>5, <2>6, Zenon DEF Stripped
  <2> QED
    BY <2>5, <2>8, <2>9, Zenon DEF a, p
<1> QED
  BY <1>1, <1>2, <1>3, TypeCorrect, PTL DEF Spec
-----------------------------------------------------------------------------
(* How deep in brackets *)

Depths(d, from, to) == d = [p \in (from - 1) .. to |-> IF p < from THEN 0 ELSE d[p - 1] + Nesting(s[p])]

LEMMA DepthUnique ==
    ASSUME NEW from \in Nat \ {0}, NEW to \in Int, NEW f, Depths(f, from, to), NEW g, Depths(g, from, to)
    PROVE  g = f
<1> DEFINE S == {k \in Nat : from - 1 + k <= to => f[from - 1 + k] = g[from - 1 + k]}
<1>1. 0 \in S
  <2> SUFFICES ASSUME from - 1 <= to PROVE f[from - 1] = g[from - 1]
    OBVIOUS
  <2>1. from - 1 \in (from - 1) .. to /\ from - 1 < from
    OBVIOUS
  <2> QED
    BY <2>1 DEF Depths
<1>2. ASSUME NEW k \in Nat, k \in S PROVE k + 1 \in S
  <2> SUFFICES ASSUME from - 1 + (k + 1) <= to PROVE f[from - 1 + (k + 1)] = g[from - 1 + (k + 1)]
    OBVIOUS
  <2> DEFINE p == from - 1 + (k + 1)
  <2>1. p \in (from - 1) .. to /\ ~(p < from) /\ p - 1 = from - 1 + k /\ from - 1 + k <= to
    OBVIOUS
  <2>2. f[p - 1] = g[p - 1]
    BY <1>2, <2>1
  <2> HIDE DEF p
  <2>3. f[p] = f[p - 1] + Nesting(s[p]) /\ g[p] = g[p - 1] + Nesting(s[p])
    BY <2>1 DEF Depths
  <2>4. f[p] = g[p]
    BY <2>2, <2>3
  <2> QED
    BY <2>4 DEF p
<1> HIDE DEF S
<1>3. Nat \subseteq S
  BY <1>1, <1>2, Induction
<1>4. ASSUME NEW p \in (from - 1) .. to PROVE f[p] = g[p]
  <2>1. p - (from - 1) \in Nat /\ from - 1 + (p - (from - 1)) = p /\ p <= to
    OBVIOUS
  <2>2. p - (from - 1) \in S
    BY <1>3, <2>1
  <2> QED
    BY <2>1, <2>2 DEF S
<1>5. f = [p \in (from - 1) .. to |-> f[p]] /\ g = [p \in (from - 1) .. to |-> g[p]]
  BY Zenon DEF Depths
<1> QED
  BY <1>4, <1>5

\* The depth is that of any count that follows the brackets.
LEMMA DepthIs ==
    ASSUME NEW from \in Nat \ {0}, NEW to \in Int, NEW f, Depths(f, from, to)
    PROVE  Depth(from, to) = f[to]
<1>1. f = [p \in (from - 1) .. to |-> IF p < from THEN 0 ELSE f[p - 1] + Nesting(s[p])]
  BY DEF Depths
<1>2. ASSUME NEW g, g = [p \in (from - 1) .. to |-> IF p < from THEN 0 ELSE g[p - 1] + Nesting(s[p])]
      PROVE  g = f
  <2>1. Depths(g, from, to)
    BY <1>2 DEF Depths
  <2> QED
    BY <2>1, DepthUnique
<1> QED
  BY <1>1, <1>2 DEF Depth

\* Without brackets it is 0.
LEMMA DepthOutside ==
    ASSUME NEW from \in Nat \ {0}, NEW to \in Int, to >= from - 1, \A p \in from .. to : Nesting(s[p]) = 0
    PROVE  Depth(from, to) = 0
<1> DEFINE f == [p \in (from - 1) .. to |-> 0]
<1>1. ASSUME NEW p \in (from - 1) .. to
      PROVE  0 = IF p < from THEN 0 ELSE f[p - 1] + Nesting(s[p])
  <2>1. CASE p < from
    BY <2>1
  <2>2. CASE ~(p < from)
    <3>1. p \in from .. to /\ p - 1 \in (from - 1) .. to
      BY <2>2
    <3>2. f[p - 1] = 0 /\ Nesting(s[p]) = 0
      BY <3>1
    <3> QED
      BY <2>2, <3>2
  <2> QED
    BY <2>1, <2>2
<1>2. f = [p \in (from - 1) .. to |-> IF p < from THEN 0 ELSE f[p - 1] + Nesting(s[p])]
  BY <1>1
<1>3. to \in (from - 1) .. to
  OBVIOUS
<1>4. f[to] = 0
  BY <1>3
<1> HIDE DEF f
<1>5. Depths(f, from, to)
  BY <1>2, Zenon DEF Depths
<1> QED
  BY <1>4, <1>5, DepthIs

\* Between a bracket and the one that closes it, it is 1.
LEMMA DepthInside ==
    ASSUME NEW from \in Nat \ {0}, NEW to \in Int, NEW last \in Int, from < last, from <= to, to <= last,
           Nesting(s[from]) = 1, Nesting(s[last]) = -1, \A p \in from + 1 .. last - 1 : Nesting(s[p]) = 0
    PROVE  Depth(from, to) = IF to = last THEN 0 ELSE 1
<1> DEFINE f == [p \in (from - 1) .. to |-> IF p < from \/ p = last THEN 0 ELSE 1]
<1>1. ASSUME NEW p \in (from - 1) .. to
      PROVE  f[p] = IF p < from THEN 0 ELSE f[p - 1] + Nesting(s[p])
  <2>1. CASE p < from
    BY <2>1
  <2>2. CASE p = from
    <3>1. p - 1 \in (from - 1) .. to /\ p - 1 < from /\ p # last
      BY <2>2
    <3>2. f[p - 1] = 0 /\ f[p] = 1 /\ Nesting(s[p]) = 1
      BY <2>2, <3>1
    <3> QED
      BY <2>2, <3>2
  <2>3. CASE p \in from + 1 .. last - 1
    <3>1. p - 1 \in (from - 1) .. to /\ ~(p - 1 < from) /\ p - 1 # last /\ p # last /\ ~(p < from)
      BY <2>3
    <3>2. f[p - 1] = 1 /\ f[p] = 1 /\ Nesting(s[p]) = 0
      BY <2>3, <3>1
    <3> QED
      BY <3>1, <3>2
  <2>4. CASE p = last
    <3>1. p - 1 \in (from - 1) .. to /\ ~(p - 1 < from) /\ p - 1 # last /\ ~(p < from)
      BY <2>4
    <3>2. f[p - 1] = 1 /\ f[p] = 0 /\ Nesting(s[p]) = -1
      BY <2>4, <3>1
    <3> QED
      BY <3>1, <3>2
  <2> QED
    BY <2>1, <2>2, <2>3, <2>4
<1>2. to \in (from - 1) .. to /\ ~(to < from)
  OBVIOUS
<1>3. f[to] = IF to = last THEN 0 ELSE 1
  BY <1>2
<1>4. f = [p \in (from - 1) .. to |-> f[p]]
  OBVIOUS
<1> HIDE DEF f
<1>5. Depths(f, from, to)
  BY <1>1, <1>4 DEF Depths
<1> QED
  BY <1>3, <1>5, DepthIs

\* Where a value ends that is not in quotes.
LEMMA BareEndIs ==
    ASSUME s \in Text, ValueFrom \in Nat \ {0}, NEW e \in Nat, ValueFrom <= e, e <= Len(s),
           e = Len(s) \/ s[e + 1] = "comma", Depth(ValueFrom, e) = 0,
           \A p \in ValueFrom .. e : s[p] = "comma" => Depth(ValueFrom, p - 1) = 1
    PROVE  BareEnd = e + 1
<1> DEFINE v == ValueFrom
           l == Len(s)
           ends == {p \in v .. l : s[p] = "comma" /\ Depth(v, p - 1) <= 0} \cup {l + 1}
<1>1. v \in Nat \ {0} /\ l \in Nat /\ v <= e /\ e <= l /\ BareEnd = Min(ends)
  BY DEF BareEnd, Text
<1>2. (e + 1) \in ends
  <2>1. CASE e = l
    BY <2>1
  <2>2. CASE e # l
    <3>1. (e + 1) \in v .. l /\ (e + 1) - 1 = e
      BY <1>1, <2>2
    <3>2. s[e + 1] = "comma" /\ Depth(v, (e + 1) - 1) = 0
      BY <2>2, <3>1
    <3> QED
      BY <3>1, <3>2
  <2> QED
    BY <2>1, <2>2
<1>3. ASSUME NEW p \in ends PROVE e + 1 <= p /\ p \in Nat
  <2>1. CASE p = l + 1
    BY <1>1, <2>1
  <2>2. CASE p \in v .. l /\ s[p] = "comma" /\ Depth(v, p - 1) <= 0
    <3> SUFFICES ASSUME ~(e + 1 <= p) PROVE FALSE
      BY <1>1, <2>2
    <3>1. p \in v .. e
      BY <1>1, <2>2
    <3>2. Depth(v, p - 1) = 1
      BY <2>2, <3>1
    <3> QED
      BY <2>2, <3>2
  <2> QED
    BY <2>1, <2>2
<1>4. ends \in SUBSET Nat /\ ends # {}
  BY <1>2, <1>3
<1> HIDE DEF ends
<1>5. Min(ends) \in ends /\ \A y \in ends : Min(ends) <= y
  BY <1>4, LeastOf, Zenon
<1>6. Min(ends) <= e + 1 /\ e + 1 <= Min(ends) /\ Min(ends) \in Nat
  BY <1>2, <1>3, <1>5
<1> QED
  BY <1>1, <1>6
-----------------------------------------------------------------------------
(* A list, as it is written and read *)

\* A string, as it is written.
LEMMA StrWritten ==
    ASSUME NEW text \in Text, NEW W, W = Write(Str(text))
    PROVE  /\ Len(W) = Len(text) + 2 /\ Len(text) \in Nat /\ W[1] = Q /\ W[Len(text) + 2] = Q
           /\ \A j \in 1 .. Len(text) : W[1 + j] = text[j]
<1> DEFINE a == <<Q>>
           b == a \o text
           c == b \o a
           m == Len(text)
<1>1. a \in Text /\ Len(a) = 1 /\ a[1] = Q
  BY SymbolsAre DEF Text
<1>2. W = c
  BY WriteIs, Zenon
<1> HIDE DEF a, b, c, m
<1>3. m \in Nat /\ b \in Text /\ Len(b) = 1 + m /\ b[1] = Q /\ \A j \in 1 .. m : b[1 + j] = text[j]
  <2>1. Joint(a, text, b)
    BY <1>1, JoinOf, Zenon DEF b
  <2> QED
    BY <1>1, <2>1 DEF Joint, m
<1>4. Len(c) = 1 + m + 1 /\ c[1 + m + 1] = Q /\ \A j \in 1 .. 1 + m : c[j] = b[j]
  <2>1. Joint(b, a, c)
    BY <1>1, <1>3, JoinOf, Zenon DEF c
  <2> QED
    BY <1>1, <1>3, <2>1 DEF Joint
<1>5. Len(c) = m + 2 /\ c[m + 2] = Q /\ c[1] = Q
  BY <1>3, <1>4
<1>6. \A j \in 1 .. m : c[1 + j] = text[j]
  <2> SUFFICES ASSUME NEW j \in 1 .. m PROVE c[1 + j] = text[j]
    OBVIOUS
  <2>1. 1 + j \in 1 .. 1 + m
    BY <1>3
  <2>2. c[1 + j] = b[1 + j]
    BY <1>4, <2>1, Zenon
  <2> QED
    BY <1>3, <2>2
<1> QED
  BY <1>2, <1>3, <1>5, <1>6, Zenon DEF m

LEMMA QuoteIs ==
    ASSUME NEW text \in Text
    PROVE  /\ Quote(text) \in Text /\ Len(Quote(text)) = Len(text) + 2 /\ Len(text) \in Nat
           /\ Quote(text)[1] = Q /\ Quote(text)[Len(text) + 2] = Q
           /\ \A j \in 1 .. Len(text) : Quote(text)[1 + j] = text[j]
<1>1. Quote(text) = Write(Str(text))
  BY WriteIs, Zenon DEF Quote
<1>2. Write(Str(text)) \in Text
  BY WriteText, ValuesAre, Zenon
<1> QED
  BY <1>1, <1>2, StrWritten, Zenon

\* The strings of a list hold no bracket, and nothing that JSON does not take as it is.
PlainTexts(w) ==
    \A k \in 1 .. Len(w) : \A j \in 1 .. Len(w[k]) : w[k][j] \notin Brackets \cup {Q, "double", "backslash"}

LEMMA PlainList ==
    ASSUME NEW w, Plain(List(w))
    PROVE  PlainTexts(w)
<1>1. List(w).kind = "list" /\ List(w).is = w
  BY DEF List
<1>2. Strings(List(w)) = {w[k] : k \in 1 .. Len(w)}
  BY <1>1 DEF Strings
<1> QED
  BY <1>1, <1>2 DEF Plain, PlainTexts, Contains

\* Behind the bracket come its strings, each in quotes, with commas between them.
ListAt(W, w, f) ==
    /\ Len(w) \in Nat /\ Joins(f, Items(w), Len(w))
    /\ Len(f[Len(w)]) \in Nat /\ Len(W) = Len(f[Len(w)]) + 2
    /\ W \in Text /\ W[1] = "lbrack" /\ W[Len(W)] = "rbrack"
    /\ \A p \in 1 .. Len(f[Len(w)]) : W[1 + p] = f[Len(w)][p]

LEMMA ItemsAre ==
    ASSUME NEW w \in Seq(Text)
    PROVE  /\ Len(w) \in Nat /\ Len(Items(w)) = Len(w)
           /\ \A k \in 1 .. Len(w) : w[k] \in Text /\ Items(w)[k] = Quote(w[k]) /\ Items(w)[k] \in Seq(Symbols)
<1>1. Len(w) \in Nat /\ \A k \in 1 .. Len(w) : w[k] \in Text
  OBVIOUS
<1>2. Len(Items(w)) = Len(w) /\ \A k \in 1 .. Len(w) : Items(w)[k] = Quote(w[k])
  BY <1>1 DEF Items
<1>3. \A k \in 1 .. Len(w) : Quote(w[k]) \in Seq(Symbols)
  BY <1>1, QuoteIs, Zenon DEF Text
<1> QED
  BY <1>1, <1>2, <1>3

LEMMA ListWritten ==
    ASSUME NEW w \in Seq(Text)
    PROVE  \E f : ListAt(Write(List(w)), w, f)
<1> DEFINE n == Len(w)
           items == Items(w)
           a == <<"lbrack">>
           z == <<"rbrack">>
<1>1. n \in Nat /\ Len(items) = n /\ \A k \in 1 .. n : items[k] \in Seq(Symbols)
  BY ItemsAre
<1>2. a \in Text /\ Len(a) = 1 /\ a[1] = "lbrack" /\ z \in Text /\ Len(z) = 1 /\ z[1] = "rbrack" /\ "comma" \in Symbols
  BY SymbolsAre DEF Text
<1> HIDE DEF a, z, n, items
<1>3. PICK f : Joins(f, items, n)
  BY <1>1, JoinsExist, Zenon
<1> DEFINE j == f[n]
           b == a \o j
           q == b \o z
<1>4. j \in Text
  <2>1. n \in 0 .. n
    BY <1>1
  <2>2. \A k \in 0 .. n : f[k] \in Seq(Symbols)
    BY <1>1, <1>2, <1>3, JoinsHas, Zenon
  <2> QED
    BY <2>1, <2>2, Zenon DEF Text
<1>5. Write(List(w)) = q
  <2>1. Joined(items) = j
    BY <1>1, <1>3, JoinedIs, Zenon
  <2> QED
    BY <2>1, WriteIs, Zenon DEF items, a, z
<1> HIDE DEF j, b, q
<1> DEFINE l == Len(j)
<1>6. l \in Nat /\ b \in Text /\ Len(b) = 1 + l /\ b[1] = "lbrack" /\ \A p \in 1 .. l : b[1 + p] = j[p]
  <2>1. Joint(a, j, b)
    BY <1>2, <1>4, JoinOf, Zenon DEF b
  <2> QED
    BY <1>2, <2>1 DEF Joint
<1> HIDE DEF l
<1>7. q \in Text /\ Len(q) = l + 2 /\ q[l + 2] = "rbrack" /\ \A p \in 1 .. 1 + l : q[p] = b[p]
  <2>1. Joint(b, z, q)
    BY <1>2, <1>6, JoinOf, Zenon DEF q
  <2>2. Len(q) = 1 + l + 1 /\ q[1 + l + 1] = "rbrack" /\ q \in Text /\ \A p \in 1 .. 1 + l : q[p] = b[p]
    BY <1>2, <1>6, <2>1 DEF Joint
  <2> QED
    BY <1>6, <2>2
<1>8. ASSUME NEW p \in 1 .. l PROVE q[1 + p] = j[p]
  <2>1. 1 + p \in 1 .. 1 + l
    BY <1>6
  <2>2. q[1 + p] = b[1 + p]
    BY <1>7, <2>1, Zenon
  <2> QED
    BY <1>6, <2>2
<1>9. q[1] = "lbrack"
  BY <1>6, <1>7
<1>10. ListAt(q, w, f)
  BY <1>1, <1>3, <1>6, <1>7, <1>8, <1>9, Zenon DEF ListAt, n, items, j, l
<1> QED
  BY <1>5, <1>10, Zenon

\* Between its brackets there are no others.
LEMMA ListInside ==
    ASSUME NEW w \in Seq(Text), PlainTexts(w), NEW W, NEW f, ListAt(W, w, f), NEW p \in 2 .. Len(W) - 1
    PROVE  W[p] \notin Brackets
<1> DEFINE T == Symbols \ Brackets
           n == Len(w)
           items == Items(w)
           j == f[n]
           l == Len(j)
<1>1. n \in Nat /\ \A k \in 1 .. n : w[k] \in Text /\ items[k] = Quote(w[k])
  BY ItemsAre
<1>2. "comma" \in T /\ Q \in T
  BY SymbolsAre DEF Brackets, Q
<1>3. Joins(f, items, n) /\ l \in Nat /\ Len(W) = l + 2 /\ \A k \in 1 .. l : W[1 + k] = j[k]
  BY Zenon DEF ListAt
<1> HIDE DEF T, n, items
<1>4. ASSUME NEW k \in 1 .. n PROVE items[k] \in Seq(T)
  <2> DEFINE x == Quote(w[k])
             m == Len(w[k])
  <2>1. /\ x \in Text /\ Len(x) = m + 2 /\ m \in Nat /\ x[1] = Q /\ x[m + 2] = Q
        /\ \A h \in 1 .. m : x[1 + h] = w[k][h]
    BY <1>1, QuoteIs, Zenon
  <2>2. \A h \in 1 .. m : w[k][h] \in T
    BY <1>1 DEF PlainTexts, T, Text, n
  <2> HIDE DEF x, m
  <2>3. ASSUME NEW h \in 1 .. Len(x) PROVE x[h] \in T
    <3>1. CASE h = 1 \/ h = m + 2
      BY <1>2, <2>1, <3>1
    <3>2. CASE h # 1 /\ h # m + 2
      <4>1. h - 1 \in 1 .. m /\ 1 + (h - 1) = h
        BY <2>1, <3>2
      <4> QED
        BY <2>1, <2>2, <4>1
    <3> QED
      BY <3>1, <3>2
  <2>4. x \in Seq(T)
    BY <2>1, <2>3 DEF Text
  <2> QED
    BY <1>1, <2>4, Zenon DEF x
<1>5. \A k \in 0 .. n : f[k] \in Seq(T)
  BY <1>1, <1>2, <1>3, <1>4, JoinsHas, Zenon
<1>6. j \in Seq(T)
  <2>1. n \in 0 .. n
    BY <1>1
  <2> QED
    BY <1>5, <2>1, Zenon
<1> HIDE DEF j
<1>7. p - 1 \in 1 .. l /\ 1 + (p - 1) = p
  BY <1>3
<1>8. W[p] = j[p - 1] /\ j[p - 1] \in T
  <2>1. W[1 + (p - 1)] = j[p - 1]
    BY <1>3, <1>7, Zenon
  <2>2. j[p - 1] \in T
    BY <1>6, <1>7
  <2> QED
    BY <1>7, <2>1, <2>2, Zenon
<1> QED
  BY <1>8 DEF T

\* Where its strings are.
PieceAt(W, text, from, to, b, first1) ==
    /\ b \in Nat /\ from \in Nat /\ 1 + to = b + Len(text) + 2 /\ 1 + to < Len(W)
    /\ IF first1 THEN b = 1 + from ELSE b = 1 + from + 1 /\ W[b] = "comma"
    /\ W[b + 1] = Q /\ W[b + Len(text) + 2] = Q
    /\ \A j \in 1 .. Len(text) : W[b + 1 + j] = text[j]

LEMMA ListPieces ==
    ASSUME NEW w \in Seq(Text), NEW W, NEW f, ListAt(W, w, f), NEW k \in 1 .. Len(w)
    PROVE  PieceAt(W, w[k], Len(f[k - 1]), Len(f[k]), 1 + Begins(f, k), k = 1)
<1> DEFINE n == Len(w)
           b == 1 + Begins(f, k)
           items == Items(w)
           x == Quote(w[k])
           m == Len(w[k])
           c == Begins(f, k)
           g == f[k]
           h == f[k - 1]
           l == Len(g)
<1>1. /\ n \in Nat /\ \A o \in 1 .. n : items[o] \in Seq(Symbols)
      /\ items[k] = x /\ w[k] \in Text
  BY ItemsAre
<1>2. Len(x) = m + 2 /\ m \in Nat /\ x[1] = Q /\ x[m + 2] = Q /\ \A j \in 1 .. m : x[1 + j] = w[k][j]
  BY <1>1, QuoteIs, Zenon
<1>3. /\ Joins(f, items, n) /\ Len(f[n]) \in Nat /\ Len(W) = Len(f[n]) + 2
      /\ \A p \in 1 .. Len(f[n]) : W[1 + p] = f[n][p]
  BY Zenon DEF ListAt
<1>4. "comma" \in Symbols
  BY SymbolsAre
<1> HIDE DEF n, items, x, m
<1>5. k \in 1 .. n /\ k - 1 \in 0 .. n /\ k \in 0 .. n
  BY <1>1 DEF n
<1>6. /\ \A o \in 0 .. n : f[o] \in Seq(Symbols)
      /\ l = c + Len(items[k])
      /\ k > 1 => g[Len(h) + 1] = "comma"
      /\ \A j \in 1 .. Len(items[k]) : g[c + j] = items[k][j]
  BY <1>1, <1>3, <1>4, <1>5, JoinsHas
<1>7. l <= Len(f[n]) /\ \A j \in 1 .. l : f[n][j] = g[j]
  BY <1>1, <1>3, <1>4, <1>5, JoinsKeep, SMTT(30)
<1>8. Len(h) \in Nat /\ l \in Nat
  BY <1>5, <1>6
<1>9. c = Len(h) + (IF k = 1 THEN 0 ELSE 1)
  BY Zenon DEF Begins
<1> HIDE DEF c, g, h, l, b
<1>10. c \in Nat /\ l = c + m + 2 /\ \A j \in 1 .. m + 2 : g[c + j] = x[j]
  <2>1. c \in Nat
    BY <1>8, <1>9
  <2>2. Len(items[k]) = m + 2
    BY <1>1, <1>2, Zenon
  <2>3. l = c + (m + 2) /\ m \in Nat
    BY <1>2, <1>6, <2>2, Zenon
  <2>4. \A j \in 1 .. m + 2 : g[c + j] = x[j]
    BY <1>1, <1>6, <2>2, Zenon
  <2> QED
    BY <2>1, <2>3, <2>4
<1>11. \A j \in 1 .. l : W[1 + j] = g[j]
  BY <1>3, <1>7, <1>8
<1>12. b \in Nat /\ b = 1 + c /\ 1 + l = b + m + 2 /\ 1 + l < Len(W)
  <2>1. b = 1 + c
    BY Zenon DEF c, b
  <2>2. m \in Nat /\ c \in Nat /\ l \in Nat /\ l = c + m + 2
    BY <1>2, <1>8, <1>10, Zenon
  <2> DEFINE z == Len(f[n])
             y == Len(W)
  <2>3. z \in Nat /\ y = z + 2 /\ l <= z
    BY <1>3, <1>7, Zenon
  <2> HIDE DEF z, y
  <2>4. 1 + l = b + m + 2 /\ 1 + l < y /\ b \in Nat
    BY <2>1, <2>2, <2>3
  <2> QED
    BY <2>1, <2>4, Zenon DEF y
<1>13. \A j \in 1 .. m + 2 : W[b + j] = x[j]
  <2> SUFFICES ASSUME NEW j \in 1 .. m + 2 PROVE W[b + j] = x[j]
    OBVIOUS
  <2>1. c + j \in 1 .. l /\ 1 + (c + j) = b + j
    <3>1. m \in Nat /\ c \in Nat /\ l = c + m + 2 /\ b = 1 + c
      BY <1>2, <1>10, <1>12, Zenon
    <3> QED
      BY <3>1
  <2>2. W[1 + (c + j)] = g[c + j]
    BY <1>11, <2>1, Zenon
  <2> QED
    BY <1>10, <2>1, <2>2
<1>14. W[b + 1] = Q /\ W[b + m + 2] = Q
  <2>1. 1 \in 1 .. m + 2 /\ m + 2 \in 1 .. m + 2 /\ b + (m + 2) = b + m + 2
    BY <1>2, <1>12
  <2> QED
    BY <1>2, <1>13, <2>1
<1>15. ASSUME NEW j \in 1 .. m PROVE W[b + 1 + j] = w[k][j]
  <2>1. 1 + j \in 1 .. m + 2 /\ b + (1 + j) = b + 1 + j
    BY <1>2, <1>12
  <2>2. W[b + (1 + j)] = x[1 + j]
    BY <1>13, <2>1, Zenon
  <2> QED
    BY <1>2, <2>1, <2>2
<1>16. IF k = 1 THEN b = 1 + Len(h) ELSE b = 1 + Len(h) + 1 /\ W[b] = "comma"
  <2>1. CASE k = 1
    BY <1>8, <1>9, <1>12, <2>1
  <2>2. CASE k # 1
    <3>1. k > 1 /\ c = Len(h) + 1 /\ c \in 1 .. l
      BY <1>2, <1>5, <1>8, <1>9, <1>10, <2>2
    <3>2. W[1 + c] = g[c] /\ g[c] = "comma"
      BY <1>6, <1>11, <3>1
    <3> QED
      BY <1>8, <1>12, <2>2, <3>1, <3>2
  <2> QED
    BY <2>1, <2>2
<1> QED
  BY <1>8, <1>12, <1>14, <1>15, <1>16, Zenon DEF PieceAt, m, h, l, g, b

\* A plain string in quotes is read as it is.
LEMMA StringRead ==
    ASSUME NEW W \in Text, NEW r, JsonRuns(r, W), NEW b \in Nat, NEW text \in Text,
           b + Len(text) + 2 <= Len(W), W[b + 1] = Q, W[b + Len(text) + 2] = Q,
           \A j \in 1 .. Len(text) : W[b + 1 + j] = text[j] /\ text[j] \notin {Q, "double", "backslash"},
           NEW q \in Seq(Text), NEW at \in {"first", "next"}, r[b] = Reader(at, q)
    PROVE  r[b + Len(text) + 2] = Reader("behind", Append(q, text))
<1> DEFINE m == Len(text)
           Begun(j) == SubSeq(text, 1, j)
           S == {j \in Nat : j <= m => r[b + 1 + j] = Reader("string", Append(q, Begun(j)))}
<1>1. m \in Nat /\ Len(W) \in Nat
  BY DEF Text
<1>2. ASSUME NEW p \in 1 .. Len(W) PROVE r[p] = JsonRead(r[p - 1], W[p])
  <2>1. p \in 0 .. Len(W) /\ p # 0
    BY <1>1
  <2> QED
    BY <2>1 DEF JsonRuns
<1>3. \A a, x : Reader(a, x).at = a /\ Reader(a, x).is = x
  BY DEF Reader
<1>4. 0 \in S
  <2>1. b + 1 \in 1 .. Len(W) /\ (b + 1) - 1 = b /\ b + 1 + 0 = b + 1
    BY <1>1
  <2>2. r[b + 1] = JsonRead(Reader(at, q), Q)
    BY <1>2, <2>1
  <2>3. r[b + 1] = Reader("string", Append(q, <<>>))
    BY <1>3, <2>2, JsonReads
  <2>4. Begun(0) = <<>>
    BY DEF Text
  <2> QED
    BY <2>1, <2>3, <2>4
<1>5. ASSUME NEW j \in Nat, j \in S PROVE j + 1 \in S
  <2> SUFFICES ASSUME j + 1 <= m PROVE r[b + 1 + (j + 1)] = Reader("string", Append(q, Begun(j + 1)))
    OBVIOUS
  <2> DEFINE h == Begun(j)
             c == text[j + 1]
  <2>1. r[b + 1 + j] = Reader("string", Append(q, h))
    BY <1>1, <1>5
  <2>2. b + 1 + (j + 1) \in 1 .. Len(W) /\ (b + 1 + (j + 1)) - 1 = b + 1 + j /\ j + 1 \in 1 .. m
    BY <1>1
  <2>3. W[b + 1 + (j + 1)] = c /\ c \notin {Q, "double", "backslash"}
    BY <2>2
  <2>4. h \in Text /\ c \in Symbols /\ Begun(j + 1) = Append(h, c)
    BY <1>1, <2>2 DEF Text
  <2> HIDE DEF h, c, Begun, S
  <2>5. r[b + 1 + (j + 1)] = JsonRead(Reader("string", Append(q, h)), c)
    BY <1>2, <2>1, <2>2, <2>3
  <2>6. r[b + 1 + (j + 1)] = Reader("string", Longer(Append(q, h), c))
    <3> DEFINE o == Reader("string", Append(q, h))
    <3>1. o.at = "string" /\ o.is = Append(q, h)
      BY <1>3, Zenon
    <3> HIDE DEF o
    <3>2. JsonRead(o, c) = Reader("string", Longer(o.is, c))
      BY <2>3, <3>1, JsonReads
    <3> QED
      BY <2>5, <3>1, <3>2, Zenon DEF o
  <2>7. Longer(Append(q, h), c) = Append(q, Append(h, c))
    BY <2>4, LongerIs, Zenon
  <2> QED
    BY <2>4, <2>6, <2>7, Zenon
<1>6. Nat \subseteq S
  <2> HIDE DEF S
  <2> QED
    BY <1>4, <1>5, Induction
<1>7. r[b + 1 + m] = Reader("string", Append(q, text))
  <2>1. Begun(m) = text
    BY DEF Text
  <2>2. m \in S
    <3> HIDE DEF S
    <3> QED
      BY <1>1, <1>6
  <2>3. m <= m => r[b + 1 + m] = Reader("string", Append(q, Begun(m)))
    BY <2>2, Zenon
  <2> HIDE DEF Begun
  <2> QED
    BY <1>1, <2>1, <2>3
<1>8. b + m + 2 \in 1 .. Len(W) /\ (b + m + 2) - 1 = b + 1 + m
  BY <1>1
<1>9. r[b + m + 2] = JsonRead(Reader("string", Append(q, text)), Q)
  BY <1>2, <1>7, <1>8
<1> QED
  BY <1>3, <1>9, JsonReads

\* A list of plain strings is read as what it is.
LEMMA ListReads ==
    ASSUME NEW w \in Seq(Text), PlainTexts(w)
    PROVE  Json(Write(List(w))) = Reader("end", w)
<1> DEFINE W == Write(List(w))
           n == Len(w)
<1>1. PICK f : ListAt(W, w, f)
  BY ListWritten, Zenon
<1> HIDE DEF W
<1>2. /\ n \in Nat /\ Len(f[n]) \in Nat /\ Len(W) = Len(f[n]) + 2 /\ W \in Text
      /\ W[1] = "lbrack" /\ W[Len(W)] = "rbrack" /\ Joins(f, Items(w), n)
  BY <1>1, Zenon DEF ListAt
<1>3. Len(W) \in Nat
  BY <1>2
<1>4. PICK r : JsonRuns(r, W)
  BY <1>3, JsonRunsExist, Zenon
<1>5. ASSUME NEW p \in 1 .. Len(W) PROVE r[p] = JsonRead(r[p - 1], W[p])
  <2>1. p \in 0 .. Len(W) /\ p # 0
    BY <1>3
  <2> QED
    BY <1>4, <2>1 DEF JsonRuns
<1>6. \A a, x : Reader(a, x).at = a /\ Reader(a, x).is = x
  BY DEF Reader
<1> DEFINE Begun(k) == SubSeq(w, 1, k)
           At(k) == IF k = 0 THEN "first" ELSE "behind"
           S == {k \in Nat : k <= n => r[1 + Len(f[k])] = Reader(At(k), Begun(k))}
<1>7. r[1] = Reader("first", <<>>)
  <2>1. 1 \in 1 .. Len(W) /\ 1 - 1 = 0 /\ 0 \in 0 .. Len(W)
    BY <1>2
  <2>2. r[0] = Reader("start", <<>>)
    BY <1>4, <2>1 DEF JsonRuns
  <2>3. r[1] = JsonRead(Reader("start", <<>>), "lbrack")
    BY <1>2, <1>5, <2>1, <2>2
  <2> QED
    BY <1>6, <2>3, JsonReads
<1>8. 0 \in S
  <2>1. f[0] = <<>>
    BY <1>2 DEF Joins
  <2>2. Len(f[0]) = 0 /\ Begun(0) = <<>>
    BY <2>1
  <2>3. r[1 + Len(f[0])] = Reader(At(0), Begun(0))
    <3>1. 1 + Len(f[0]) = 1 /\ At(0) = "first"
      BY <2>2
    <3> QED
      BY <1>7, <2>2, <3>1
  <2> QED
    BY <2>3
<1>9. ASSUME NEW k \in Nat, k \in S PROVE k + 1 \in S
  <2> SUFFICES ASSUME k + 1 <= n PROVE r[1 + Len(f[k + 1])] = Reader(At(k + 1), Begun(k + 1))
    OBVIOUS
  <2> DEFINE b == 1 + Begins(f, k + 1)
             t == w[k + 1]
             m == Len(t)
             h == Begun(k)
             l == Len(f[k])
             e == Len(f[k + 1])
  <2>0. k + 1 \in 1 .. n /\ (k + 1) - 1 = k /\ t \in Text
    BY <1>2
  <2>1. /\ b \in Nat /\ l \in Nat /\ 1 + e = b + m + 2 /\ 1 + e < Len(W)
        /\ IF k + 1 = 1 THEN b = 1 + l ELSE b = 1 + l + 1 /\ W[b] = "comma"
        /\ W[b + 1] = Q /\ W[b + m + 2] = Q
        /\ \A j \in 1 .. m : W[b + 1 + j] = t[j]
    <3> HIDE DEF n, b, t, m, l, e
    <3>1. k + 1 \in 1 .. Len(w)
      BY <2>0 DEF n
    <3>2. PieceAt(W, w[k + 1], Len(f[(k + 1) - 1]), Len(f[k + 1]), 1 + Begins(f, k + 1), k + 1 = 1)
      BY <1>1, <3>1, ListPieces, Zenon
    <3>3. PieceAt(W, t, l, e, b, k + 1 = 1)
      BY <2>0, <3>2, Zenon DEF t, l, e, b
    <3> QED
      BY <3>3, Zenon DEF PieceAt, m
  <2>2. \A j \in 1 .. m : t[j] \notin {Q, "double", "backslash"}
    BY <2>0 DEF PlainTexts
  <2>3. r[1 + l] = Reader(At(k), h)
    BY <1>9, <2>0
  <2>4. h \in Seq(Text) /\ Begun(k + 1) = Append(h, t)
    BY <1>2
  <2>5. m \in Nat
    BY <2>0 DEF Text
  <2> HIDE DEF b, t, m, h, l, e, Begun
  <2>6. r[b] = Reader("first", h) \/ r[b] = Reader("next", h)
    <3>1. CASE k = 0
      BY <2>1, <2>3, <3>1
    <3>2. CASE k # 0
      <4>1. k + 1 # 1 /\ At(k) = "behind"
        BY <3>2
      <4>2. b = 1 + l + 1 /\ W[b] = "comma" /\ b \in 1 .. Len(W) /\ b - 1 = 1 + l
        BY <1>3, <2>1, <2>5, <4>1
      <4>3. r[b] = JsonRead(Reader("behind", h), "comma")
        BY <1>5, <2>3, <4>1, <4>2
      <4> QED
        BY <1>6, <4>3, JsonReads
    <3> QED
      BY <3>1, <3>2
  <2>7. b + m + 2 <= Len(W)
    <3>1. 1 + e \in Int
      BY <2>1, <2>5
    <3> QED
      BY <1>3, <2>1, <3>1
  <2>8. r[b + m + 2] = Reader("behind", Append(h, t))
    <3>1. \A j \in 1 .. Len(t) : W[b + 1 + j] = t[j] /\ t[j] \notin {Q, "double", "backslash"}
      BY <2>1, <2>2 DEF m
    <3>2. b + Len(t) + 2 <= Len(W) /\ W[b + 1] = Q /\ W[b + Len(t) + 2] = Q
      BY <2>1, <2>7 DEF m
    <3>3. PICK at \in {"first", "next"} : r[b] = Reader(at, h)
      BY <2>6
    <3>4. b \in Nat /\ t \in Text
      BY <2>0, <2>1
    <3>5. h \in Seq(Text) /\ W \in Text
      BY <1>2, <2>4
    <3>6. r[b + Len(t) + 2] = Reader("behind", Append(h, t))
      BY <1>4, <3>1, <3>2, <3>3, <3>4, <3>5, StringRead
    <3> QED
      BY <3>6, Zenon DEF m
  <2> QED
    <3>1. At(k + 1) = "behind"
      OBVIOUS
    <3> QED
      BY <2>1, <2>4, <2>8, <3>1, Zenon DEF e
<1>10. Nat \subseteq S
  <2> HIDE DEF S
  <2> QED
    BY <1>8, <1>9, Induction
<1>11. r[1 + Len(f[n])] = Reader(At(n), w)
  <2>1. Begun(n) = w
    OBVIOUS
  <2>2. n \in S
    <3> HIDE DEF S
    <3> QED
      BY <1>2, <1>10
  <2>3. n <= n => r[1 + Len(f[n])] = Reader(At(n), Begun(n))
    BY <2>2, Zenon
  <2> HIDE DEF n, At, Begun
  <2>4. n <= n
    BY <1>2
  <2> QED
    BY <2>1, <2>3, <2>4, Zenon
<1>12. Len(W) \in 1 .. Len(W) /\ Len(W) - 1 = 1 + Len(f[n])
  BY <1>2
<1>13. r[Len(W)] = JsonRead(Reader(At(n), w), "rbrack")
  BY <1>2, <1>5, <1>11, <1>12
<1>14. At(n) \in {"first", "behind"}
  OBVIOUS
<1> HIDE DEF At
<1>15. r[Len(W)] = Reader("end", w)
  BY <1>6, <1>13, <1>14, JsonReads
<1> QED
  BY <1>3, <1>4, <1>15, JsonIs, Zenon DEF W

\* Of the values the template writes as an object, the plain one is {}.
LEMMA PlainDict == ASSUME NEW v, Plain(v), v.kind = "dict" PROVE v = EmptyDict
BY DEF Plain

\* What a plain value that is written begins and ends with.
LEMMA WriteShape ==
    ASSUME NEW v \in Values, Plain(v)
    PROVE  /\ Write(v) \in Text /\ Len(Write(v)) \in Nat /\ Len(Write(v)) >= 1
           /\ Write(v)[1] \notin {Space} \cup Quotes /\ Write(v)[Len(Write(v))] \notin {Space}
           /\ v.kind # "str" => Write(v)[1] # Q
<1> DEFINE q == Write(v)
<1>0. q \in Text /\ Len(q) \in Nat
  BY WriteText DEF Text
<1>1. Q \notin {Space} \cup Quotes /\ "1" \notin {Space} \cup Quotes /\ "lbrace" \notin {Space} \cup Quotes
      /\ "lbrack" \notin {Space} \cup Quotes /\ "rbrace" # Space /\ "rbrack" # Space
      /\ "1" # Q /\ "lbrace" # Q /\ "lbrack" # Q
  BY DEF Q, Space, Quotes
<1> HIDE DEF q
<1>2. ASSUME v.kind = "str", v.is \in Text, v = Str(v.is)
      PROVE  Len(q) >= 1 /\ q[1] = Q /\ q[Len(q)] = Q
  <2> DEFINE a == <<Q>>
             b == a \o v.is
             c == b \o a
  <2>1. a \in Text /\ Len(a) = 1 /\ a[1] = Q
    BY SymbolsAre DEF Text
  <2> HIDE DEF a
  <2>2. Joint(a, v.is, b)
    BY <1>2, <2>1, JoinOf, Zenon
  <2>3. b \in Text
    BY <2>2, Zenon DEF Joint
  <2>4. Joint(b, a, c)
    BY <2>1, <2>3, JoinOf, Zenon
  <2>5. q = c
    BY <1>2, WriteIs, Zenon DEF q, a
  <2> HIDE DEF b, c
  <2>6. Len(b) = 1 + Len(v.is) /\ Len(v.is) \in Nat /\ b[1] = Q
    BY <2>1, <2>2 DEF Joint
  <2>7. Len(c) = Len(b) + 1 /\ c[1] = Q /\ c[Len(b) + 1] = Q
    BY <2>1, <2>4, <2>6 DEF Joint
  <2> QED
    BY <2>5, <2>6, <2>7
<1>3. ASSUME v.is \in Seq({"1"}), v.is # <<>>, v = Num(v.is)
      PROVE  Len(q) >= 1 /\ q[1] = "1" /\ q[Len(q)] = "1"
  <2>1. q = v.is
    BY <1>3, WriteIs, Zenon DEF q
  <2>2. Len(v.is) >= 1 /\ \A k \in 1 .. Len(v.is) : v.is[k] = "1"
    BY <1>3
  <2> QED
    BY <1>0, <2>1, <2>2
<1>4. ASSUME v.is \in Seq(Text), v = List(v.is)
      PROVE  Len(q) >= 1 /\ q[1] = "lbrack" /\ q[Len(q)] = "rbrack"
  <2>1. PICK f : ListAt(q, v.is, f)
    BY <1>4, ListWritten, Zenon DEF q
  <2>2. q[1] = "lbrack" /\ q[Len(q)] = "rbrack" /\ Len(q) = Len(f[Len(v.is)]) + 2 /\ Len(f[Len(v.is)]) \in Nat
    BY <2>1, Zenon DEF ListAt
  <2> QED
    BY <2>2
<1>5. ASSUME v = EmptyDict PROVE Len(q) >= 1 /\ q[1] = "lbrace" /\ q[Len(q)] = "rbrace"
  <2>1. q = <<"lbrace", "rbrace">>
    BY <1>5, EmptyWritten, Zenon DEF q
  <2> QED
    BY <2>1
<1>6. \/ v.kind = "str" /\ q[1] = Q /\ q[Len(q)] = Q /\ Len(q) >= 1
      \/ q[1] = "1" /\ q[Len(q)] = "1" /\ Len(q) >= 1
      \/ q[1] = "lbrack" /\ q[Len(q)] = "rbrack" /\ Len(q) >= 1
      \/ q[1] = "lbrace" /\ q[Len(q)] = "rbrace" /\ Len(q) >= 1
  BY <1>2, <1>3, <1>4, <1>5, KindOfValue, PlainDict
<1>7. Len(q) >= 1 /\ q[1] \notin {Space} \cup Quotes /\ q[Len(q)] \notin {Space} /\ (v.kind # "str" => q[1] # Q)
  BY <1>1, <1>6
<1> QED
  BY <1>0, <1>7 DEF q

\* A value that is not a string is read back as what it is.
LEMMA BareValueIs ==
    ASSUME NEW v \in Values, v.kind # "str", Plain(v)
    PROVE  BareValue(Write(v)) = v
<1> DEFINE q == Write(v)
<1>1. CASE v.is \in Seq({"1"}) /\ v.is # <<>> /\ v = Num(v.is)
  <2>1. q = v.is
    BY <1>1, WriteIs, Zenon
  <2>2. IsNum(q)
    BY <1>1, <2>1, Zenon DEF IsNum
  <2> QED
    BY <1>1, <2>1, <2>2, Zenon DEF BareValue
<1>2. CASE v = EmptyDict
  <2>1. q = <<"lbrace", "rbrace">>
    BY <1>2, EmptyWritten, Zenon
  <2> HIDE DEF q
  <2>2. ~IsNum(q)
    <3> SUFFICES ASSUME q \in Seq({"1"}) PROVE FALSE
      BY Zenon DEF IsNum
    <3>1. q[1] = "lbrace" /\ 1 \in 1 .. Len(q)
      BY <2>1
    <3>2. q[1] \in {"1"}
      BY <3>1
    <3> QED
      BY <3>1, <3>2
  <2>3. IsEmptyDict(q)
    <3>1. Len(q) = 2 /\ q[1] = "lbrace" /\ q[2] = "rbrace"
      BY <2>1
    <3>2. \A p \in 1 .. Len(q) : p \in {1, 2}
      BY <3>1
    <3>3. 1 \in 1 .. Len(q) /\ 2 \in 1 .. Len(q) /\ 1 < 2
      BY <3>1
    <3> QED
      BY <3>1, <3>2, <3>3, Zenon DEF IsEmptyDict
  <2> QED
    BY <1>2, <2>2, <2>3, Zenon DEF BareValue, q
<1>3. CASE v.is \in Seq(Text) /\ v = List(v.is)
  <2>1. Json(q) = Reader("end", v.is)
    BY <1>3, PlainList, ListReads, Zenon
  <2>2. q[1] = "lbrack"
    <3>1. PICK f : ListAt(q, v.is, f)
      BY <1>3, ListWritten, Zenon
    <3> QED
      BY <3>1, Zenon DEF ListAt
  <2> HIDE DEF q
  <2>3. q[1] = "lbrack" /\ Len(q) \in Nat /\ Len(q) >= 1
    BY <2>2, WriteShape, Zenon DEF q
  <2>4. 1 \in 1 .. Len(q)
    BY <2>3
  <2>5. ~IsNum(q)
    <3> SUFFICES ASSUME q \in Seq({"1"}) PROVE FALSE
      BY Zenon DEF IsNum
    <3>1. q[1] \in {"1"}
      BY <2>4
    <3> QED
      BY <2>3, <3>1
  <2>6. ~IsEmptyDict(q)
    <3> SUFFICES ASSUME NEW a \in 1 .. Len(q), NEW b \in 1 .. Len(q), q[a] = "lbrace", q[b] = "rbrace",
                        1 \in {a, b} \/ q[1] = Space
                 PROVE  FALSE
      BY <2>4, Zenon DEF IsEmptyDict
    <3> QED
      BY <2>3 DEF Space
  <2>7. Json(q).at = "end" /\ Json(q).is = v.is
    BY <2>1 DEF Reader
  <2>8. BareValue(q) = List(v.is)
    BY <2>5, <2>6, <2>7 DEF BareValue
  <2> QED
    BY <1>3, <2>8, Zenon DEF q
<1> QED
  BY <1>1, <1>2, <1>3, KindOfValue, PlainDict
-----------------------------------------------------------------------------
(* Arguments, as they are written *)

\* Lists of arguments that come through: keys are words, no string holds the
\* delimiter, and what is not a string is plain.
Proper(pairs) ==
    /\ ArePairs(pairs)
    /\ \A k \in 1 .. Len(pairs) : pairs[k].key \in Keys /\ Delimited(pairs[k].value) /\ Plain(pairs[k].value)

Upto(pairs) == CHOOSE f : Joins(f, Pieces(pairs), Len(pairs))
\* The text ends there after k pairs; the next begins behind the comma.
End(pairs, k) == Len(Upto(pairs)[k])
Start(pairs, k) == End(pairs, k) + (IF k = 0 THEN 0 ELSE 1)

LEMMA PairAt ==
    ASSUME NEW pairs, ArePairs(pairs), NEW k \in 0 .. Len(pairs) - 1
    PROVE  /\ End(pairs, k) \in Nat /\ End(pairs, k + 1) \in Nat
           /\ End(pairs, k + 1) = Start(pairs, k) + Len(Pair(pairs, k + 1))
           /\ End(pairs, k + 1) <= Len(WritePairs(pairs))
           /\ k > 0 => WritePairs(pairs)[End(pairs, k) + 1] = "comma"
           /\ \A j \in 1 .. Len(Pair(pairs, k + 1)) :
                WritePairs(pairs)[Start(pairs, k) + j] = Pair(pairs, k + 1)[j]
           /\ k + 1 = Len(pairs) => End(pairs, k + 1) = Len(WritePairs(pairs))
           /\ k + 1 < Len(pairs) => WritePairs(pairs)[End(pairs, k + 1) + 1] = "comma"
<1> DEFINE n == Len(pairs)
           items == Pieces(pairs)
           f == Upto(pairs)
           t == WritePairs(pairs)
<1>1. /\ t = Joined(items) /\ Len(items) = n /\ n \in Nat
      /\ \A j \in 1 .. n : items[j] = Pair(pairs, j) /\ items[j] \in Seq(Symbols)
  BY PiecesAre DEF ArePairs, Text
<1>2. Joins(f, items, n)
  <2>1. \E g : Joins(g, items, n)
    BY <1>1, JoinsExist, Zenon
  <2> QED
    BY <2>1, Zenon DEF Upto
<1> HIDE DEF f, t, items, n
<1>3. t = f[n]
  BY <1>1, <1>2, JoinedIs, Zenon
<1>4. "comma" \in Symbols /\ \A j \in 1 .. n : items[j] \in Seq(Symbols)
  BY <1>1, SymbolsAre
<1>5. /\ \A j \in 0 .. n : f[j] \in Seq(Symbols)
      /\ \A j \in 1 .. n :
           /\ Len(f[j]) = Begins(f, j) + Len(items[j])
           /\ j > 1 => f[j][Len(f[j - 1]) + 1] = "comma"
           /\ \A l \in 1 .. Len(items[j]) : f[j][Begins(f, j) + l] = items[j][l]
  BY <1>1, <1>2, <1>4, JoinsHas, SMTT(30)
<1> DEFINE Keeps(j) == Len(f[j]) <= Len(f[n]) /\ \A l \in 1 .. Len(f[j]) : f[n][l] = f[j][l]
<1>6. \A j \in 0 .. n : Keeps(j)
  <2> SUFFICES ASSUME NEW j \in 0 .. n PROVE Keeps(j)
    OBVIOUS
  <2> QED
    BY <1>1, <1>2, <1>4, JoinsKeep, SMTT(30)
<1>7. k \in Nat /\ k + 1 \in 1 .. n /\ k \in 0 .. n /\ (k + 1) - 1 = k /\ k + 1 \in 0 .. n
  BY <1>1 DEF n
<1>8. Len(f[k]) \in Nat /\ Len(f[k + 1]) \in Nat /\ Len(items[k + 1]) \in Nat
  BY <1>4, <1>5, <1>7
<1>9. End(pairs, k) = Len(f[k]) /\ End(pairs, k + 1) = Len(f[k + 1])
  BY Zenon DEF End, f
<1>10. Start(pairs, k) = Begins(f, k + 1)
  <2>1. Begins(f, k + 1) = Len(f[k]) + (IF k + 1 = 1 THEN 0 ELSE 1)
    BY <1>7, Zenon DEF Begins
  <2>2. (k + 1 = 1) = (k = 0)
    BY <1>7
  <2> QED
    BY <1>9, <2>1, <2>2, Zenon DEF Start
<1>11. items[k + 1] = Pair(pairs, k + 1)
  BY <1>1, <1>7, Zenon
<1>12. End(pairs, k + 1) = Start(pairs, k) + Len(Pair(pairs, k + 1))
  BY <1>5, <1>7, <1>9, <1>10, <1>11, Zenon
<1>13. Keeps(k + 1) /\ (k + 1 = n \/ k + 1 + 1 \in 1 .. n)
  BY <1>1, <1>6, <1>7
<1>14. End(pairs, k + 1) <= Len(t)
  BY <1>3, <1>9, <1>13, Zenon
<1>15. k > 0 => t[End(pairs, k) + 1] = "comma"
  <2> SUFFICES ASSUME k > 0 PROVE t[End(pairs, k) + 1] = "comma"
    OBVIOUS
  <2> DEFINE l == Len(f[k])
  <2>1. k + 1 > 1
    BY <1>7
  <2>2. f[k + 1][l + 1] = "comma"
    BY <1>5, <1>7, <2>1, Zenon
  <2>3. Begins(f, k + 1) = l + 1
    <3>1. k + 1 # 1
      BY <1>7, <2>1
    <3> QED
      BY <1>7, <3>1, Zenon DEF Begins
  <2>4. Len(f[k + 1]) = l + 1 + Len(items[k + 1])
    BY <1>5, <1>7, <2>3, Zenon
  <2> DEFINE z == Len(f[k + 1])
             y == Len(items[k + 1])
  <2>5. z = l + 1 + y /\ y \in Nat /\ l \in Nat
    BY <1>8, <2>4, Zenon
  <2> HIDE DEF l, z, y
  <2>6. l + 1 \in 1 .. z
    BY <2>5
  <2>7. f[n][l + 1] = "comma"
    BY <1>13, <2>2, <2>6, Zenon DEF z
  <2> QED
    BY <1>3, <1>9, <2>7, Zenon DEF l
<1>16. \A j \in 1 .. Len(Pair(pairs, k + 1)) : t[Start(pairs, k) + j] = Pair(pairs, k + 1)[j]
  <2> SUFFICES ASSUME NEW j \in 1 .. Len(items[k + 1]) PROVE f[n][Begins(f, k + 1) + j] = items[k + 1][j]
    BY <1>3, <1>10, <1>11, Zenon
  <2> DEFINE b == Begins(f, k + 1)
             z == Len(f[k + 1])
             y == Len(items[k + 1])
  <2>1. f[k + 1][b + j] = items[k + 1][j]
    BY <1>5, <1>7, Zenon
  <2>2. z = b + y
    BY <1>5, <1>7, Zenon
  <2>3. b \in Nat
    <3> DEFINE l == Len(f[k])
    <3>1. b = l + (IF k + 1 = 1 THEN 0 ELSE 1) /\ l \in Nat
      BY <1>7, <1>8, Zenon DEF Begins
    <3> HIDE DEF b, l
    <3> QED
      BY <3>1
  <2>4. y \in Nat /\ j \in 1 .. y
    BY <1>8
  <2> HIDE DEF b, z, y
  <2>5. b + j \in 1 .. z
    BY <2>2, <2>3, <2>4
  <2>6. f[n][b + j] = f[k + 1][b + j]
    BY <1>13, <2>5, Zenon DEF z
  <2> QED
    BY <2>1, <2>6, Zenon DEF b
<1>17. k + 1 = n => End(pairs, k + 1) = Len(t)
  BY <1>3, <1>9, Zenon
<1>18. k + 1 < n => t[End(pairs, k + 1) + 1] = "comma"
  <2> SUFFICES ASSUME k + 1 < n PROVE t[End(pairs, k + 1) + 1] = "comma"
    OBVIOUS
  <2> DEFINE p == k + 1 + 1
             l == Len(f[k + 1])
             z == Len(f[p])
             y == Len(items[p])
  <2>1. p \in 1 .. n /\ p > 1 /\ p - 1 = k + 1 /\ p # 1 /\ p \in 0 .. n
    BY <1>1, <1>7
  <2> HIDE DEF p
  <2>2. f[p][l + 1] = "comma"
    BY <1>5, <2>1, Zenon
  <2>3. Begins(f, p) = l + 1
    BY <2>1 DEF Begins
  <2>4. z = l + 1 + y
    BY <1>5, <2>1, <2>3, Zenon
  <2>5. y \in Nat /\ l \in Nat
    BY <1>4, <1>8, <2>1
  <2> HIDE DEF l, z, y
  <2>6. l + 1 \in 1 .. z
    BY <2>4, <2>5
  <2>7. Keeps(p)
    BY <1>6, <2>1, Zenon
  <2>8. f[n][l + 1] = "comma"
    BY <2>2, <2>6, <2>7, Zenon DEF z
  <2> QED
    BY <1>3, <1>9, <2>8, Zenon DEF l
<1> QED
  BY <1>8, <1>9, <1>12, <1>14, <1>15, <1>16, <1>17, <1>18, Zenon DEF n, t

\* A pair: the key, a colon, the value.
PairAs(P, key, W) ==
    /\ W \in Text /\ Len(W) \in Nat /\ Len(W) >= 1 /\ Len(P) = Len(W) + 2
    /\ P[1] = key[1] /\ key[1] \notin Punctuation /\ key = <<key[1]>>
    /\ P[2] = "colon" /\ \A j \in 1 .. Len(W) : P[j + 2] = W[j]

LEMMA PairIs ==
    ASSUME NEW pairs, Proper(pairs), NEW k \in 1 .. Len(pairs)
    PROVE  PairAs(Pair(pairs, k), pairs[k].key, Write(pairs[k].value))
<1> DEFINE key == pairs[k].key
           c == <<"colon">>
           a == key \o c
           W == Write(pairs[k].value)
           b == a \o W
<1>1. key \in Text /\ Len(key) = 1 /\ key[1] \notin Punctuation /\ pairs[k].value \in Values /\ Plain(pairs[k].value)
  <2>1. key \in Keys /\ pairs[k].value \in Values /\ Plain(pairs[k].value)
    BY Zenon DEF Proper, ArePairs
  <2> QED
    BY <2>1, KeysAssumption DEF Text
<1>2. c \in Text /\ Len(c) = 1 /\ c[1] = "colon"
  BY SymbolsAre DEF Text
<1>3. W \in Text /\ Len(W) \in Nat /\ Len(W) >= 1
  BY <1>1, WriteShape, Zenon
<1>4. Pair(pairs, k) = b
  BY Zenon DEF Pair
<1>5. key = <<key[1]>>
  BY <1>1 DEF Text
<1> HIDE DEF a, b, c, key, W
<1>6. a \in Text /\ Len(a) = 2 /\ a[1] = key[1] /\ a[2] = "colon"
  <2>1. Joint(key, c, a)
    BY <1>1, <1>2, JoinOf, Zenon DEF a
  <2> QED
    BY <1>1, <1>2, <2>1 DEF Joint
<1>7. Len(b) = Len(W) + 2 /\ b[1] = key[1] /\ b[2] = "colon" /\ \A j \in 1 .. Len(W) : b[2 + j] = W[j]
  <2>1. Joint(a, W, b)
    BY <1>3, <1>6, JoinOf, Zenon DEF b
  <2> QED
    BY <1>3, <1>6, <2>1 DEF Joint
<1>8. \A j \in 1 .. Len(W) : b[j + 2] = W[j]
  BY <1>3, <1>7
<1> QED
  BY <1>1, <1>3, <1>4, <1>5, <1>7, <1>8, Zenon DEF key, W, PairAs
\* A round of the parser in the text of these pairs, at the pair k + 1.
AtPair(pairs, k) ==
    /\ Proper(pairs) /\ s = WritePairs(pairs) /\ s \in Text
    /\ k \in 0 .. Len(pairs) - 1 /\ i = End(pairs, k) + 1

\* Its value is W, and ends at e.
ValueAt(W, e) ==
    /\ W \in Text /\ Len(W) \in Nat /\ Len(W) >= 1
    /\ ValueFrom \in Nat \ {0} /\ e \in Nat /\ e + 1 = ValueFrom + Len(W) /\ e <= Len(s) /\ ValueFrom <= e
    /\ \A j \in 1 .. Len(W) : s[(ValueFrom - 1) + j] = W[j]
    /\ e = Len(s) \/ s[e + 1] = "comma"

LEMMA RoundAt ==
    ASSUME NEW pairs, NEW k, AtPair(pairs, k)
    PROVE  /\ Colon # 0 /\ i <= Len(s) /\ Key = pairs[k + 1].key
           /\ ValueAt(Write(pairs[k + 1].value), End(pairs, k + 1))
<1> DEFINE W == Write(pairs[k + 1].value)
           P == Pair(pairs, k + 1)
           w == Len(W)
           z == End(pairs, k)
           b == Start(pairs, k)
           e == End(pairs, k + 1)
           l == Len(s)
           x == pairs[k + 1].key[1]
           n == Len(pairs)
<1>1. /\ z \in Nat /\ e \in Nat /\ e = b + Len(P) /\ e <= l
      /\ k > 0 => s[z + 1] = "comma"
      /\ \A j \in 1 .. Len(P) : s[b + j] = P[j]
      /\ k + 1 = n => e = l
      /\ k + 1 < n => s[e + 1] = "comma"
  BY PairAt, Zenon DEF AtPair, Proper
<1>2. n \in Nat /\ k \in Nat /\ k + 1 \in 1 .. n /\ (k + 1 = n \/ k + 1 < n) /\ i = z + 1
  BY DEF AtPair, Proper, ArePairs
<1>3. /\ W \in Text /\ w \in Nat /\ w >= 1 /\ Len(P) = w + 2
      /\ P[1] = x /\ x \notin Punctuation /\ pairs[k + 1].key = <<x>>
      /\ P[2] = "colon"
      /\ \A j \in 1 .. w : P[j + 2] = W[j]
  <2>1. Proper(pairs)
    BY Zenon DEF AtPair
  <2>2. PairAs(P, pairs[k + 1].key, W)
    BY <1>2, <2>1, PairIs, Zenon
  <2> HIDE DEF P, W
  <2> QED
    BY <2>2, Zenon DEF PairAs
<1>4. s \in Text /\ l \in Nat
  BY DEF AtPair, Text
<1>5. b = z + (IF k = 0 THEN 0 ELSE 1)
  BY Zenon DEF Start
<1>6. W[1] \notin {Space} \cup Quotes
  <2>1. pairs[k + 1].value \in Values /\ Plain(pairs[k + 1].value)
    BY <1>2, Zenon DEF AtPair, Proper, ArePairs
  <2> QED
    BY <2>1, WriteShape, Zenon
<1> HIDE DEF W, P, w, z, b, e, l, x, n
<1>7. b \in Nat /\ e = b + w + 2 /\ (b = z \/ b = z + 1) /\ (b = z + 1 => s[z + 1] = "comma")
  BY <1>1, <1>2, <1>3, <1>5
<1>8. s[b + 1] = x /\ s[b + 2] = "colon"
  <2>1. 1 \in 1 .. Len(P) /\ 2 \in 1 .. Len(P)
    BY <1>3
  <2> QED
    BY <1>1, <1>3, <2>1
<1>9. \A j \in 1 .. w : s[b + 2 + j] = W[j]
  <2> SUFFICES ASSUME NEW j \in 1 .. w PROVE s[b + 2 + j] = W[j]
    OBVIOUS
  <2>1. j + 2 \in 1 .. Len(P) /\ b + (j + 2) = b + 2 + j
    BY <1>3, <1>7
  <2>2. s[b + (j + 2)] = P[j + 2] /\ P[j + 2] = W[j]
    BY <1>1, <1>3, <2>1, Zenon
  <2> QED
    BY <2>1, <2>2
<1>10. x \notin {Space, "comma"} /\ x \notin {Space} \cup Quotes /\ x # "colon"
  BY <1>3 DEF Punctuation
<1>11. KeyFrom = b + 1
  <2> DEFINE y == KeyFrom
  <2>1. /\ y \in Nat /\ y >= i
        /\ \A p \in i .. l : p < y => s[p] \in {Space, "comma"}
        /\ y <= l => s[y] \notin {Space, "comma"}
    <3>1. i \in Nat \ {0}
      BY <1>1, <1>2
    <3> QED
      BY <1>4, <3>1, SkipInIs, Zenon DEF KeyFrom, l
  <2> HIDE DEF y
  <2>2. b + 1 \in i .. l
    BY <1>1, <1>2, <1>3, <1>4, <1>7
  <2>3. ~(b + 1 < y)
    BY <1>8, <1>10, <2>1, <2>2
  <2>4. ~(y < b + 1)
    <3> SUFFICES ASSUME y < b + 1 PROVE FALSE
      OBVIOUS
    <3>1. y = z + 1 /\ b = z + 1
      BY <1>1, <1>2, <1>7, <2>1
    <3>2. s[y] = "comma" /\ y <= l
      BY <1>4, <1>7, <2>2, <3>1
    <3> QED
      BY <2>1, <3>2
  <2> QED
    BY <1>7, <2>1, <2>3, <2>4 DEF y
<1>12. Colon = b + 2
  <2> DEFINE f == Find("colon", b + 1)
  <2>1. \/ f = 0 /\ \A p \in b + 1 .. l : s[p] # "colon"
        \/ f \in b + 1 .. l /\ s[f] = "colon" /\ \A p \in b + 1 .. f - 1 : s[p] # "colon"
    <3>1. b + 1 \in Nat \ {0}
      BY <1>7
    <3> QED
      BY <1>4, <3>1, FindIs, Zenon DEF l
  <2> HIDE DEF f
  <2>2. b + 2 \in b + 1 .. l
    BY <1>1, <1>3, <1>4, <1>7
  <2>3. f \in b + 1 .. l /\ s[f] = "colon" /\ \A p \in b + 1 .. f - 1 : s[p] # "colon"
    BY <1>8, <2>1, <2>2
  <2>4. f # b + 1
    BY <1>8, <1>10, <2>3
  <2>5. ~(f > b + 2)
    <3> SUFFICES ASSUME f > b + 2 PROVE FALSE
      OBVIOUS
    <3>1. b + 2 \in b + 1 .. f - 1
      BY <1>4, <1>7, <2>3
    <3> QED
      BY <1>8, <2>3, <3>1
  <2>6. f = b + 2
    BY <1>4, <1>7, <2>3, <2>4, <2>5
  <2> QED
    BY <1>11, <2>6, Zenon DEF Colon, f
<1>13. Key = <<x>>
  <2> DEFINE c == b + 1
             cut == SubSeq(s, c, c)
  <2>1. c \in Nat \ {0} /\ c \in Int /\ c <= Len(s) /\ Colon - 1 = c
    BY <1>1, <1>3, <1>4, <1>7, <1>12 DEF l
  <2>2. KeyFrom = c /\ s[c] = x
    BY <1>8, <1>11
  <2> HIDE DEF c
  <2>3. /\ cut \in Seq(Symbols) /\ Len(cut) = IF c <= c THEN c - c + 1 ELSE 0
        /\ \A j \in 1 .. c - c + 1 : cut[j] = s[c + j - 1]
    BY <1>4, <2>1, PieceIs DEF Text
  <2> HIDE DEF cut
  <2>4. cut \in Seq(Symbols) /\ Len(cut) = 1 /\ cut[1] = x
    BY <2>1, <2>2, <2>3
  <2>5. cut = <<x>>
    BY <2>4
  <2>6. /\ cut[1] \notin {Space} /\ cut[Len(cut)] \notin {Space}
        /\ cut[1] \notin Quotes /\ cut[Len(cut)] \notin Quotes /\ cut # <<>>
    BY <1>10, <2>4, <2>5
  <2>7. StripOf({Space}, cut) = cut /\ StripOf(Quotes, cut) = cut
    <3>1. StripOf({Space}, cut) = cut
      BY <2>4, <2>6, StripOfIs, Zenon
    <3>2. StripOf(Quotes, cut) = cut
      BY <2>4, <2>6, StripOfIs, Zenon
    <3> QED
      BY <3>1, <3>2
  <2>8. Key = StripOf({Space}, StripOf(Quotes, StripOf({Space}, cut)))
    BY <2>1, <2>2, Zenon DEF Key, cut
  <2> QED
    BY <2>5, <2>7, <2>8
<1>14. ValueFrom = b + 3
  <2> DEFINE y == SkipIn({Space}, b + 3)
  <2>0. ValueFrom = y
    <3>1. Colon + 1 = b + 3
      BY <1>7, <1>12
    <3> QED
      BY <3>1, Zenon DEF ValueFrom
  <2>1. y \in Nat /\ y >= b + 3 /\ \A p \in b + 3 .. l : p < y => s[p] \in {Space}
    <3>1. b + 3 \in Nat \ {0}
      BY <1>7
    <3> QED
      BY <1>4, <3>1, SkipInIs, Zenon DEF l
  <2> HIDE DEF y
  <2>2. b + 3 \in b + 3 .. l /\ b + 2 + 1 = b + 3 /\ 1 \in 1 .. w
    BY <1>1, <1>3, <1>4, <1>7
  <2>3. s[b + 3] = W[1]
    BY <1>9, <2>2
  <2>4. ~(b + 3 < y)
    BY <1>6, <2>1, <2>2, <2>3
  <2> QED
    BY <1>7, <2>0, <2>1, <2>4
<1>15. ValueAt(W, e)
  <2>1. ValueFrom - 1 = b + 2
    BY <1>7, <1>14
  <2>2. \A j \in 1 .. w : s[(ValueFrom - 1) + j] = W[j]
    BY <1>9, <2>1
  <2>3. ValueFrom \in Nat \ {0} /\ e \in Nat /\ e + 1 = ValueFrom + w /\ e <= l /\ ValueFrom <= e
    BY <1>1, <1>3, <1>7, <1>14
  <2>4. e = l \/ s[e + 1] = "comma"
    BY <1>1, <1>2, Zenon
  <2> QED
    BY <1>3, <2>2, <2>3, <2>4, Zenon DEF ValueAt, w, l
<1>16. Colon # 0 /\ i <= l
  BY <1>1, <1>2, <1>3, <1>4, <1>7, <1>12
<1> QED
  BY <1>3, <1>13, <1>15, <1>16, Zenon DEF W, e, l
\* It is read back by the literal's rule, whatever it holds.
LEMMA LiteralReads ==
    ASSUME NEW v \in Values, v.kind = "str", Delimited(v), NEW e, s \in Text, ValueAt(Write(v), e)
    PROVE  /\ s[ValueFrom] = Q /\ ValueFrom <= Len(s) /\ Find(Q, ValueFrom + 1) = e /\ e # 0
           /\ Str(SubSeq(s, ValueFrom + 1, e - 1)) = v
<1> DEFINE W == Write(v)
           text == v.is
           m == Len(text)
           a == ValueFrom
           l == Len(s)
<1>1. text \in Text /\ v = Str(text)
  BY KindOfValue
<1>2. /\ Len(W) = m + 2 /\ m \in Nat /\ W[1] = Q /\ W[m + 2] = Q
      /\ \A j \in 1 .. m : W[1 + j] = text[j]
  BY <1>1, StrWritten
<1>3. /\ a \in Nat \ {0} /\ e \in Nat /\ e + 1 = a + Len(W) /\ e <= l
      /\ \A j \in 1 .. Len(W) : s[(a - 1) + j] = W[j]
  BY Zenon DEF ValueAt
<1>4. \A j \in 1 .. m : text[j] # Q
  <2>1. text \in Strings(v)
    BY DEF Strings
  <2> QED
    BY <2>1 DEF Delimited, Contains
<1>5. l \in Nat
  BY DEF Text
<1> HIDE DEF W, text, m, a, l
<1>6. e = a + m + 1 /\ e # 0 /\ a <= l
  <2> DEFINE w == Len(W)
  <2>1. w = m + 2 /\ e + 1 = a + w /\ m \in Nat /\ a \in Nat \ {0} /\ e \in Nat /\ e <= l /\ l \in Nat
    BY <1>2, <1>3, <1>5, Zenon
  <2> HIDE DEF w
  <2>2. e = a + m + 1
    BY <2>1
  <2> QED
    BY <2>1, <2>2
<1>7. s[a] = Q /\ s[e] = Q
  <2>1. (a - 1) + 1 = a /\ (a - 1) + (m + 2) = e /\ 1 \in 1 .. Len(W) /\ m + 2 \in 1 .. Len(W)
    BY <1>2, <1>3, <1>6
  <2> QED
    BY <1>2, <1>3, <2>1
<1>8. \A j \in 1 .. m : s[a + j] = text[j]
  <2> SUFFICES ASSUME NEW j \in 1 .. m PROVE s[a + j] = text[j]
    OBVIOUS
  <2>1. 1 + j \in 1 .. Len(W) /\ (a - 1) + (1 + j) = a + j
    BY <1>2, <1>3
  <2>2. s[(a - 1) + (1 + j)] = W[1 + j]
    BY <1>3, <2>1, Zenon
  <2> QED
    BY <1>2, <2>1, <2>2
<1>9. \A p \in a + 1 .. e - 1 : s[p] # Q
  <2> SUFFICES ASSUME NEW p \in a + 1 .. e - 1 PROVE s[p] # Q
    OBVIOUS
  <2>1. p - a \in 1 .. m /\ a + (p - a) = p
    BY <1>2, <1>3, <1>6
  <2> QED
    BY <1>4, <1>8, <2>1
<1>10. Find(Q, a + 1) = e
  <2> DEFINE f == Find(Q, a + 1)
  <2>1. \/ f = 0 /\ \A p \in a + 1 .. l : s[p] # Q
        \/ f \in a + 1 .. l /\ s[f] = Q /\ \A p \in a + 1 .. f - 1 : s[p] # Q
    <3>1. a + 1 \in Nat \ {0}
      BY <1>3
    <3> QED
      BY <3>1, FindIs, Zenon DEF l
  <2> HIDE DEF f
  <2>2. e \in a + 1 .. l
    BY <1>2, <1>3, <1>5, <1>6
  <2>3. f \in a + 1 .. l /\ s[f] = Q /\ \A p \in a + 1 .. f - 1 : s[p] # Q
    BY <1>7, <2>1, <2>2
  <2>4. ~(f < e)
    <3> SUFFICES ASSUME f < e PROVE FALSE
      OBVIOUS
    <3>1. f \in a + 1 .. e - 1
      BY <1>3, <1>5, <2>3
    <3> QED
      BY <1>9, <2>3, <3>1
  <2>5. ~(e < f)
    <3> SUFFICES ASSUME e < f PROVE FALSE
      OBVIOUS
    <3>1. e \in a + 1 .. f - 1
      BY <1>3, <1>5, <2>2, <2>3
    <3> QED
      BY <1>7, <2>3, <3>1
  <2>6. f = e
    BY <1>3, <1>5, <2>3, <2>4, <2>5
  <2> QED
    BY <2>6 DEF f
<1>11. SubSeq(s, a + 1, e - 1) = text
  <2> DEFINE c == a + 1
             d == e - 1
             x == SubSeq(s, c, d)
  <2>1. c \in Nat \ {0} /\ d \in Int /\ d <= Len(s) /\ c = a + 1 /\ d = a + m
    BY <1>2, <1>3, <1>5, <1>6 DEF l
  <2> HIDE DEF c, d
  <2>2. /\ x \in Seq(Symbols) /\ Len(x) = IF c <= d THEN d - c + 1 ELSE 0
        /\ \A j \in 1 .. d - c + 1 : x[j] = s[c + j - 1]
    BY <2>1, PieceIs DEF Text
  <2> HIDE DEF x
  <2>3. Len(x) = m /\ \A j \in 1 .. m : x[j] = s[a + j]
    BY <1>2, <1>3, <2>1, <2>2
  <2>4. text \in Seq(Symbols) /\ Len(text) = Len(x) /\ \A j \in 1 .. Len(x) : x[j] = text[j]
    BY <1>1, <1>8, <2>3 DEF Text, m
  <2>5. x = text
    BY <2>2, <2>4, SameText, Zenon
  <2> QED
    BY <2>5, Zenon DEF x, c, d
<1> QED
  BY <1>1, <1>6, <1>7, <1>10, <1>11, Zenon DEF a, l

LEMMA NestingIs ==
    /\ Nesting("lbrack") = 1 /\ Nesting("lbrace") = 1 /\ Nesting("rbrack") = -1 /\ Nesting("rbrace") = -1
    /\ \A x : x \notin Brackets => Nesting(x) = 0
    /\ "1" \notin Brackets
BY DEF Nesting, Brackets

\* Any other value is read by the rule for what is not in quotes, up to its end.
LEMMA BareEnds ==
    ASSUME NEW v \in Values, v.kind # "str", Plain(v), NEW e, s \in Text, ValueAt(Write(v), e)
    PROVE  BareEnd = e + 1
<1> DEFINE W == Write(v)
           w == Len(W)
           a == ValueFrom
<1>1. /\ a \in Nat \ {0} /\ e \in Nat /\ e + 1 = a + w /\ e <= Len(s) /\ w \in Nat /\ w >= 1
      /\ \A j \in 1 .. w : s[(a - 1) + j] = W[j]
      /\ e = Len(s) \/ s[e + 1] = "comma"
  BY Zenon DEF ValueAt
<1> HIDE DEF W, w, a
<1>2. \A p \in a .. e : p - (a - 1) \in 1 .. w /\ s[p] = W[p - (a - 1)]
  <2> SUFFICES ASSUME NEW p \in a .. e PROVE p - (a - 1) \in 1 .. w /\ s[p] = W[p - (a - 1)]
    OBVIOUS
  <2>1. p - (a - 1) \in 1 .. w /\ (a - 1) + (p - (a - 1)) = p
    BY <1>1
  <2>2. s[(a - 1) + (p - (a - 1))] = W[p - (a - 1)]
    BY <1>1, <2>1, Zenon
  <2> QED
    BY <2>1, <2>2
<1>3. SUFFICES /\ Depth(a, e) = 0
               /\ \A p \in a .. e : s[p] = "comma" => Depth(a, p - 1) = 1
  <2>1. a <= e
    BY <1>1
  <2> QED
    BY <1>1, <1>3, <2>1, BareEndIs DEF a
<1>4. ASSUME a < e, W[1] \in {"lbrack", "lbrace"}, W[w] \in {"rbrack", "rbrace"},
             \A p \in 2 .. w - 1 : W[p] \notin Brackets
      PROVE  /\ Depth(a, e) = 0
             /\ \A p \in a .. e : s[p] = "comma" => Depth(a, p - 1) = 1
  <2>1. s[a] = W[1] /\ s[e] = W[w]
    <3>1. a \in a .. e /\ e \in a .. e /\ a - (a - 1) = 1 /\ e - (a - 1) = w
      BY <1>1, <1>4
    <3>2. s[a] = W[a - (a - 1)] /\ s[e] = W[e - (a - 1)]
      BY <1>2, <3>1, Zenon
    <3> QED
      BY <3>1, <3>2
  <2>2. Nesting(s[a]) = 1 /\ Nesting(s[e]) = -1
    BY <1>4, <2>1, NestingIs
  <2>3. ASSUME NEW p \in a + 1 .. e - 1 PROVE Nesting(s[p]) = 0
    <3>1. p \in a .. e /\ p - (a - 1) \in 2 .. w - 1
      BY <1>1, <1>4
    <3>2. s[p] = W[p - (a - 1)]
      BY <1>2, <3>1, Zenon
    <3>3. s[p] \notin Brackets
      BY <1>4, <3>1, <3>2
    <3> QED
      BY <3>3, NestingIs
  <2>4. \A to \in a .. e : Depth(a, to) = IF to = e THEN 0 ELSE 1
    <3> SUFFICES ASSUME NEW to \in a .. e PROVE Depth(a, to) = IF to = e THEN 0 ELSE 1
      OBVIOUS
    <3>1. to \in Int /\ e \in Int /\ a <= to /\ to <= e
      BY <1>1
    <3> QED
      BY <1>1, <1>4, <2>2, <2>3, <3>1, DepthInside
  <2>5. Depth(a, e) = 0
    <3>1. e \in a .. e
      BY <1>1, <1>4
    <3> QED
      BY <2>4, <3>1
  <2>6. ASSUME NEW p \in a .. e, s[p] = "comma" PROVE Depth(a, p - 1) = 1
    <3>1. p # a
      BY <1>4, <2>1, <2>6
    <3>2. p - 1 \in a .. e /\ p - 1 # e
      BY <1>1, <3>1
    <3> QED
      BY <2>4, <3>2
  <2> QED
    BY <2>5, <2>6
<1>5. CASE v.is \in Seq({"1"}) /\ v.is # <<>> /\ v = Num(v.is)
  <2>1. W = v.is
    BY <1>5, WriteIs, Zenon DEF W
  <2>2. \A p \in 1 .. w : W[p] = "1"
    BY <1>5, <2>1 DEF w
  <2>3. ASSUME NEW p \in a .. e PROVE s[p] = "1" /\ Nesting(s[p]) = 0
    <3>1. s[p] = "1"
      BY <1>2, <2>2, Zenon
    <3> QED
      BY <3>1, NestingIs
  <2>4. Depth(a, e) = 0
    <3>1. e \in Int /\ e >= a - 1
      BY <1>1
    <3> QED
      BY <1>1, <2>3, <3>1, DepthOutside
  <2> QED
    BY <2>3, <2>4
<1>6. CASE v.is \in Seq(Text) /\ v = List(v.is)
  <2>1. PICK f : ListAt(W, v.is, f)
    BY <1>6, ListWritten, Zenon DEF W
  <2>2. \A p \in 2 .. w - 1 : W[p] \notin Brackets
    BY <1>6, <2>1, PlainList, ListInside, Zenon DEF w
  <2>3. W[1] = "lbrack" /\ W[w] = "rbrack"
    BY <2>1, Zenon DEF ListAt, w
  <2>4. a < e
    <3>1. w # 1
      BY <2>3
    <3> QED
      BY <1>1, <3>1
  <2> QED
    BY <1>4, <2>2, <2>3, <2>4
<1>7. CASE v = EmptyDict
  <2>1. W = <<"lbrace", "rbrace">>
    BY <1>7, EmptyWritten, Zenon DEF W
  <2>2. w = 2 /\ W[1] = "lbrace" /\ W[2] = "rbrace"
    BY <2>1 DEF w
  <2>3. a < e /\ W[w] = "rbrace" /\ \A p \in 2 .. w - 1 : FALSE
    BY <1>1, <2>2
  <2> QED
    BY <1>4, <2>2, <2>3
<1> QED
  BY <1>5, <1>6, <1>7, KindOfValue, PlainDict

\* The value of that rule is the value that was written.
LEMMA BareReads ==
    ASSUME NEW v \in Values, v.kind # "str", Plain(v), NEW e, s \in Text, ValueAt(Write(v), e)
    PROVE  /\ s[ValueFrom] \notin Quotes \cup {Q} /\ ValueFrom <= Len(s)
           /\ BareValue(StripOf({Space}, SubSeq(s, ValueFrom, BareEnd - 1))) = v /\ BareEnd = e + 1
<1> DEFINE W == Write(v)
           w == Len(W)
           a == ValueFrom
           l == Len(s)
           x == SubSeq(s, a, e)
<1>1. /\ a \in Nat \ {0} /\ e \in Nat /\ e + 1 = a + w /\ e <= l /\ w \in Nat /\ w >= 1 /\ a <= e
      /\ \A j \in 1 .. w : s[(a - 1) + j] = W[j]
  BY Zenon DEF ValueAt
<1>2. W \in Text /\ W[1] \notin {Space} \cup Quotes /\ W[w] \notin {Space} /\ W[1] # Q
  BY WriteShape, Zenon
<1>3. BareEnd = e + 1
  BY BareEnds
<1>4. BareValue(W) = v
  BY BareValueIs
<1>5. l \in Nat
  BY DEF Text
<1> HIDE DEF W, w, a, l
<1>6. s[a] = W[1]
  <2>1. (a - 1) + 1 = a /\ 1 \in 1 .. w
    BY <1>1
  <2> QED
    BY <1>1, <2>1
<1>7. /\ x \in Seq(Symbols) /\ Len(x) = (IF a <= e THEN e - a + 1 ELSE 0)
      /\ \A j \in 1 .. e - a + 1 : x[j] = s[a + j - 1]
  <2>1. e \in Int /\ e <= Len(s)
    BY <1>1 DEF l
  <2> QED
    BY <1>1, <2>1, PieceIs DEF Text
<1> HIDE DEF x
<1>8. x = W
  <2>1. Len(x) = w
    BY <1>1, <1>7
  <2>2. \A j \in 1 .. w : x[j] = W[j]
    <3> SUFFICES ASSUME NEW j \in 1 .. w PROVE x[j] = W[j]
      OBVIOUS
    <3>1. j \in 1 .. e - a + 1 /\ a + j - 1 = (a - 1) + j
      BY <1>1
    <3>2. x[j] = s[a + j - 1]
      BY <1>7, <3>1
    <3> QED
      BY <1>1, <3>1, <3>2
  <2> QED
    BY <1>2, <1>7, <2>1, <2>2, SameText, Zenon DEF w, Text
<1>9. StripOf({Space}, W) = W
  <2>1. W # <<>>
    <3>1. Len(<<>>) = 0 /\ w # 0
      BY <1>1
    <3> QED
      BY <3>1, Zenon DEF w
  <2>2. W[1] \notin {Space}
    BY <1>2
  <2> QED
    BY <1>2, <2>1, <2>2, StripOfIs, Zenon DEF w, Text
<1>10. SubSeq(s, a, BareEnd - 1) = W
  <2>1. BareEnd - 1 = e
    BY <1>1, <1>3
  <2> QED
    BY <1>8, <2>1, Zenon DEF x
<1>11. s[a] \notin Quotes \cup {Q} /\ a <= l
  BY <1>1, <1>2, <1>5, <1>6
<1> QED
  BY <1>3, <1>4, <1>9, <1>10, <1>11, Zenon DEF a, l

\* One round takes one pair, whatever its value.
LEMMA RoundReads ==
    ASSUME NEW pairs, NEW k, AtPair(pairs, k), phase = "parse", Next
    PROVE  Takes(Put(out, pairs[k + 1].key, pairs[k + 1].value), End(pairs, k + 1) + 1)
<1> DEFINE v == pairs[k + 1].value
           e == End(pairs, k + 1)
<1>1. /\ Colon # 0 /\ i <= Len(s) /\ Key = pairs[k + 1].key
      /\ ValueAt(Write(v), e) /\ s \in Text
  BY RoundAt, Zenon DEF AtPair
<1>2. v \in Values /\ Delimited(v) /\ Plain(v)
  <2>1. k + 1 \in 1 .. Len(pairs)
    BY DEF AtPair, Proper, ArePairs
  <2> QED
    BY <2>1, Zenon DEF AtPair, Proper, ArePairs
<1>3. More
  BY <1>1, Zenon DEF More
<1> HIDE DEF e, v
<1>4. ~Parsed /\ ~SendBack
  BY <1>3 DEF Parsed, SendBack
<1>5. ValueFrom <= Len(s) /\ ~(ValueFrom > Len(s)) /\ ValueFrom \in Nat
  <2>1. Len(s) \in Nat
    BY <1>1 DEF Text
  <2>2. ValueFrom \in Nat \ {0} /\ e \in Nat /\ ValueFrom <= e /\ e <= Len(s)
    BY <1>1, Zenon DEF ValueAt
  <2> QED
    BY <2>1, <2>2
<1>6. ~Raise
  BY <1>5, Zenon DEF Raise
<1>7. CASE v.kind = "str"
  <2>1. /\ s[ValueFrom] = Q /\ Find(Q, ValueFrom + 1) = e /\ e # 0
        /\ Str(SubSeq(s, ValueFrom + 1, e - 1)) = v
    BY <1>1, <1>2, <1>7, LiteralReads
  <2>2. Q \notin Quotes
    BY DEF Q, Quotes
  <2>3. ~Unterminated /\ ~Quoted /\ ~Bare
    BY <2>1, <2>2, Zenon DEF Unterminated, Quoted, Bare, AtValue
  <2>4. Literal
    BY <1>4, <1>6, <2>3, Zenon DEF Next
  <2> QED
    BY <1>1, <2>1, <2>4, Zenon DEF Literal, v, e
<1>8. CASE v.kind # "str"
  <2>1. /\ s[ValueFrom] \notin Quotes \cup {Q}
        /\ BareValue(StripOf({Space}, SubSeq(s, ValueFrom, BareEnd - 1))) = v /\ BareEnd = e + 1
    BY <1>1, <1>2, <1>8, BareReads, Zenon
  <2>2. ~Literal /\ ~Unterminated /\ ~Quoted
    BY <2>1, Zenon DEF Literal, Unterminated, Quoted, AtValue
  <2>3. Bare
    BY <1>4, <1>6, <2>2, Zenon DEF Next
  <2>4. Takes(Put(out, Key, BareValue(StripOf({Space}, SubSeq(s, ValueFrom, BareEnd - 1)))), BareEnd)
    BY <2>3, Zenon DEF Bare, BareEnd, BareValue
  <2> QED
    BY <1>1, <2>1, <2>4, Zenon DEF v, e
<1> QED
  BY <1>7, <1>8

-----------------------------------------------------------------------------
(* What has been read so far *)

\* The dict of the first k pairs: of pairs with the same key, the last.
DictOf(pairs, k) ==
    [key \in {pairs[j].key : j \in 1 .. k} |-> pairs[Max({n \in 1 .. k : pairs[n].key = key})].value]

LEMMA DictOfAll ==
    ASSUME NEW pairs
    PROVE  DictOf(pairs, Len(pairs)) = Dict(pairs) /\ DictOf(pairs, 0) = <<>>
<1>1. DictOf(pairs, Len(pairs)) = Dict(pairs)
  BY Zenon DEF DictOf, Dict
<1>2. DictOf(pairs, 0) = <<>>
  <2>1. {pairs[j].key : j \in 1 .. 0} = {}
    OBVIOUS
  <2> QED
    BY <2>1 DEF DictOf
<1> QED
  BY <1>1, <1>2

\* The greatest of a set of numbers, when it is known.
LEMMA MaxIs ==
    ASSUME NEW S \in SUBSET Nat, NEW x \in S, \A y \in S : y <= x
    PROVE  Max(S) = x
<1>1. ASSUME NEW z \in S, \A y \in S : z >= y PROVE z = x
  <2>1. z >= x /\ z <= x /\ z \in Nat /\ x \in Nat
    BY <1>1
  <2> QED
    BY <2>1
<1>2. \A y \in S : x >= y
  OBVIOUS
<1> QED
  BY <1>1, <1>2 DEF Max

LEMMA PutNext ==
    ASSUME NEW pairs, NEW k \in Nat
    PROVE  Put(DictOf(pairs, k), pairs[k + 1].key, pairs[k + 1].value) = DictOf(pairs, k + 1)
<1> DEFINE K(m) == {pairs[j].key : j \in 1 .. m}
           A(m, key) == {n \in 1 .. m : pairs[n].key = key}
           new == pairs[k + 1].key
           d == DictOf(pairs, k)
           f == DictOf(pairs, k + 1)
<1>1. DOMAIN d = K(k) /\ DOMAIN f = K(k + 1)
  BY DEF DictOf
<1>2. K(k + 1) = K(k) \cup {new}
  <2>1. \A j : j \in 1 .. k + 1 <=> j \in 1 .. k \/ j = k + 1
    OBVIOUS
  <2> QED
    BY <2>1
<1>3. f[new] = pairs[k + 1].value
  <2>1. new \in K(k + 1)
    BY <1>2
  <2>2. k + 1 \in A(k + 1, new) /\ A(k + 1, new) \in SUBSET Nat /\ \A y \in A(k + 1, new) : y <= k + 1
    OBVIOUS
  <2>3. Max(A(k + 1, new)) = k + 1
    BY <2>2, MaxIs
  <2>4. f[new] = pairs[Max(A(k + 1, new))].value
    BY <2>1, Zenon DEF DictOf
  <2> QED
    BY <2>3, <2>4, Zenon
<1>4. ASSUME NEW key \in K(k), key # new PROVE f[key] = d[key]
  <2>1. A(k + 1, key) = A(k, key)
    <3>1. \A n : n \in 1 .. k + 1 <=> n \in 1 .. k \/ n = k + 1
      OBVIOUS
    <3> QED
      BY <1>4, <3>1
  <2>2. key \in K(k + 1)
    BY <1>2
  <2>3. f[key] = pairs[Max(A(k + 1, key))].value
    BY <2>2, Zenon DEF DictOf
  <2>4. d[key] = pairs[Max(A(k, key))].value
    BY Zenon DEF DictOf
  <2> QED
    BY <2>1, <2>3, <2>4, Zenon
<1>5. f = [key \in DOMAIN f |-> f[key]]
  BY DEF DictOf
<1> DEFINE p == Put(d, new, pairs[k + 1].value)
<1>6. p = [key \in K(k) \cup {new} |-> IF key = new THEN pairs[k + 1].value ELSE d[key]]
  BY <1>1 DEF Put
<1>7. \A key \in K(k) \cup {new} : f[key] = IF key = new THEN pairs[k + 1].value ELSE d[key]
  BY <1>3, <1>4
<1> HIDE DEF K, f, d, new, p
<1>8. p = f
  BY <1>1, <1>2, <1>5, <1>6, <1>7
<1> QED
  BY <1>8 DEF p, d, f, new
-----------------------------------------------------------------------------
(* What is written is read *)

\* The parser is in the text of these pairs, and has read the first k.
Reading(pairs) ==
    /\ phase = "parse" /\ s = WritePairs(pairs)
    /\ \E k \in 0 .. Len(pairs) : i = End(pairs, k) + 1 /\ out = DictOf(pairs, k)

\* Where the first pair begins, and where the last ends.
LEMMA Ends ==
    ASSUME NEW pairs, ArePairs(pairs)
    PROVE  End(pairs, 0) = 0 /\ End(pairs, Len(pairs)) = Len(WritePairs(pairs))
<1> DEFINE n == Len(pairs)
           items == Pieces(pairs)
           f == Upto(pairs)
<1>1. WritePairs(pairs) = Joined(items) /\ Len(items) = n /\ n \in Nat
  BY PiecesAre DEF ArePairs
<1>2. Joins(f, items, n)
  <2>1. \E g : Joins(g, items, n)
    BY <1>1, JoinsExist, Zenon
  <2> QED
    BY <2>1, Zenon DEF Upto
<1> HIDE DEF f, items, n
<1>3. Joined(items) = f[n]
  BY <1>1, <1>2, JoinedIs, Zenon
<1>4. f[0] = <<>>
  <2>1. 0 \in 0 .. n
    BY <1>1
  <2> QED
    BY <1>2, <2>1 DEF Joins
<1>5. Len(f[0]) = 0
  BY <1>4
<1> QED
  BY <1>1, <1>3, <1>5, Zenon DEF End, f, n

\* A text that is written is read from its beginning.
LEMMA ReadingStarts ==
    ASSUME NEW pairs, ArePairs(pairs)
    PROVE  \E k \in 0 .. Len(pairs) : 1 = End(pairs, k) + 1 /\ <<>> = DictOf(pairs, k)
<1>1. 0 \in 0 .. Len(pairs)
  BY DEF ArePairs
<1>2. 1 = End(pairs, 0) + 1
  BY Ends
<1>3. <<>> = DictOf(pairs, 0)
  BY DictOfAll
<1> QED
  BY <1>1, <1>2, <1>3, Zenon

\* It is read pair by pair, to the end, and then normalised.
LEMMA ReadingStep ==
    ASSUME TypeInv, NEW pairs, Proper(pairs), Reading(pairs), Next
    PROVE  Reading(pairs)' \/ (Parsed /\ out' = NormalizePaths(Dict(pairs)))
<1>1. PICK k \in 0 .. Len(pairs) : i = End(pairs, k) + 1 /\ out = DictOf(pairs, k)
  BY Zenon DEF Reading
<1>2. phase = "parse" /\ s = WritePairs(pairs) /\ s \in Text /\ Len(pairs) \in Nat
  BY DEF Reading, TypeInv, Proper, ArePairs
<1>3. CASE k = Len(pairs)
  <2>1. i = Len(s) + 1
    BY <1>1, <1>2, <1>3, Ends, Zenon DEF Proper
  <2>2. Parsed
    BY <1>2, <2>1, NothingMore
  <2>3. out = Dict(pairs)
    BY <1>1, <1>3, DictOfAll, Zenon
  <2>4. out' = NormalizePaths(out)
    BY <2>2, Zenon DEF Parsed
  <2> QED
    BY <2>2, <2>3, <2>4, Zenon
<1>4. CASE k # Len(pairs)
  <2>1. k \in 0 .. Len(pairs) - 1 /\ k + 1 \in 0 .. Len(pairs) /\ k \in Nat
    BY <1>1, <1>2, <1>4
  <2>2. AtPair(pairs, k)
    BY <1>1, <1>2, <2>1, Zenon DEF AtPair
  <2>3. Takes(Put(out, pairs[k + 1].key, pairs[k + 1].value), End(pairs, k + 1) + 1)
    BY <1>2, <2>2, RoundReads, Zenon
  <2>4. Takes(DictOf(pairs, k + 1), End(pairs, k + 1) + 1)
    BY <1>1, <2>1, <2>3, PutNext, Zenon
  <2>5. phase' = "parse" /\ s' = WritePairs(pairs) /\ i' = End(pairs, k + 1) + 1 /\ out' = DictOf(pairs, k + 1)
    BY <1>2, <2>4, Zenon DEF Takes
  <2>6. \E m \in 0 .. Len(pairs) : i' = End(pairs, m) + 1 /\ out' = DictOf(pairs, m)
    BY <2>1, <2>5, Zenon
  <2> QED
    BY <2>5, <2>6, Zenon DEF Reading
<1> QED
  BY <1>3, <1>4

\* The arguments the model means, in its own text.
ArePlain(pairs) == \A k \in 1 .. Len(pairs) : Plain(pairs[k].value)

GivenInv ==
    \A pairs \in Given :
        meant.kind = "given" /\ meant.it = pairs /\ ArePlain(pairs) =>
            \/ Reading(pairs)
            \/ phase = "parsed" /\ out = NormalizePaths(Dict(pairs))

\* A call that was sent back, in the text the template makes of it.
Writable(d) == \A key \in DOMAIN d : key \in Keys /\ Delimited(d[key]) /\ Plain(d[key])

AgainInv ==
    \A d : meant.kind = "again" /\ first = d /\ Writable(d) =>
            \/ Reading(PairsOf(d))
            \/ phase = "again" /\ out = NormalizePaths(Dict(PairsOf(d)))

LEMMA GivenProper == \A pairs \in Given : ArePlain(pairs) => Proper(pairs)
BY GivenPairs, Zenon DEF Proper, ArePlain

LEMMA WritableProper == ASSUME NEW d, IsDict(d), Writable(d) PROVE Proper(PairsOf(d))
<1>1. /\ ArePairs(PairsOf(d))
      /\ \A k \in 1 .. Len(PairsOf(d)) :
            PairsOf(d)[k].key \in DOMAIN d /\ PairsOf(d)[k].value = d[PairsOf(d)[k].key]
  BY PairsOfDict, Zenon
<1> QED
  BY <1>1 DEF Proper, Writable

\* The dict of the pairs a dict is written as is that dict.
LEMMA DictOfPairs ==
    ASSUME NEW d, IsDict(d)
    PROVE  Dict(PairsOf(d)) = d
<1> DEFINE q == PairsOf(d)
           f == Dict(q)
<1>1. /\ Len(q) \in Nat
      /\ \A k \in 1 .. Len(q) : q[k].key \in DOMAIN d /\ q[k].value = d[q[k].key]
      /\ \A a, b \in 1 .. Len(q) : q[a].key = q[b].key => a = b
      /\ \A key \in DOMAIN d : \E k \in 1 .. Len(q) : q[k].key = key
  BY PairsOfDict, Zenon DEF ArePairs
<1> HIDE DEF q
<1>2. {q[k].key : k \in 1 .. Len(q)} = DOMAIN d
  <2>1. {q[k].key : k \in 1 .. Len(q)} \subseteq DOMAIN d
    BY <1>1
  <2>2. ASSUME NEW key \in DOMAIN d PROVE key \in {q[k].key : k \in 1 .. Len(q)}
    BY <1>1
  <2> QED
    BY <2>1, <2>2
<1>3. f = [key \in DOMAIN d |-> f[key]]
  BY <1>2 DEF Dict
<1>4. ASSUME NEW key \in DOMAIN d PROVE f[key] = d[key]
  <2>1. PICK k \in 1 .. Len(q) : q[k].key = key
    BY <1>1
  <2> DEFINE A == {n \in 1 .. Len(q) : q[n].key = key}
  <2>2. A = {k}
    BY <1>1, <2>1
  <2>3. k \in A /\ A \in SUBSET Nat /\ \A y \in A : y <= k
    BY <1>1, <2>2
  <2>4. Max(A) = k
    BY <2>3, MaxIs
  <2>5. f[key] = q[Max(A)].value
    BY <1>2, Zenon DEF Dict
  <2> QED
    BY <1>1, <2>1, <2>4, <2>5
<1>5. d = [key \in DOMAIN d |-> d[key]]
  BY Zenon DEF IsDict
<1> HIDE DEF f
<1>6. f = d
  BY <1>3, <1>4, <1>5
<1> QED
  BY <1>6 DEF f, q

LEMMA ReadingStays == ASSUME NEW pairs, Reading(pairs), UNCHANGED vars PROVE Reading(pairs)'
BY Zenon DEF Reading, vars

LEMMA GivenNext ==
    ASSUME TypeInv, GivenInv, [Next]_vars
    PROVE  GivenInv'
<1> SUFFICES ASSUME NEW pairs \in Given, meant'.kind = "given", meant'.it = pairs, ArePlain(pairs)
             PROVE  Reading(pairs)' \/ (phase' = "parsed" /\ out' = NormalizePaths(Dict(pairs)))
  BY Zenon DEF GivenInv
<1>1. CASE UNCHANGED vars
  <2>1. meant' = meant /\ phase' = phase /\ out' = out
    BY <1>1, Zenon DEF vars
  <2>2. Reading(pairs) \/ (phase = "parsed" /\ out = NormalizePaths(Dict(pairs)))
    BY <2>1, Zenon DEF GivenInv
  <2> QED
    BY <1>1, <2>1, <2>2, ReadingStays, Zenon
<1>2. CASE Next /\ phase # "parse"
  <2>1. meant' = [kind |-> "again", it |-> <<>>]
    BY <1>2, ThenSentBack, SendBackIs, Zenon
  <2> QED
    BY <2>1
<1>3. CASE Next /\ phase = "parse"
  <2>1. meant' = meant
    BY <1>3, RoundKeeps
  <2>2. Reading(pairs)
    <3>1. phase # "parsed"
      BY <1>3
    <3> QED
      BY <2>1, <3>1, Zenon DEF GivenInv
  <2>3. Reading(pairs)' \/ (Parsed /\ out' = NormalizePaths(Dict(pairs)))
    BY <1>3, <2>2, ReadingStep, GivenProper, Zenon
  <2>4. Parsed => phase' = "parsed"
    BY <2>1 DEF Parsed
  <2> QED
    BY <2>3, <2>4, Zenon
<1> QED
  BY <1>1, <1>2, <1>3

\* Every list of arguments comes out as it was meant if what is in it that is
\* not a string is plain: numbers, {}, and lists whose strings hold no bracket,
\* double quote or backslash.  Its strings may hold anything but the delimiter;
\* only paths are normalised.
THEOREM RoundTripCorrect == Spec => []RoundTrip
<1>1. Init => GivenInv
  <2> SUFFICES ASSUME Init, NEW pairs \in Given, meant.kind = "given", meant.it = pairs
               PROVE  Reading(pairs)
    BY Zenon DEF GivenInv
  <2>1. i = 1 /\ out = <<>> /\ phase = "parse"
    BY Zenon DEF Init
  <2>2. s = WritePairs(pairs)
    <3>1. ASSUME NEW q \in Given, meant = [kind |-> "given", it |-> q] PROVE q = pairs
      BY <3>1
    <3>2. ASSUME NEW t \in Tails, meant = [kind |-> "tail", it |-> t] PROVE FALSE
      BY <3>2
    <3>3. ASSUME NEW text \in Texts, meant = [kind |-> "text", it |-> text] PROVE FALSE
      BY <3>3
    <3> QED
      BY <3>1, <3>2, <3>3, Zenon DEF Init
  <2>3. ArePairs(pairs)
    BY GivenPairs
  <2>4. \E k \in 0 .. Len(pairs) : i = End(pairs, k) + 1 /\ out = DictOf(pairs, k)
    BY <2>1, <2>2, <2>3, ReadingStarts, Zenon
  <2> QED
    BY <2>1, <2>2, <2>4, Zenon DEF Reading
<1>2. TypeInv /\ GivenInv /\ [Next]_vars => GivenInv'
  BY GivenNext
<1>3. TypeInv /\ GivenInv => RoundTrip
  <2> SUFFICES ASSUME TypeInv, GivenInv, phase = "parsed", meant.kind = "given", ArePlain(meant.it)
               PROVE  /\ DOMAIN out = DOMAIN Dict(meant.it)
                      /\ \A key \in DOMAIN out :
                           LET was == Dict(meant.it)[key] IN
                           /\ out[key].kind = was.kind
                           /\ IF was.kind = "str" /\ key \in PathKeys
                              THEN /\ Len(out[key].is) = Len(was.is)
                                   /\ \A p \in 1..Len(was.is) :
                                        out[key].is[p] = IF was.is[p] \in {HostSep, ForeignSep}
                                                         THEN HostSep ELSE was.is[p]
                              ELSE out[key].is = was.is
    BY Zenon DEF RoundTrip, ArePlain
  <2> DEFINE pairs == meant.it
             d == Dict(pairs)
  <2>1. pairs \in Given
    BY DEF TypeInv, MeantIs
  <2>2. ArePairs(pairs)
    BY <2>1, GivenPairs
  <2>3. out = NormalizePaths(d)
    <3>1. ~Reading(pairs)
      BY DEF Reading
    <3> QED
      BY <2>1, <3>1, Zenon DEF GivenInv
  <2>4. \A key \in DOMAIN d : d[key] \in Values
    <3> SUFFICES ASSUME NEW key \in DOMAIN d PROVE d[key] \in Values
      OBVIOUS
    <3> DEFINE A == {n \in 1 .. Len(pairs) : pairs[n].key = key}
    <3>1. PICK k \in 1 .. Len(pairs) : pairs[k].key = key
      BY DEF Dict
    <3>2. A \in SUBSET (0 .. Len(pairs)) /\ k \in A /\ Len(pairs) \in Nat
      BY <2>2, <3>1 DEF ArePairs
    <3>3. Max(A) \in A
      BY <3>2, GreatestOf
    <3>4. d[key] = pairs[Max(A)].value
      BY Zenon DEF Dict
    <3>5. Max(A) \in 1 .. Len(pairs)
      BY <3>3
    <3> QED
      BY <2>2, <3>4, <3>5, Zenon DEF ArePairs
  <2> HIDE DEF d
  <2>5. DOMAIN out = DOMAIN d
    BY <2>3 DEF NormalizePaths
  <2>6. ASSUME NEW key \in DOMAIN d
        PROVE  /\ out[key].kind = d[key].kind
               /\ IF d[key].kind = "str" /\ key \in PathKeys
                  THEN /\ Len(out[key].is) = Len(d[key].is)
                       /\ \A p \in 1..Len(d[key].is) :
                            out[key].is[p] = IF d[key].is[p] \in {HostSep, ForeignSep}
                                             THEN HostSep ELSE d[key].is[p]
                  ELSE out[key].is = d[key].is
    <3>1. out[key] = IF d[key].kind = "str" /\ key \in PathKeys THEN Str(Replace(d[key].is)) ELSE d[key]
      BY <2>3 DEF NormalizePaths
    <3>2. CASE d[key].kind = "str" /\ key \in PathKeys
      <4> DEFINE t == d[key].is
      <4>1. t \in Text
        BY <2>4, <3>2, KindOfValue
      <4>2. out[key].kind = "str" /\ out[key].is = Replace(t)
        BY <3>1, <3>2 DEF Str
      <4> HIDE DEF t
      <4>3. /\ Len(Replace(t)) = Len(t)
            /\ \A p \in 1 .. Len(t) : Replace(t)[p] = IF t[p] = ForeignSep THEN HostSep ELSE t[p]
        BY <4>1, ReplaceIs
      <4>4. \A p \in 1 .. Len(t) : Replace(t)[p] = IF t[p] \in {HostSep, ForeignSep} THEN HostSep ELSE t[p]
        BY <4>3
      <4> QED
        BY <3>2, <4>2, <4>3, <4>4, Zenon DEF t
    <3>3. CASE ~(d[key].kind = "str" /\ key \in PathKeys)
      BY <3>1, <3>3
    <3> QED
      BY <3>2, <3>3
  <2> QED
    BY <2>5, <2>6, Zenon DEF d
<1> QED
  BY <1>1, <1>2, <1>3, TypeCorrect, PTL DEF Spec

LEMMA AgainNext ==
    ASSUME TypeInv, NormInv, AgainInv, [Next]_vars
    PROVE  AgainInv'
<1> SUFFICES ASSUME NEW d, meant'.kind = "again", first' = d, Writable(d)
             PROVE  Reading(PairsOf(d))' \/ (phase' = "again" /\ out' = NormalizePaths(Dict(PairsOf(d))))
  BY Zenon DEF AgainInv
<1>1. CASE UNCHANGED vars
  <2>1. meant' = meant /\ phase' = phase /\ out' = out /\ first' = first
    BY <1>1, Zenon DEF vars
  <2>2. Reading(PairsOf(d)) \/ (phase = "again" /\ out = NormalizePaths(Dict(PairsOf(d))))
    BY <2>1, Zenon DEF AgainInv
  <2> QED
    BY <1>1, <2>1, <2>2, ReadingStays, Zenon
<1>2. CASE Next /\ phase # "parse"
  <2>1. /\ s' = WritePairs(PairsOf(out)) /\ i' = 1 /\ out' = <<>> /\ phase' = "parse" /\ first' = out
    BY <1>2, ThenSentBack, SendBackIs, Zenon
  <2>2. d = out /\ ArePairs(PairsOf(d))
    BY <2>1, PairsOfDict DEF TypeInv
  <2>3. s' = WritePairs(PairsOf(d))
    BY <2>1, <2>2, Zenon
  <2>4. \E k \in 0 .. Len(PairsOf(d)) : i' = End(PairsOf(d), k) + 1 /\ out' = DictOf(PairsOf(d), k)
    BY <2>1, <2>2, <2>3, ReadingStarts, Zenon
  <2> QED
    BY <2>1, <2>3, <2>4, Zenon DEF Reading
<1>3. CASE Next /\ phase = "parse"
  <2>1. meant' = meant /\ first' = first
    BY <1>3, RoundKeeps
  <2>2. Reading(PairsOf(d))
    <3>1. phase # "again"
      BY <1>3
    <3> QED
      BY <2>1, <3>1, Zenon DEF AgainInv
  <2>3. Proper(PairsOf(d))
    <3>1. IsDict(d)
      BY <2>1 DEF TypeInv
    <3> QED
      BY <3>1, WritableProper
  <2>4. Reading(PairsOf(d))' \/ (Parsed /\ out' = NormalizePaths(Dict(PairsOf(d))))
    BY <1>3, <2>2, <2>3, ReadingStep, Zenon
  <2>5. Parsed => phase' = "again"
    BY <2>1 DEF Parsed
  <2> QED
    BY <2>4, <2>5, Zenon
<1> QED
  BY <1>1, <1>2, <1>3

\* A call that is sent back comes out of the next turn as it went in, if its
\* keys are words, no string of it holds the delimiter, and what is not a string
\* is plain.
THEOREM NextTurnCorrect == Spec => []SurvivesNextTurn
<1>1. Init => AgainInv
  <2>1. Init => meant.kind # "again"
    <3>1. ASSUME NEW q, meant = [kind |-> "given", it |-> q] PROVE meant.kind # "again"
      BY <3>1
    <3>2. ASSUME NEW t, meant = [kind |-> "tail", it |-> t] PROVE meant.kind # "again"
      BY <3>2
    <3>3. ASSUME NEW text, meant = [kind |-> "text", it |-> text] PROVE meant.kind # "again"
      BY <3>3
    <3> QED
      BY <3>1, <3>2, <3>3, Zenon DEF Init
  <2> QED
    BY <2>1, Zenon DEF AgainInv
<1>2. TypeInv /\ NormInv /\ AgainInv /\ [Next]_vars => AgainInv'
  BY AgainNext
<1>3. TypeInv /\ NormInv /\ AgainInv => SurvivesNextTurn
  <2> SUFFICES ASSUME TypeInv, NormInv, AgainInv, phase = "again", Writable(first) PROVE out = first
    BY Zenon DEF SurvivesNextTurn, Writable
  <2>1. meant.kind = "again" /\ NormalizePaths(first) = first /\ IsDict(first)
    BY DEF NormInv, TypeInv
  <2>2. ~Reading(PairsOf(first))
    BY DEF Reading
  <2>3. out = NormalizePaths(Dict(PairsOf(first)))
    BY <2>1, <2>2, Zenon DEF AgainInv
  <2>4. Dict(PairsOf(first)) = first
    BY <2>1, DictOfPairs, Zenon
  <2> QED
    BY <2>1, <2>3, <2>4, Zenon
<1> QED
  BY <1>1, <1>2, <1>3, TypeCorrect, NormCorrect, PTL DEF Spec


=============================================================================
