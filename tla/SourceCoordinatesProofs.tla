------------------------ MODULE SourceCoordinatesProofs -----------------------
(***************************************************************************)
(* Coordinates can be sent back, for every text, every length and every change: *)
(* what byte_offset and position_from_utf16 of                                  *)
(* src/crates/tsz-core/src/source.rs do to each other.                          *)
(***************************************************************************)
EXTENDS EditorMC, SequenceTheorems, FiniteSetTheorems, WellFoundedInduction, TLAPS

-----------------------------------------------------------------------------
(***************************************************************************)
(* Numbers.  The library's induction takes a predicate, here it is a set.      *)
(***************************************************************************)
\* What holds of a number when it holds of all smaller ones holds of all.
LEMMA Complete ==
    ASSUME NEW ns, \A n \in Nat : (\A m \in Nat : m < n => m \in ns) => n \in ns
    PROVE  Nat \subseteq ns
<1> DEFINE Less == OpToRel(<, Nat)
           rest == Nat \ ns
<1> SUFFICES ASSUME rest # {} PROVE FALSE
    OBVIOUS
<1>1. IsWellFoundedOn(Less, Nat)
    BY NatLessThanWellFounded
<1>2. PICK n \in rest : \A m \in rest : ~(<<m, n>> \in Less)
  <2>1. rest \in SUBSET Nat /\ rest # {}
      OBVIOUS
  <2> HIDE DEF Less, rest
  <2> QED BY <1>1, <2>1, WFMin
<1>3. \A m \in Nat : m < n => m \in ns
    BY <1>2 DEF OpToRel
<1> QED BY <1>2, <1>3

\* The same one by one.
LEMMA OneByOne ==
    ASSUME NEW ns, 0 \in ns, \A n \in Nat : n \in ns => n + 1 \in ns
    PROVE  Nat \subseteq ns
<1>1. ASSUME NEW n \in Nat, \A m \in Nat : m < n => m \in ns
      PROVE  n \in ns
  <2>1. CASE n = 0
      BY <2>1
  <2>2. CASE n # 0
    <3>1. n - 1 \in Nat /\ n - 1 < n /\ (n - 1) + 1 = n
        BY <2>2
    <3> QED BY <1>1, <3>1
  <2> QED BY <2>1, <2>2
<1> QED BY <1>1, Complete

\* The largest of a set of numbers.
LEMMA Largest ==
    ASSUME NEW n \in Nat, NEW S \in SUBSET (1..n), S # {}
    PROVE  Max(S) \in S /\ \A i \in S : i <= Max(S)
<1> DEFINE ns == {k \in Nat : k <= n => (S \cap 1..k = {} \/ \E m \in S \cap 1..k : \A i \in S \cap 1..k : i <= m)}
<1>1. 0 \in ns
    OBVIOUS
<1>2. ASSUME NEW k \in Nat, k \in ns, k + 1 <= n
      PROVE  S \cap 1..(k + 1) = {} \/ \E m \in S \cap 1..(k + 1) : \A i \in S \cap 1..(k + 1) : i <= m
  <2>1. \A i \in 1..(k + 1) : i \in 1..k \/ i = k + 1
      OBVIOUS
  <2>2. 1..k \subseteq 1..(k + 1) /\ k + 1 \in 1..(k + 1) /\ k <= n
      BY <1>2
  <2>3. CASE k + 1 \in S
    <3>1. \A i \in 1..(k + 1) : i <= k + 1
        OBVIOUS
    <3> QED BY <2>2, <2>3, <3>1
  <2>4. CASE k + 1 \notin S
    <3>1. S \cap 1..(k + 1) = S \cap 1..k
        BY <2>1, <2>2, <2>4
    <3>2. S \cap 1..k = {} \/ \E m \in S \cap 1..k : \A i \in S \cap 1..k : i <= m
        BY <1>2, <2>2
    <3> QED BY <3>1, <3>2
  <2> QED BY <2>3, <2>4
<1>3. Nat \subseteq ns
  <2>1. \A k \in Nat : k \in ns => k + 1 \in ns
      BY <1>2
  <2> HIDE DEF ns
  <2> QED BY <1>1, <2>1, OneByOne
<1>4. n \in ns /\ S \cap 1..n = S
    BY <1>3
<1>5. \E m \in S : \A i \in S : i <= m
    BY <1>4
<1>6. \A i \in S : i \in Int
    OBVIOUS
<1>7. \E x \in S : \A y \in S : x >= y
    BY <1>5, <1>6
<1>8. Max(S) \in S /\ \A y \in S : Max(S) >= y
    BY <1>7 DEF Max
<1> QED BY <1>6, <1>8

-----------------------------------------------------------------------------
(***************************************************************************)
(* Sums.  A fold is a function on the sets of positions, given by an equation:  *)
(* it has to be shown that there is one.                                        *)
(***************************************************************************)
SumOver(w, q, f, S) == IF S = {} THEN 0 ELSE f[S \ {Max(S)}] + w[q[Max(S)]]
Sums(w, q) == CHOOSE f : f = [S \in SUBSET DOMAIN q |-> SumOver(w, q, f, S)]

\* A fold over all of a sequence is such a sum.
LEMMA FoldIsSum ==
    ASSUME NEW w, NEW q
    PROVE  FoldLeft(LAMBDA n, c : n + w[c], 0, q) = Sums(w, q)[DOMAIN q]
BY DEF FoldLeft, MapThenFoldSet, Sums, SumOver

\* The function exists, whatever the widths and the sequence.
LEMMA SumsAre ==
    ASSUME NEW w, NEW q, NEW n \in Nat, DOMAIN q = 1..n
    PROVE  \A S \in SUBSET (1..n) : Sums(w, q)[S] = SumOver(w, q, Sums(w, q), S)
<1> DEFINE Good(m) == \E f : \A S \in SUBSET (1..n) : S \subseteq 1..m => f[S] = SumOver(w, q, f, S)
           ns == {m \in Nat : Good(m)}
<1>1. 0 \in ns
  <2> DEFINE f == [S \in SUBSET (1..n) |-> 0]
  <2>1. \A S \in SUBSET (1..n) : S \subseteq 1..0 => f[S] = SumOver(w, q, f, S)
      BY DEF SumOver
  <2> HIDE DEF f
  <2> QED BY <2>1
<1>2. ASSUME NEW m \in Nat, m \in ns
      PROVE  m + 1 \in ns
  <2>1. PICK f : \A S \in SUBSET (1..n) : S \subseteq 1..m => f[S] = SumOver(w, q, f, S)
      BY <1>2
  <2> DEFINE g == [S \in SUBSET (1..n) |-> SumOver(w, q, f, S)]
  <2>2. ASSUME NEW S \in SUBSET (1..n), S \subseteq 1..(m + 1)
        PROVE  g[S] = SumOver(w, q, g, S)
    <3>1. CASE S = {}
        BY <3>1 DEF SumOver
    <3>2. CASE S # {}
      <4>1. Max(S) \in S /\ \A i \in S : i <= Max(S)
          BY <3>2, Largest
      <4> DEFINE R == S \ {Max(S)}
      <4>2. R \in SUBSET (1..n) /\ R \subseteq 1..m
        <5>1. ASSUME NEW i \in R PROVE i \in 1..m
          <6>1. i \in 1..(m + 1) /\ Max(S) \in 1..(m + 1) /\ i <= Max(S) /\ i # Max(S)
              BY <2>2, <4>1
          <6> QED BY <6>1
        <5> QED BY <5>1
      <4>3. f[R] = SumOver(w, q, f, R) /\ g[R] = SumOver(w, q, f, R)
          BY <2>1, <4>2
      <4>4. SumOver(w, q, f, S) = f[R] + w[q[Max(S)]] /\ SumOver(w, q, g, S) = g[R] + w[q[Max(S)]]
          BY <3>2 DEF SumOver
      <4> QED BY <4>3, <4>4
    <3> QED BY <3>1, <3>2
  <2> HIDE DEF g
  <2> QED BY <2>2
<1>3. n \in ns
  <2>1. \A m \in Nat : m \in ns => m + 1 \in ns
      BY <1>2
  <2> HIDE DEF ns
  <2> QED BY <1>1, <2>1, OneByOne
<1>4. PICK f : \A S \in SUBSET (1..n) : f[S] = SumOver(w, q, f, S)
    BY <1>3
<1> DEFINE g == [S \in SUBSET (1..n) |-> f[S]]
           P(h) == h = [S \in SUBSET DOMAIN q |-> SumOver(w, q, h, S)]
<1>5. ASSUME NEW S \in SUBSET (1..n) PROVE SumOver(w, q, f, S) = SumOver(w, q, g, S)
  <2>1. S # {} => S \ {Max(S)} \in SUBSET (1..n)
      OBVIOUS
  <2> QED BY <2>1 DEF SumOver
<1>6. P(g)
  <2>1. \A S \in SUBSET (1..n) : g[S] = SumOver(w, q, g, S)
      BY <1>4, <1>5
  <2>2. g = [S \in SUBSET (1..n) |-> g[S]]
      OBVIOUS
  <2> HIDE DEF g
  <2> QED BY <2>1, <2>2
<1>7. Sums(w, q) = CHOOSE h : P(h)
    BY DEF Sums
<1> HIDE DEF P
<1>8. P(Sums(w, q))
    BY <1>6, <1>7
<1>9. Sums(w, q) = [S \in SUBSET (1..n) |-> SumOver(w, q, Sums(w, q), S)]
    BY <1>8 DEF P
<1> QED BY <1>9

\* One position more adds what it holds.
LEMMA SumsUpTo ==
    ASSUME NEW w, NEW q, NEW n \in Nat, DOMAIN q = 1..n
    PROVE  /\ Sums(w, q)[1..0] = 0
           /\ \A k \in Nat : k < n => Sums(w, q)[1..(k + 1)] = Sums(w, q)[1..k] + w[q[k + 1]]
<1> DEFINE f == Sums(w, q)
<1>1. \A S \in SUBSET (1..n) : f[S] = SumOver(w, q, f, S)
    BY SumsAre
<1> HIDE DEF f
<1>2. f[1..0] = 0
  <2>1. 1..0 = {} /\ {} \in SUBSET (1..n)
      OBVIOUS
  <2>2. f[{}] = SumOver(w, q, f, {})
      BY <1>1, <2>1
  <2> QED BY <2>1, <2>2 DEF SumOver
<1>3. ASSUME NEW k \in Nat, k < n
      PROVE  f[1..(k + 1)] = f[1..k] + w[q[k + 1]]
  <2>1. 1..(k + 1) \in SUBSET (1..n) /\ 1..(k + 1) # {} /\ k + 1 \in 1..(k + 1) /\ k + 1 \in Nat
    <3>1. k + 1 \in Nat /\ k + 1 <= n /\ k + 1 \in 1..(k + 1)
        BY <1>3
    <3>2. \A i \in 1..(k + 1) : i \in 1..n
        BY <3>1
    <3> QED BY <3>1, <3>2
  <2>2. Max(1..(k + 1)) = k + 1
    <3>1. PICK m : m = Max(1..(k + 1))
        OBVIOUS
    <3>2. m \in 1..(k + 1) /\ k + 1 <= m
        BY <2>1, <3>1, Largest
    <3> QED BY <3>1, <3>2
  <2>3. 1..(k + 1) \ {k + 1} = 1..k
      OBVIOUS
  <2>4. f[1..(k + 1)] = SumOver(w, q, f, 1..(k + 1))
      BY <1>1, <2>1
  <2> QED BY <2>1, <2>2, <2>3, <2>4 DEF SumOver
<1> QED BY <1>2, <1>3 DEF f

\* The sum up to a position is of what comes before it only.
LEMMA SumsAgree ==
    ASSUME NEW w, NEW q, NEW n \in Nat, DOMAIN q = 1..n,
           NEW r, NEW m \in Nat, DOMAIN r = 1..m,
           NEW k \in Nat, k <= n, k <= m, \A i \in 1..k : q[i] = r[i]
    PROVE  Sums(w, q)[1..k] = Sums(w, r)[1..k]
<1> DEFINE ns == {i \in Nat : i <= k => Sums(w, q)[1..i] = Sums(w, r)[1..i]}
<1>1. 0 \in ns
    BY SumsUpTo
<1>2. ASSUME NEW i \in Nat, i \in ns, i + 1 <= k
      PROVE  Sums(w, q)[1..(i + 1)] = Sums(w, r)[1..(i + 1)]
  <2>1. i < n /\ i < m /\ i <= k /\ i + 1 \in 1..k
      BY <1>2
  <2>2. Sums(w, q)[1..(i + 1)] = Sums(w, q)[1..i] + w[q[i + 1]]
      BY <2>1, SumsUpTo
  <2>3. Sums(w, r)[1..(i + 1)] = Sums(w, r)[1..i] + w[r[i + 1]]
      BY <2>1, SumsUpTo
  <2> QED BY <1>2, <2>1, <2>2, <2>3
<1>3. Nat \subseteq ns
  <2>1. \A i \in Nat : i \in ns => i + 1 \in ns
      BY <1>2
  <2> HIDE DEF ns
  <2> QED BY <1>1, <2>1, OneByOne
<1> QED BY <1>3

\* The width of the text before a boundary, one character after the other.
LEMMA TotalStep ==
    ASSUME NEW w, NEW S, NEW t \in Seq(S)
    PROVE  /\ Total(w, t, 0) = 0
           /\ \A i \in 0..(Len(t) - 1) : Total(w, t, i + 1) = Total(w, t, i) + w[t[i + 1]]
<1>0. Len(t) \in Nat
    OBVIOUS
<1>1. \A i : Total(w, t, i) = Sums(w, SubSeq(t, 1, i))[DOMAIN SubSeq(t, 1, i)]
    BY DEF Total, FoldLeft, MapThenFoldSet, Sums, SumOver
<1>2. \A i \in 0..Len(t) : DOMAIN SubSeq(t, 1, i) = 1..i /\ \A k \in 1..i : SubSeq(t, 1, i)[k] = t[k]
  <2> TAKE i \in 0..Len(t)
  <2>1. i \in Nat /\ i <= Len(t)
      BY <1>0
  <2>2. SubSeq(t, 1, i) = [k \in 1..i |-> t[k]]
      BY <2>1
  <2> QED BY <2>2
<1>3. Total(w, t, 0) = 0
  <2>1. 0 \in 0..Len(t)
      BY <1>0
  <2>2. DOMAIN SubSeq(t, 1, 0) = 1..0
      BY <1>2, <2>1
  <2>3. PICK q : q = SubSeq(t, 1, 0) /\ DOMAIN q = 1..0 /\ 0 \in Nat
      BY <2>2
  <2>4. Sums(w, q)[1..0] = 0
      BY <2>3, SumsUpTo
  <2> QED BY <1>1, <2>3, <2>4
<1>4. ASSUME NEW i \in 0..(Len(t) - 1)
      PROVE  Total(w, t, i + 1) = Total(w, t, i) + w[t[i + 1]]
  <2>1. i \in Nat /\ i + 1 \in Nat /\ i \in 0..Len(t) /\ i + 1 \in 0..Len(t) /\ i < i + 1 /\ i <= i + 1
      BY <1>0
  <2>2. PICK q, r : q = SubSeq(t, 1, i) /\ r = SubSeq(t, 1, i + 1)
      OBVIOUS
  <2>3. /\ DOMAIN q = 1..i /\ DOMAIN r = 1..(i + 1)
        /\ \A k \in 1..i : q[k] = t[k]
        /\ \A k \in 1..(i + 1) : r[k] = t[k]
      BY <1>2, <2>1, <2>2
  <2>4. \A k \in 1..i : q[k] = r[k]
    <3>1. 1..i \subseteq 1..(i + 1)
        BY <2>1
    <3> QED BY <2>3, <3>1
  <2>5. Sums(w, q)[1..i] = Sums(w, r)[1..i]
      BY <2>1, <2>3, <2>4, SumsAgree
  <2>6. Sums(w, r)[1..(i + 1)] = Sums(w, r)[1..i] + w[r[i + 1]]
      BY <2>1, <2>3, SumsUpTo
  <2>7. r[i + 1] = t[i + 1]
    <3>1. i + 1 \in 1..(i + 1)
        BY <2>1
    <3> QED BY <2>3, <3>1
  <2> QED BY <1>1, <2>2, <2>3, <2>5, <2>6, <2>7
<1> QED BY <1>3, <1>4

\* A boundary further on has more before it.
LEMMA TotalGrows ==
    ASSUME NEW w \in [Char -> Nat \ {0}], NEW t \in Seq(Char)
    PROVE  /\ \A i \in Boundaries(t) : Total(w, t, i) \in Nat
           /\ \A i, j \in Boundaries(t) : i < j => Total(w, t, i) < Total(w, t, j)
<1>0. PICK n, f : n = Len(t) /\ f = [i \in 0..n |-> Total(w, t, i)]
    OBVIOUS
<1>1. n \in Nat /\ Boundaries(t) = 0..n /\ \A i \in 0..n : f[i] = Total(w, t, i)
    BY <1>0 DEF Boundaries
<1>2. f[0] = 0 /\ \A i \in 0..(n - 1) : f[i + 1] = f[i] + w[t[i + 1]] /\ w[t[i + 1]] \in Nat \ {0}
  <2>1. Total(w, t, 0) = 0 /\ \A i \in 0..(n - 1) : Total(w, t, i + 1) = Total(w, t, i) + w[t[i + 1]]
      BY <1>0, TotalStep
  <2>2. \A i \in 0..(n - 1) : i \in 0..n /\ i + 1 \in 0..n /\ i + 1 \in 1..n
      BY <1>1
  <2>3. \A i \in 1..n : t[i] \in Char
      BY <1>0
  <2> QED BY <1>1, <2>1, <2>2, <2>3
<1> DEFINE ns == {j \in Nat : j <= n => f[j] \in Nat /\ \A i \in 0..n : i < j => f[i] \in Nat /\ f[i] < f[j]}
<1>3. 0 \in ns
    BY <1>2
<1>4. ASSUME NEW j \in Nat, j \in ns, j + 1 <= n
      PROVE  f[j + 1] \in Nat /\ \A i \in 0..n : i < j + 1 => f[i] \in Nat /\ f[i] < f[j + 1]
  <2>1. j <= n /\ j \in 0..(n - 1)
      BY <1>1, <1>4
  <2>2. f[j] \in Nat /\ \A i \in 0..n : i < j => f[i] \in Nat /\ f[i] < f[j]
      BY <1>4, <2>1
  <2>3. f[j + 1] = f[j] + w[t[j + 1]] /\ w[t[j + 1]] \in Nat \ {0}
      BY <1>2, <2>1
  <2>4. f[j + 1] \in Nat /\ f[j] < f[j + 1]
      BY <2>2, <2>3
  <2>5. ASSUME NEW i \in 0..n, i < j + 1 PROVE f[i] \in Nat /\ f[i] < f[j + 1]
    <3>1. CASE i = j
        BY <2>2, <2>4, <3>1
    <3>2. CASE i # j
      <4>1. i < j
          BY <2>5, <3>2
      <4>2. f[i] < f[j] /\ f[i] \in Nat
          BY <2>2, <4>1
      <4> QED BY <2>2, <2>4, <4>2
    <3> QED BY <3>1, <3>2
  <2> QED BY <2>4, <2>5
<1>5. Nat \subseteq ns
  <2>1. \A j \in Nat : j \in ns => j + 1 \in ns
      BY <1>4
  <2> HIDE DEF ns
  <2> QED BY <1>3, <2>1, OneByOne
<1>6. \A j \in 0..n : f[j] \in Nat /\ \A i \in 0..n : i < j => f[i] < f[j]
  <2>1. \A j \in 0..n : j \in Nat /\ j <= n
      BY <1>1
  <2> QED BY <1>5, <2>1
<1> QED BY <1>1, <1>6

-----------------------------------------------------------------------------
(***************************************************************************)
(* Lines.                                                                      *)
(***************************************************************************)
LEMMA AscendingIs ==
    ASSUME NEW n \in Nat, NEW S \in SUBSET (1..n)
    PROVE  /\ Cardinality(S) \in Nat
           /\ Ascending(S) \in [1..Cardinality(S) -> S]
           /\ \A i, j \in 1..Cardinality(S) : i < j => Ascending(S)[i] < Ascending(S)[j]
           /\ \A x \in S : \E i \in 1..Cardinality(S) : Ascending(S)[i] = x
<1> DEFINE Rises(T, s) == s \in [1..Cardinality(T) -> T] /\ \A i, j \in 1..Cardinality(T) : i < j => s[i] < s[j]
           ns == {m \in Nat : \E s : Rises(S \cap 1..m, s)}
<1>1. \A T \in SUBSET (1..n) : IsFiniteSet(T) /\ Cardinality(T) \in Nat
  <2>1. IsFiniteSet(1..n)
      BY FS_Interval
  <2> QED BY <2>1, FS_Subset, FS_CardinalityType
<1>2. 0 \in ns
  <2>1. S \cap 1..0 = {} /\ Cardinality({}) = 0 /\ 1..0 = {}
      BY FS_EmptySet
  <2>2. [i \in {} |-> i] \in [{} -> {}]
      OBVIOUS
  <2>3. Rises(S \cap 1..0, [i \in {} |-> i])
      BY <2>1, <2>2
  <2> HIDE DEF Rises
  <2> QED BY <2>3
<1>3. ASSUME NEW m \in Nat, m \in ns PROVE m + 1 \in ns
  <2>1. PICK s : Rises(S \cap 1..m, s)
      BY <1>3
  <2>2. PICK T, c : T = S \cap 1..m /\ c = Cardinality(T)
      OBVIOUS
  <2>3. c \in Nat /\ T \in SUBSET (1..n) /\ IsFiniteSet(T)
      BY <1>1, <2>2
  <2>4. s \in [1..c -> T] /\ \A i, j \in 1..c : i < j => s[i] < s[j]
      BY <2>1, <2>2
  <2>5. CASE m + 1 \notin S
    <3>1. S \cap 1..(m + 1) = S \cap 1..m
      <4>1. \A i \in 1..(m + 1) : i \in 1..m \/ i = m + 1
          OBVIOUS
      <4>2. 1..m \subseteq 1..(m + 1)
          OBVIOUS
      <4> QED BY <2>5, <4>1, <4>2
    <3>2. \E r : Rises(S \cap 1..(m + 1), r)
      <4> HIDE DEF Rises
      <4> QED BY <2>1, <3>1
    <3> HIDE DEF Rises
    <3> QED BY <3>2
  <2>6. CASE m + 1 \in S
    <3>1. PICK U : U = S \cap 1..(m + 1)
        OBVIOUS
    <3>2. U = T \cup {m + 1} /\ m + 1 \notin T
      <4>1. \A i \in 1..(m + 1) : i \in 1..m \/ i = m + 1
          OBVIOUS
      <4>2. 1..m \subseteq 1..(m + 1) /\ m + 1 \in 1..(m + 1) /\ m + 1 \notin 1..m
          OBVIOUS
      <4> QED BY <2>2, <2>6, <3>1, <4>1, <4>2
    <3>3. Cardinality(U) = c + 1
        BY <2>2, <2>3, <3>2, FS_AddElement
    <3> DEFINE r == [i \in 1..(c + 1) |-> IF i = c + 1 THEN m + 1 ELSE s[i]]
    <3>4. \A i \in 1..(c + 1) : i # c + 1 => i \in 1..c /\ s[i] \in T
        BY <2>3, <2>4
    <3>5. r \in [1..(c + 1) -> U]
        BY <3>2, <3>4
    <3>6. ASSUME NEW i \in 1..(c + 1), NEW j \in 1..(c + 1), i < j PROVE r[i] < r[j]
      <4>1. i # c + 1 /\ i \in 1..c
          BY <2>3, <3>6
      <4>2. r[i] = s[i] /\ s[i] \in 1..m
          BY <2>2, <3>4, <4>1
      <4>3. CASE j = c + 1
          BY <4>2, <4>3
      <4>4. CASE j # c + 1
          BY <2>4, <3>4, <3>6, <4>1, <4>2, <4>4
      <4> QED BY <4>3, <4>4
    <3> HIDE DEF r
    <3>7. Rises(U, r)
        BY <3>3, <3>5, <3>6
    <3>8. \E p : Rises(S \cap 1..(m + 1), p)
      <4> HIDE DEF Rises
      <4> QED BY <3>1, <3>7
    <3> HIDE DEF Rises
    <3> QED BY <3>8
  <2> QED BY <2>5, <2>6
<1>4. n \in ns
  <2>1. \A m \in Nat : m \in ns => m + 1 \in ns
      BY <1>3
  <2> HIDE DEF ns
  <2> QED BY <1>2, <2>1, OneByOne
<1>5. S \cap 1..n = S
    OBVIOUS
<1>6. PICK c : c = Cardinality(S) /\ c \in Nat /\ IsFiniteSet(S)
    BY <1>1
<1>7. \E s : s \in [1..c -> S] /\ \A i, j \in 1..c : i < j => s[i] < s[j]
    BY <1>4, <1>5, <1>6
<1>8. PICK s : s = Ascending(S)
    OBVIOUS
<1>9. s \in [1..c -> S] /\ \A i, j \in 1..c : i < j => s[i] < s[j]
  <2>1. s = CHOOSE r \in [1..c -> S] : \A i, j \in DOMAIN r : i < j => r[i] < r[j]
      BY <1>6, <1>8 DEF Ascending
  <2> QED BY <1>7, <2>1
<1>10. \A x \in S : \E i \in 1..c : s[i] = x
  <2>1. s \in Injection(1..c, S)
    <3> SUFFICES ASSUME NEW i \in 1..c, NEW j \in 1..c, s[i] = s[j] PROVE i = j
        BY <1>9 DEF Injection, IsInjective
    <3>1. s[i] \in Nat /\ s[j] \in Nat
      <4>1. \A x \in S : x \in Nat
          OBVIOUS
      <4> QED BY <1>9, <4>1
    <3>2. ~(i < j) /\ ~(j < i)
        BY <1>9, <3>1
    <3> QED BY <3>2
  <2>2. Cardinality(1..c) = c
      BY <1>6, FS_Interval
  <2>3. s \in Surjection(1..c, S)
      BY <1>6, <2>1, <2>2, FS_Injection
  <2> QED BY <2>3 DEF Surjection
<1> QED BY <1>6, <1>8, <1>9, <1>10

\* The boundaries at which the lines start.
Ends(t) == {i \in 1..Len(t) : EndsLine(t, i)}
Starts(t) == [l \in 1..(Cardinality(Ends(t)) + 1) |-> IF l = 1 THEN 0 ELSE Ascending(Ends(t))[l - 1]]

\* There is a first line, and each next one starts later.
LEMMA StartsAre ==
    ASSUME NEW t \in Seq(Char)
    PROVE  /\ Cardinality(Ends(t)) \in Nat
           /\ Starts(t) \in [1..(Cardinality(Ends(t)) + 1) -> Boundaries(t)]
           /\ Starts(t)[1] = 0
           /\ \A k, l \in 1..(Cardinality(Ends(t)) + 1) : k < l => Starts(t)[k] < Starts(t)[l]
<1>0. PICK n, m, s, head : n = Len(t) /\ m = Cardinality(Ends(t)) /\ s = Ascending(Ends(t)) /\ head = Starts(t)
    OBVIOUS
<1>1. n \in Nat /\ Ends(t) \in SUBSET (1..n)
    BY <1>0 DEF Ends
<1>2. m \in Nat /\ s \in [1..m -> 1..n] /\ \A i, j \in 1..m : i < j => s[i] < s[j]
  <2>1. PICK S : S = Ends(t) /\ S \in SUBSET (1..n)
      BY <1>1
  <2>2. /\ Cardinality(S) \in Nat /\ Ascending(S) \in [1..Cardinality(S) -> S]
        /\ \A i, j \in 1..Cardinality(S) : i < j => Ascending(S)[i] < Ascending(S)[j]
      BY <1>1, <2>1, AscendingIs
  <2> QED BY <1>0, <2>1, <2>2
<1>3. head = [l \in 1..(m + 1) |-> IF l = 1 THEN 0 ELSE s[l - 1]]
    BY <1>0 DEF Starts
<1>4. \A l \in 1..(m + 1) : l # 1 => l - 1 \in 1..m /\ head[l] = s[l - 1] /\ s[l - 1] \in 1..n
    BY <1>2, <1>3
<1>5. head[1] = 0
    BY <1>2, <1>3
<1>6. head \in [1..(m + 1) -> 0..n]
    BY <1>1, <1>2, <1>3, <1>4
<1>7. ASSUME NEW k \in 1..(m + 1), NEW l \in 1..(m + 1), k < l PROVE head[k] < head[l]
  <2>1. l # 1
      BY <1>2, <1>7
  <2>2. CASE k = 1
      BY <1>1, <1>4, <1>5, <2>1, <2>2
  <2>3. CASE k # 1
    <3>1. k - 1 < l - 1
        BY <1>2, <1>7
    <3> QED BY <1>2, <1>4, <2>1, <2>3, <3>1
  <2> QED BY <2>2, <2>3
<1> QED BY <1>0, <1>2, <1>5, <1>6, <1>7 DEF Boundaries

\* The index has the byte and the unit of each start.
LEMMA IndexIs ==
    ASSUME NEW t \in Seq(Char)
    PROVE  /\ Index(t) \in Seq([byte : Nat, unit : Nat])
           /\ Len(Index(t)) = Cardinality(Ends(t)) + 1
           /\ DOMAIN Index(t) = 1..(Cardinality(Ends(t)) + 1)
           /\ \A l \in 1..(Cardinality(Ends(t)) + 1) :
                 Index(t)[l].byte = Byte(t, Starts(t)[l]) /\ Index(t)[l].unit = Unit(t, Starts(t)[l])
<1>0. PICK n, m, s, head : n = Len(t) /\ m = Cardinality(Ends(t)) /\ s = Ascending(Ends(t)) /\ head = Starts(t)
    OBVIOUS
<1>1. n \in Nat /\ Ends(t) \in SUBSET (1..n)
    BY <1>0 DEF Ends
<1>2. m \in Nat /\ s \in [1..m -> 1..n]
  <2>1. PICK S : S = Ends(t) /\ S \in SUBSET (1..n)
      BY <1>1
  <2>2. Cardinality(S) \in Nat /\ Ascending(S) \in [1..Cardinality(S) -> S]
      BY <1>1, <2>1, AscendingIs
  <2> QED BY <1>0, <2>1, <2>2
<1>3. /\ head \in [1..(m + 1) -> 0..n] /\ head[1] = 0
      /\ \A k \in 1..m : head[k + 1] = s[k]
  <2>1. head \in [1..(m + 1) -> 0..n] /\ head[1] = 0
      BY <1>0, StartsAre DEF Boundaries
  <2>2. \A k \in 1..m : k + 1 \in 1..(m + 1) /\ k + 1 # 1 /\ (k + 1) - 1 = k
      BY <1>2
  <2> QED BY <1>0, <2>1, <2>2 DEF Starts
<1> DEFINE Entry(i) == [byte |-> Byte(t, i), unit |-> Unit(t, i)]
           R == [byte : Nat, unit : Nat]
<1>4. \A i \in 0..n : Entry(i) \in R
  <2>1. utf8 \in [Char -> Nat \ {0}] /\ utf16 \in [Char -> Nat \ {0}]
      BY DEF utf8, utf16, Char
  <2> QED BY <1>0, <2>1, TotalGrows DEF Byte, Unit, Boundaries
<1>5. PICK q : q = [k \in 1..m |-> Entry(s[k])]
    OBVIOUS
<1>6. q \in Seq(R) /\ Len(q) = m /\ DOMAIN q = 1..m
  <2>1. \A k \in 1..m : Entry(s[k]) \in R
      BY <1>2, <1>4
  <2> HIDE DEF Entry, R
  <2> QED BY <1>2, <1>5, <2>1
<1>7. PICK p : p = <<Entry(0)>>
    OBVIOUS
<1>8. Entry(0) = [byte |-> 0, unit |-> 0]
    BY TotalStep DEF Byte, Unit
<1>9. Index(t) = p \o q
  <2>1. DOMAIN s = 1..m /\ s = Ascending({i \in 1..Len(t) : EndsLine(t, i)})
      BY <1>0, <1>2 DEF Ends
  <2> QED BY <1>5, <1>7, <1>8, <2>1 DEF Index
<1>10. /\ p \o q \in Seq(R) /\ Len(p \o q) = m + 1 /\ DOMAIN (p \o q) = 1..(m + 1)
       /\ (p \o q)[1] = Entry(0) /\ \A k \in 1..m : (p \o q)[k + 1] = q[k]
  <2>1. Entry(0) \in R
      BY <1>1, <1>4
  <2>2. p \in Seq(R) /\ Len(p) = 1 /\ p[1] = Entry(0)
    <3> HIDE DEF Entry, R
    <3> QED BY <1>7, <2>1
  <2> HIDE DEF Entry, R
  <2>7. /\ p \o q \in Seq(R) /\ Len(p \o q) = Len(p) + Len(q)
        /\ \A i \in 1..(Len(p) + Len(q)) : (p \o q)[i] = IF i <= Len(p) THEN p[i] ELSE q[i - Len(p)]
      BY <1>6, <2>2, ConcatProperties
  <2>3. p \o q \in Seq(R) /\ Len(p \o q) = m + 1
      BY <1>2, <1>6, <2>2, <2>7
  <2>4. DOMAIN (p \o q) = 1..(m + 1)
      BY <1>2, <2>3
  <2>5. (p \o q)[1] = Entry(0)
      BY <1>2, <1>6, <2>2, <2>7
  <2>6. \A k \in 1..m : (p \o q)[k + 1] = q[k]
    <3>1. \A k \in 1..m : k + 1 \in 1..(1 + m) /\ ~(k + 1 <= 1) /\ (k + 1) - 1 = k
        BY <1>2
    <3> QED BY <1>2, <1>6, <2>2, <2>7, <3>1
  <2> QED BY <2>3, <2>4, <2>5, <2>6
<1>11. ASSUME NEW l \in 1..(m + 1) PROVE Index(t)[l] = Entry(head[l])
  <2>1. CASE l = 1
      BY <1>3, <1>9, <1>10, <2>1
  <2>2. CASE l # 1
    <3>1. PICK k \in 1..m : l = k + 1
      <4>1. l - 1 \in 1..m /\ l = (l - 1) + 1
          BY <1>2, <2>2
      <4> QED BY <4>1
    <3>2. q[k] = Entry(s[k]) /\ s[k] = head[l]
        BY <1>3, <1>5, <3>1
    <3> HIDE DEF Entry
    <3> QED BY <1>9, <1>10, <3>1, <3>2
  <2> QED BY <2>1, <2>2
<1>12. \A l \in 1..(m + 1) : Index(t)[l].byte = Byte(t, head[l]) /\ Index(t)[l].unit = Unit(t, head[l])
  <2>1. \A i : Entry(i).byte = Byte(t, i) /\ Entry(i).unit = Unit(t, i)
      OBVIOUS
  <2> HIDE DEF Entry
  <2> QED BY <1>11, <2>1
<1> QED BY <1>0, <1>9, <1>10, <1>12

-----------------------------------------------------------------------------
(***************************************************************************)
(* Looking up.                                                                 *)
(***************************************************************************)
\* The index is that of the text.
IndexIsCurrent == source \in Seq(Char) /\ line_starts = Index(source)

\* A text of n characters in m lines, the l-th from the boundary head[l] on; B and U are
\* the bytes and the units before a boundary.
Sees(n, m, head, B, U) ==
    /\ n \in Nat /\ Len(source) = n /\ Boundaries(source) = 0..n
    /\ m \in Nat \ {0} /\ Len(line_starts) = m /\ Lines = 1..m
    /\ head \in [1..m -> 0..n] /\ head[1] = 0
    /\ \A k, l \in 1..m : k < l => head[k] < head[l]
    /\ B \in [0..n -> Nat] /\ \A i, j \in 0..n : i < j => B[i] < B[j]
    /\ U \in [0..n -> Nat] /\ \A i, j \in 0..n : i < j => U[i] < U[j]
    /\ \A i \in 0..n : Byte(source, i) = B[i] /\ Unit(source, i) = U[i]
    /\ \A l \in 1..m : line_starts[l].byte = B[head[l]] /\ line_starts[l].unit = U[head[l]]

\* Every text is seen so through its index.
LEMMA ItSees ==
    ASSUME IndexIsCurrent
    PROVE  \E n, m, head, B, U : Sees(n, m, head, B, U)
<1>1. PICK t, x : t = source /\ x = line_starts /\ t \in Seq(Char) /\ x = Index(t)
    BY DEF IndexIsCurrent
<1>2. PICK n, m, head, B, U :
        /\ n = Len(t) /\ m = Cardinality(Ends(t)) + 1 /\ head = Starts(t)
        /\ B = [i \in 0..n |-> Byte(t, i)] /\ U = [i \in 0..n |-> Unit(t, i)]
    OBVIOUS
<1>3. n \in Nat /\ Boundaries(t) = 0..n
    BY <1>1, <1>2 DEF Boundaries
<1>4. /\ m \in Nat \ {0} /\ head \in [1..m -> 0..n] /\ head[1] = 0
      /\ \A k, l \in 1..m : k < l => head[k] < head[l]
    BY <1>1, <1>2, <1>3, StartsAre
<1>5. utf8 \in [Char -> Nat \ {0}] /\ utf16 \in [Char -> Nat \ {0}]
    BY DEF utf8, utf16, Char
<1>6. B \in [0..n -> Nat] /\ \A i, j \in 0..n : i < j => B[i] < B[j]
    BY <1>1, <1>2, <1>3, <1>5, TotalGrows DEF Byte
<1>7. U \in [0..n -> Nat] /\ \A i, j \in 0..n : i < j => U[i] < U[j]
    BY <1>1, <1>2, <1>3, <1>5, TotalGrows DEF Unit
<1>8. Len(x) = m /\ DOMAIN x = 1..m
    BY <1>1, <1>2, IndexIs
<1>9. \A l \in 1..m : x[l].byte = B[head[l]] /\ x[l].unit = U[head[l]]
  <2>1. \A l \in 1..m : x[l].byte = Byte(t, head[l]) /\ x[l].unit = Unit(t, head[l]) /\ head[l] \in 0..n
      BY <1>1, <1>2, <1>4, IndexIs
  <2> QED BY <1>2, <2>1
<1>10. \A i \in 0..n : Byte(t, i) = B[i] /\ Unit(t, i) = U[i]
    BY <1>2
<1>11. /\ n \in Nat /\ Len(source) = n /\ Boundaries(source) = 0..n
       /\ Len(line_starts) = m /\ Lines = 1..m
    BY <1>1, <1>2, <1>3, <1>8 DEF Lines
<1>12. /\ \A i \in 0..n : Byte(source, i) = B[i] /\ Unit(source, i) = U[i]
       /\ \A l \in 1..m : line_starts[l].byte = B[head[l]] /\ line_starts[l].unit = U[head[l]]
    BY <1>1, <1>9, <1>10
<1>13. Sees(n, m, head, B, U)
    BY ONLY <1>4, <1>6, <1>7, <1>11, <1>12 DEF Sees
<1> QED BY <1>13

\* The boundary i is in the line l.
IsIn(m, head, l, i) == l \in 1..m /\ head[l] <= i /\ (l + 1 \in 1..m => i < head[l + 1])

\* Every boundary is in one line, the last that starts at or before it.
LEMMA OneLine ==
    ASSUME NEW n \in Nat, NEW m \in Nat \ {0}, NEW head \in [1..m -> 0..n], head[1] = 0,
           \A k, l \in 1..m : k < l => head[k] < head[l], NEW i \in 0..n
    PROVE  /\ \E l \in 1..m : IsIn(m, head, l, i)
           /\ \A l \in 1..m : IsIn(m, head, l, i) <=> head[l] <= i /\ \A k \in 1..m : head[k] <= i => k <= l
           /\ \A k, l : IsIn(m, head, k, i) /\ IsIn(m, head, l, i) => k = l
<1>1. \A l \in 1..m : head[l] \in Nat /\ l \in Nat
    OBVIOUS
<1>2. ASSUME NEW l, IsIn(m, head, l, i), NEW k \in 1..m, head[k] <= i
      PROVE  k <= l
  <2> SUFFICES ASSUME l < k PROVE FALSE
      BY <1>2 DEF IsIn
  <2>1. l \in 1..m /\ l + 1 \in 1..m
      BY <1>2 DEF IsIn
  <2>2. i < head[l + 1]
      BY <1>2, <2>1 DEF IsIn
  <2>3. head[l + 1] <= head[k]
    <3>1. CASE l + 1 = k
        BY <1>1, <3>1
    <3>2. CASE l + 1 # k
      <4>1. l + 1 < k
          BY <2>1, <3>2
      <4> QED BY <1>1, <2>1, <4>1
    <3> QED BY <3>1, <3>2
  <2> QED BY <1>1, <1>2, <2>1, <2>2, <2>3
<1>3. ASSUME NEW l \in 1..m, head[l] <= i, \A k \in 1..m : head[k] <= i => k <= l
      PROVE  IsIn(m, head, l, i)
  <2>1. l + 1 \in 1..m => ~(head[l + 1] <= i)
      BY <1>3
  <2> QED BY <1>1, <1>3, <2>1 DEF IsIn
<1>4. \E l \in 1..m : IsIn(m, head, l, i)
  <2> DEFINE S == {k \in 1..m : head[k] <= i}
  <2>1. 1 \in S
      OBVIOUS
  <2>2. Max(S) \in S /\ \A k \in S : k <= Max(S)
    <3>1. S \in SUBSET (1..m) /\ S # {} /\ m \in Nat
        BY <2>1
    <3> HIDE DEF S
    <3> QED BY <3>1, Largest
  <2>3. PICK l : l = Max(S)
      OBVIOUS
  <2>4. l \in 1..m /\ head[l] <= i /\ \A k \in 1..m : head[k] <= i => k <= l
      BY <2>2, <2>3
  <2> QED BY <1>3, <2>4
<1>5. ASSUME NEW k, NEW l, IsIn(m, head, k, i), IsIn(m, head, l, i) PROVE k = l
  <2>1. k \in 1..m /\ l \in 1..m /\ head[k] <= i /\ head[l] <= i
      BY <1>5 DEF IsIn
  <2>2. k <= l /\ l <= k
      BY <1>2, <1>5, <2>1
  <2> QED BY <2>1, <2>2
<1>6. \A l \in 1..m : IsIn(m, head, l, i) => head[l] <= i
    BY DEF IsIn
<1> QED BY <1>2, <1>3, <1>4, <1>5, <1>6

\* Bytes and units keep the order of the boundaries.
LEMMA SameOrder ==
    ASSUME NEW n \in Nat, NEW W \in [0..n -> Nat], \A i, j \in 0..n : i < j => W[i] < W[j],
           NEW i \in 0..n, NEW j \in 0..n
    PROVE  /\ W[i] \in Nat /\ W[j] \in Nat
           /\ W[i] < W[j] <=> i < j
           /\ W[i] <= W[j] <=> i <= j
           /\ W[i] = W[j] <=> i = j
<1>1. W[i] \in Nat /\ W[j] \in Nat
    OBVIOUS
<1>2. CASE i = j
    BY <1>1, <1>2
<1>3. CASE i < j
    BY <1>1, <1>3
<1>4. CASE j < i
    BY <1>1, <1>4
<1> QED BY <1>2, <1>3, <1>4

\* Both searches for a line (partition_point) find the one the boundary is in.
LEMMA LineIs ==
    ASSUME NEW n, NEW m, NEW head, NEW B, NEW U, Sees(n, m, head, B, U),
           NEW i \in 0..n, NEW l, IsIn(m, head, l, i)
    PROVE  LineOfByte(B[i]) = l /\ LineOfUnit(U[i]) = l
<1>1. /\ n \in Nat /\ m \in Nat \ {0} /\ Lines = 1..m /\ head \in [1..m -> 0..n] /\ head[1] = 0
      /\ \A k, h \in 1..m : k < h => head[k] < head[h]
      /\ B \in [0..n -> Nat] /\ \A j, k \in 0..n : j < k => B[j] < B[k]
      /\ U \in [0..n -> Nat] /\ \A j, k \in 0..n : j < k => U[j] < U[k]
      /\ \A k \in 1..m : line_starts[k].byte = B[head[k]] /\ line_starts[k].unit = U[head[k]]
    BY DEF Sees
<1>2. \A j \in 0..n : (B[j] <= B[i] <=> j <= i) /\ (U[j] <= U[i] <=> j <= i)
  <2>1. \A j \in 0..n : B[j] <= B[i] <=> j <= i
      BY <1>1, SameOrder
  <2>2. \A j \in 0..n : U[j] <= U[i] <=> j <= i
      BY <1>1, SameOrder
  <2> QED BY <2>1, <2>2
<1>3. \A k \in 1..m : /\ line_starts[k].byte <= B[i] <=> head[k] <= i
                      /\ line_starts[k].unit <= U[i] <=> head[k] <= i
    BY <1>1, <1>2
<1>4. \A k \in 1..m : k = l <=> head[k] <= i /\ \A h \in 1..m : head[h] <= i => h <= k
  <2>1. \A k \in 1..m : IsIn(m, head, k, i) <=> k = l
    <3>1. \A k, h : IsIn(m, head, k, i) /\ IsIn(m, head, h, i) => k = h
        BY <1>1, OneLine
    <3> QED BY <3>1
  <2>2. \A k \in 1..m : IsIn(m, head, k, i) <=> head[k] <= i /\ \A h \in 1..m : head[h] <= i => h <= k
      BY <1>1, OneLine
  <2> QED BY <2>1, <2>2
<1>5. l \in 1..m
    BY DEF IsIn
<1>6. LineOfByte(B[i]) = l
  <2>1. \A k \in Lines : k = l <=> /\ line_starts[k].byte <= B[i]
                                   /\ \A h \in Lines : line_starts[h].byte <= B[i] => h <= k
      BY <1>1, <1>3, <1>4
  <2> QED BY <1>1, <1>5, <2>1 DEF LineOfByte
<1>7. LineOfUnit(U[i]) = l
  <2>1. \A k \in Lines : k = l <=> /\ line_starts[k].unit <= U[i]
                                   /\ \A h \in Lines : line_starts[h].unit <= U[i] => h <= k
      BY <1>1, <1>3, <1>4
  <2> QED BY <1>1, <1>5, <2>1 DEF LineOfUnit
<1> QED BY <1>6, <1>7

\* A boundary has the line it is in, and a column that counts the units from there.
LEMMA PositionIs ==
    ASSUME NEW n, NEW m, NEW head, NEW B, NEW U, Sees(n, m, head, B, U),
           NEW i \in 0..n, NEW l, IsIn(m, head, l, i)
    PROVE  position(B[i]) = <<l, U[i] - U[head[l]] + 1>>
<1>1. /\ n \in Nat /\ Boundaries(source) = 0..n /\ head \in [1..m -> 0..n]
      /\ B \in [0..n -> Nat] /\ \A j, k \in 0..n : j < k => B[j] < B[k]
      /\ U \in [0..n -> Nat] /\ l \in 1..m /\ head[l] \in 0..n
      /\ \A j \in 0..n : Byte(source, j) = B[j] /\ Unit(source, j) = U[j]
      /\ line_starts[l].byte = B[head[l]] /\ line_starts[l].unit = U[head[l]]
    BY DEF Sees, IsIn
<1>2. ASSUME NEW j \in 0..n, NEW k \in 0..n, B[j] = B[k] PROVE j = k
    BY <1>1, <1>2, SameOrder
<1>3. \A j \in 0..n : (CHOOSE k \in Boundaries(source) : Byte(source, k) = B[j]) = j
  <2> TAKE j \in 0..n
  <2>1. \A k \in 0..n : Byte(source, k) = B[j] <=> k = j
      BY <1>1, <1>2
  <2> QED BY <1>1, <2>1
<1>4. UnitsBetween(B[head[l]], B[i]) = U[i] - U[head[l]]
    BY <1>1, <1>3 DEF UnitsBetween
<1>5. LineOfByte(B[i]) = l /\ LineOfUnit(U[i]) = l
    BY LineIs
<1>6. byte_to_utf16(B[i]) = U[i]
  <2>1. byte_to_utf16(B[i]) = U[head[l]] + (U[i] - U[head[l]])
      BY <1>1, <1>4, <1>5 DEF byte_to_utf16
  <2>2. U[i] \in Nat /\ U[head[l]] \in Nat
      BY <1>1
  <2> QED BY <2>1, <2>2
<1>7. IsBoundary(source, B[i])
    BY <1>1 DEF IsBoundary
<1> QED BY <1>1, <1>5, <1>6, <1>7 DEF position, position_from_utf16

\* The characters of a line are those before whose boundaries the line is.
LEMMA WithinIs ==
    ASSUME NEW n, NEW m, NEW head, NEW B, NEW U, Sees(n, m, head, B, U), NEW l \in 1..m
    PROVE  /\ LineEnd(l) = IF l + 1 \in 1..m THEN B[head[l + 1]] ELSE B[n]
           /\ Within(l) = {i \in 0..(n - 1) : IsIn(m, head, l, i)}
<1>1. /\ n \in Nat /\ m \in Nat \ {0} /\ Lines = 1..m /\ head \in [1..m -> 0..n] /\ Len(source) = n
      /\ B \in [0..n -> Nat] /\ \A i, j \in 0..n : i < j => B[i] < B[j]
      /\ \A i \in 0..n : Byte(source, i) = B[i]
      /\ \A k \in 1..m : line_starts[k].byte = B[head[k]]
    BY DEF Sees
<1>2. PICK z : z = IF l + 1 \in 1..m THEN head[l + 1] ELSE n
    OBVIOUS
<1>3. z \in 0..n /\ head[l] \in 0..n
    BY <1>1, <1>2
<1>4. LineEnd(l) = B[z]
    BY <1>1, <1>2 DEF LineEnd
<1>5. ASSUME NEW i \in 0..(n - 1) PROVE i \in Within(l) <=> IsIn(m, head, l, i)
  <2>1. i \in 0..n /\ i < n
      BY <1>1
  <2>2. B[i] \in Nat /\ B[head[l]] \in Nat /\ B[z] \in Nat
      BY <1>1, <1>3, <2>1
  <2>3. B[head[l]] <= B[i] <=> head[l] <= i
      BY <1>1, <1>3, <2>1, SameOrder
  <2>4. B[i] < B[z] <=> i < z
      BY <1>1, <1>3, <2>1, SameOrder
  <2>5. i \in Within(l) <=> B[i] \in B[head[l]]..(B[z] - 1)
      BY <1>1, <1>4, <2>1 DEF Within
  <2>6. i \in Within(l) <=> head[l] <= i /\ i < z
      BY <2>2, <2>3, <2>4, <2>5
  <2> QED BY <1>2, <2>1, <2>6 DEF IsIn
<1>6. Within(l) \subseteq 0..(n - 1)
    BY <1>1 DEF Within
<1> QED BY <1>2, <1>4, <1>5, <1>6

\* What has a byte has a boundary, in the line and at the column that was asked for.
LEMMA OffsetIs ==
    ASSUME NEW n, NEW m, NEW head, NEW B, NEW U, Sees(n, m, head, B, U),
           NEW l, NEW column \in Nat, byte_offset(l, column) # None
    PROVE  \E i \in 0..n : /\ byte_offset(l, column) = B[i]
                           /\ IsIn(m, head, l, i) /\ column = U[i] - U[head[l]] + 1
<1>1. /\ n \in Nat /\ m \in Nat \ {0} /\ Lines = 1..m /\ head \in [1..m -> 0..n] /\ Len(source) = n
      /\ B \in [0..n -> Nat] /\ U \in [0..n -> Nat]
      /\ \A i \in 0..n : Byte(source, i) = B[i] /\ Unit(source, i) = U[i]
      /\ \A k \in 1..m : line_starts[k].unit = U[head[k]]
      /\ Len(line_starts) = m
    BY DEF Sees
<1>2. l \in 1..m /\ column # 0
    BY <1>1 DEF byte_offset
<1>3. Within(l) = {i \in 0..(n - 1) : IsIn(m, head, l, i)}
    BY <1>2, WithinIs
<1>4. PICK at : at = {i \in Within(l) : Unit(source, i) - line_starts[l].unit = column - 1}
    OBVIOUS
<1>5. ASSUME NEW i \in 0..n, Unit(source, i) - line_starts[l].unit = column - 1
      PROVE  column = U[i] - U[head[l]] + 1
  <2>1. U[i] \in Nat /\ U[head[l]] \in Nat /\ U[i] - U[head[l]] = column - 1
      BY <1>1, <1>2, <1>5
  <2> QED BY <2>1
<1>6. CASE at # {}
  <2>1. PICK i : i = CHOOSE k \in at : TRUE
      OBVIOUS
  <2>2. i \in at
      BY <1>6, <2>1
  <2>3. i \in 0..n /\ IsIn(m, head, l, i) /\ Unit(source, i) - line_starts[l].unit = column - 1
      BY <1>1, <1>3, <1>4, <2>2
  <2>4. byte_offset(l, column) = Byte(source, i)
      BY <1>1, <1>2, <1>4, <1>6, <2>1 DEF byte_offset
  <2> QED BY <1>1, <1>5, <2>3, <2>4
<1>7. CASE at = {}
  <2>1. /\ l = m /\ Unit(source, n) - line_starts[l].unit = column - 1
        /\ byte_offset(l, column) = LineEnd(l)
      BY <1>1, <1>2, <1>4, <1>7 DEF byte_offset
  <2>2. l + 1 \notin 1..m /\ n \in 0..n
      BY <1>1, <2>1
  <2>3. LineEnd(l) = B[n]
      BY <1>2, <2>2, WithinIs
  <2>4. IsIn(m, head, l, n)
      BY <1>1, <1>2, <2>2 DEF IsIn
  <2> QED BY <1>5, <2>1, <2>2, <2>3, <2>4
<1> QED BY <1>6, <1>7

\* And every boundary is found by its line and column.
LEMMA OffsetOf ==
    ASSUME NEW n, NEW m, NEW head, NEW B, NEW U, Sees(n, m, head, B, U),
           NEW i \in 0..n, NEW l, IsIn(m, head, l, i)
    PROVE  byte_offset(l, U[i] - U[head[l]] + 1) = B[i]
<1>1. /\ n \in Nat /\ m \in Nat \ {0} /\ Lines = 1..m /\ head \in [1..m -> 0..n] /\ Len(source) = n
      /\ B \in [0..n -> Nat]
      /\ U \in [0..n -> Nat] /\ \A j, k \in 0..n : j < k => U[j] < U[k]
      /\ \A j \in 0..n : Byte(source, j) = B[j] /\ Unit(source, j) = U[j]
      /\ \A k \in 1..m : line_starts[k].unit = U[head[k]]
      /\ Len(line_starts) = m
    BY DEF Sees
<1>2. l \in 1..m /\ head[l] \in 0..n /\ head[l] <= i
    BY <1>1 DEF IsIn
<1>3. U[i] \in Nat /\ U[head[l]] \in Nat /\ U[head[l]] <= U[i]
    BY <1>1, <1>2, SameOrder
<1>4. PICK column : column = U[i] - U[head[l]] + 1
    OBVIOUS
<1>5. column \in Nat /\ column # 0 /\ column - 1 = U[i] - U[head[l]]
    BY <1>3, <1>4
<1>6. PICK at : at = {j \in Within(l) : Unit(source, j) - line_starts[l].unit = column - 1}
    OBVIOUS
<1>7. Within(l) = {j \in 0..(n - 1) : IsIn(m, head, l, j)}
    BY <1>2, WithinIs
<1>8. ASSUME NEW j \in 0..n, Unit(source, j) - line_starts[l].unit = column - 1 PROVE j = i
  <2>1. U[j] \in Nat /\ U[j] - U[head[l]] = U[i] - U[head[l]]
      BY <1>1, <1>2, <1>5, <1>8
  <2>2. PICK x, y, z : x = U[j] /\ y = U[i] /\ z = U[head[l]]
      OBVIOUS
  <2>3. x \in Nat /\ y \in Nat /\ z \in Nat /\ x - z = y - z
      BY <1>3, <2>1, <2>2
  <2>4. x = y
      BY ONLY <2>3
  <2>5. U[j] = U[i]
      BY <2>2, <2>4
  <2> QED BY <1>1, <1>8, <2>5, SameOrder
<1>9. Unit(source, i) - line_starts[l].unit = column - 1
    BY <1>1, <1>2, <1>5
<1>10. CASE i # n
  <2>1. i \in 0..(n - 1)
      BY <1>1, <1>10
  <2>2. \A j \in 0..(n - 1) : j \in 0..n
      BY <1>1
  <2>3. at = {i}
      BY <1>6, <1>7, <1>8, <1>9, <2>1, <2>2
  <2>4. (CHOOSE k \in at : TRUE) = i
      BY <2>3
  <2>5. byte_offset(l, column) = Byte(source, i)
      BY <1>1, <1>2, <1>5, <1>6, <2>3, <2>4 DEF byte_offset
  <2> QED BY <1>1, <1>4, <2>5
<1>11. CASE i = n
  <2>1. l + 1 \notin 1..m
      BY <1>1, <1>2, <1>11 DEF IsIn
  <2>2. l = m
      BY <1>1, <1>2, <2>1
  <2>3. at = {}
    <3>1. \A j \in 0..(n - 1) : j \in 0..n /\ j # i
        BY <1>1, <1>11
    <3> QED BY <1>6, <1>7, <1>8, <3>1
  <2>4. byte_offset(l, column) = LineEnd(l)
      BY <1>1, <1>2, <1>5, <1>6, <1>9, <1>11, <2>2, <2>3 DEF byte_offset
  <2>5. LineEnd(l) = B[n]
      BY <1>2, <2>1, WithinIs
  <2> QED BY <1>4, <1>11, <2>4, <2>5
<1> QED BY <1>10, <1>11

\* Lines and columns keep the order of the text.
LEMMA InOrder ==
    ASSUME NEW n, NEW m, NEW head, NEW B, NEW U, Sees(n, m, head, B, U),
           NEW i \in 0..n, NEW j \in 0..n, i < j,
           NEW k, IsIn(m, head, k, i), NEW l, IsIn(m, head, l, j)
    PROVE  Before(position(B[i]), position(B[j]))
<1>1. /\ n \in Nat /\ m \in Nat \ {0} /\ head \in [1..m -> 0..n] /\ head[1] = 0
      /\ \A x, y \in 1..m : x < y => head[x] < head[y]
      /\ U \in [0..n -> Nat] /\ \A x, y \in 0..n : x < y => U[x] < U[y]
    BY DEF Sees
<1>2. k \in 1..m /\ l \in 1..m /\ head[k] \in 0..n /\ head[l] \in 0..n /\ head[k] <= i
    BY <1>1 DEF IsIn
<1>3. k <= l
  <2>1. head[k] <= j
      BY <1>1, <1>2
  <2>2. \A y \in 1..m : IsIn(m, head, y, j) <=> head[y] <= j /\ \A x \in 1..m : head[x] <= j => x <= y
      BY <1>1, OneLine
  <2> QED BY <1>2, <2>1, <2>2
<1>4. position(B[i]) = <<k, U[i] - U[head[k]] + 1>> /\ position(B[j]) = <<l, U[j] - U[head[l]] + 1>>
    BY PositionIs
<1>5. k = l => U[i] - U[head[k]] + 1 < U[j] - U[head[l]] + 1
  <2>1. U[i] \in Nat /\ U[j] \in Nat /\ U[head[k]] \in Nat /\ U[i] < U[j]
      BY <1>1, <1>2
  <2> QED BY <2>1
<1>6. k < l \/ k = l
    BY <1>2, <1>3
<1>7. PICK p, q : p = position(B[i]) /\ q = position(B[j])
    OBVIOUS
<1>8. /\ p[1] = k /\ p[2] = U[i] - U[head[k]] + 1
      /\ q[1] = l /\ q[2] = U[j] - U[head[l]] + 1
    BY <1>4, <1>7
<1>9. Before(p, q)
    BY <1>5, <1>6, <1>8 DEF Before
<1> QED BY <1>7, <1>9

\* A place is a line and a column.
LEMMA PlacesAre ==
    ASSUME NEW place \in Coordinates
    PROVE  place = <<place[1], place[2]>> /\ place[1] \in Nat /\ place[2] \in Nat
<1>1. place[1] \in 1..(MaxLength + 1) /\ place[2] \in 1..(2 * MaxLength + 1)
    BY DEF Coordinates
<1>2. place = <<place[1], place[2]>>
    BY DEF Coordinates
<1>3. \A x, y : y \in 1..x => y \in Nat
    OBVIOUS
<1> QED BY <1>1, <1>2, <1>3

\* With its index, every text has the property: each boundary is in one line, its column
\* is its distance from the start, and a search for either finds it and no other.
LEMMA RoundTrips == IndexIsCurrent => CoordinatesRoundTrip
<1> SUFFICES ASSUME IndexIsCurrent PROVE CoordinatesRoundTrip
    OBVIOUS
<1>1. PICK n, m, head, B, U : Sees(n, m, head, B, U)
    BY ItSees
<1>2. /\ n \in Nat /\ m \in Nat \ {0} /\ Boundaries(source) = 0..n
      /\ head \in [1..m -> 0..n] /\ head[1] = 0 /\ \A k, l \in 1..m : k < l => head[k] < head[l]
      /\ \A i \in 0..n : Byte(source, i) = B[i]
    BY <1>1 DEF Sees
<1>3. \A i \in 0..n : \E l \in 1..m : IsIn(m, head, l, i)
    BY <1>2, OneLine
<1>4. ASSUME NEW i \in Boundaries(source), NEW place, place = position(Byte(source, i))
      PROVE  byte_offset(place[1], place[2]) = Byte(source, i)
  <2>1. i \in 0..n /\ Byte(source, i) = B[i]
      BY <1>2
  <2>2. PICK l : IsIn(m, head, l, i)
      BY <1>3, <2>1
  <2>3. position(B[i]) = <<l, U[i] - U[head[l]] + 1>>
      BY <1>1, <2>1, <2>2, PositionIs
  <2>4. place[1] = l /\ place[2] = U[i] - U[head[l]] + 1
      BY <1>4, <2>1, <2>3
  <2>5. byte_offset(l, U[i] - U[head[l]] + 1) = B[i]
      BY <1>1, <2>1, <2>2, OffsetOf
  <2> QED BY <2>1, <2>4, <2>5
<1>5. ASSUME NEW place \in Coordinates, byte_offset(place[1], place[2]) # None
      PROVE  position(byte_offset(place[1], place[2])) = place
  <2>1. PICK l, column : l = place[1] /\ column = place[2]
      OBVIOUS
  <2>2. place = <<l, column>> /\ column \in Nat /\ byte_offset(l, column) # None
      BY <1>5, <2>1, PlacesAre
  <2>3. PICK i \in 0..n : /\ byte_offset(l, column) = B[i]
                          /\ IsIn(m, head, l, i) /\ column = U[i] - U[head[l]] + 1
      BY <1>1, <2>2, OffsetIs
  <2>4. position(B[i]) = <<l, column>>
      BY <1>1, <2>3, PositionIs
  <2> QED BY <2>1, <2>2, <2>3, <2>4
<1>6. ASSUME NEW i \in Boundaries(source), NEW j \in Boundaries(source), i < j
      PROVE  Before(position(Byte(source, i)), position(Byte(source, j)))
  <2>1. i \in 0..n /\ Byte(source, i) = B[i] /\ j \in 0..n /\ Byte(source, j) = B[j]
      BY <1>2
  <2>2. PICK k : IsIn(m, head, k, i)
      BY <1>3, <2>1
  <2>3. PICK l : IsIn(m, head, l, j)
      BY <1>3, <2>1
  <2>4. Before(position(B[i]), position(B[j]))
      BY <1>1, <1>6, <2>1, <2>2, <2>3, InOrder
  <2> QED BY <2>1, <2>4
<1> QED BY <1>4, <1>5, <1>6 DEF CoordinatesRoundTrip

-----------------------------------------------------------------------------
(***************************************************************************)
(* Changes.                                                                    *)
(***************************************************************************)
\* What an accepted change leaves is a text.
LEMMA ChangedIs ==
    ASSUME IndexIsCurrent, NEW from \in Addressed, NEW to \in Addressed, NEW inserted \in Inserted,
           Changed(from, to, inserted) # None
    PROVE  Changed(from, to, inserted) \in Seq(Char)
<1>1. PICK n, m, head, B, U : Sees(n, m, head, B, U)
    BY ItSees
<1>2. /\ n \in Nat /\ Len(source) = n /\ Boundaries(source) = 0..n
      /\ \A i \in 0..n : Byte(source, i) = B[i]
    BY <1>1 DEF Sees
<1>3. PICK first, last : first = byte_offset(from[1], from[2]) /\ last = byte_offset(to[1], to[2])
    OBVIOUS
<1>4. first # None /\ last # None /\ Changed(from, to, inserted) = Replaced(first, last, inserted)
    BY <1>3 DEF Changed
<1>5. /\ from \in Coordinates /\ to \in Coordinates
      /\ from[2] \in Nat /\ to[2] \in Nat
    BY PlacesAre DEF Addressed
<1>6. (\E i \in 0..n : first = B[i]) /\ (\E i \in 0..n : last = B[i])
  <2>1. PICK k, c : k = from[1] /\ c = from[2] /\ c \in Nat
      BY <1>5
  <2>2. \E i \in 0..n : byte_offset(k, c) = B[i]
      BY <1>1, <1>3, <1>4, <2>1, OffsetIs
  <2>3. PICK l, d : l = to[1] /\ d = to[2] /\ d \in Nat
      BY <1>5
  <2>4. \E i \in 0..n : byte_offset(l, d) = B[i]
      BY <1>1, <1>3, <1>4, <2>3, OffsetIs
  <2> QED BY <1>3, <2>1, <2>2, <2>3, <2>4
<1> DEFINE BoundaryAt(byte) == CHOOSE i \in Boundaries(source) : Byte(source, i) = byte
<1>7. PICK i, j : i = BoundaryAt(first) /\ j = BoundaryAt(last)
    OBVIOUS
<1>8. i \in 0..n /\ j \in 0..n
    BY <1>2, <1>6, <1>7
<1>9. Replaced(first, last, inserted) =
          SubSeq(source, 1, i) \o inserted \o SubSeq(source, j + 1, n)
    BY <1>2, <1>7 DEF Replaced
<1>10. source \in Seq(Char) /\ inserted \in Seq(Char)
  <2>1. PICK k \in 0..1 : inserted \in [1..k -> Char]
      BY DEF Inserted, BoundedSeq, SeqOf
  <2>2. k \in Nat
      OBVIOUS
  <2> QED BY <2>1, <2>2 DEF IndexIsCurrent
<1>11. SubSeq(source, 1, i) \in Seq(Char) /\ SubSeq(source, j + 1, n) \in Seq(Char)
  <2>1. \A x \in 1..i : source[x] \in Char
      BY <1>2, <1>8, <1>10
  <2>2. \A x \in (j + 1)..n : source[x] \in Char
      BY <1>2, <1>8, <1>10
  <2> QED BY <1>2, <1>8, <1>10, <2>1, <2>2
<1> HIDE DEF BoundaryAt
<1>12. SubSeq(source, 1, i) \o inserted \in Seq(Char)
    BY <1>10, <1>11, ConcatProperties
<1>13. (SubSeq(source, 1, i) \o inserted) \o SubSeq(source, j + 1, n) \in Seq(Char)
    BY <1>11, <1>12, ConcatProperties
<1> QED BY <1>4, <1>9, <1>13

\* The index is made with the text, and only with it.
LEMMA StartsCurrent == SourceInit => IndexIsCurrent
<1>1. <<>> \in Seq(Char)
    OBVIOUS
<1> QED BY <1>1 DEF SourceInit, IndexIsCurrent

\* A change that is refused leaves both, one that is made indexes the new text.
LEMMA StaysCurrent == IndexIsCurrent /\ [SourceNext]_sourceVars => IndexIsCurrent'
<1> SUFFICES ASSUME IndexIsCurrent, [SourceNext]_sourceVars PROVE IndexIsCurrent'
    OBVIOUS
<1>1. CASE UNCHANGED sourceVars
    BY <1>1 DEF IndexIsCurrent, sourceVars
<1>2. CASE SourceNext
  <2>1. PICK from \in Addressed, to \in Addressed, inserted \in Inserted : ApplyChange(from, to, inserted)
      BY <1>2 DEF SourceNext
  <2>2. PICK t : t = Changed(from, to, inserted)
      OBVIOUS
  <2>3. t \in Seq(Char)
      BY <2>1, <2>2, ChangedIs DEF ApplyChange
  <2>4. source' = t /\ line_starts' = Index(t)
      BY <2>1, <2>2 DEF ApplyChange, Load
  <2> QED BY <2>3, <2>4 DEF IndexIsCurrent
<1> QED BY <1>1, <1>2

\* The coordinates of every text that changes lead to can be sent back: byte_offset and
\* position in source.rs undo each other, and keep the order of the text.
THEOREM CoordinatesComeBack == SourceSpec => []CoordinatesRoundTrip
<1>1. SourceSpec => []IndexIsCurrent
    BY StartsCurrent, StaysCurrent, PTL DEF SourceSpec
<1> QED BY <1>1, RoundTrips, PTL

\* So it is when an editor runs, whatever the server does with its other files.
THEOREM EditedCoordinatesComeBack == EditorSpec => []CoordinatesRoundTripIfEdited
<1>1. EditorSpec => EditorInit /\ [][EditorNext]_editorVars
    BY PTL DEF EditorSpec
<1>2. EditorInit => IndexIsCurrent
    BY StartsCurrent DEF EditorInit
<1>3. [EditorNext]_editorVars => [SourceNext]_sourceVars
    BY DEF EditorNext, Calls, Serves, Reads, Asks, Edits, editorVars, sourceVars
<1>4. IndexIsCurrent => CoordinatesRoundTripIfEdited
    BY RoundTrips DEF CoordinatesRoundTripIfEdited
<1> QED BY <1>1, <1>2, <1>3, <1>4, StaysCurrent, PTL
=============================================================================
