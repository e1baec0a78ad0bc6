------------------------------ MODULE ListsProofs ------------------------------
(***************************************************************************)
(* Facts about lists for the proofs about rooms, rentals and lovers: what  *)
(* is filtered, removed or found. A list of any length is dealt with       *)
(* by an induction on numbers, which is stated for sets of numbers, so     *)
(* that no theorem takes an operator.                                      *)
(***************************************************************************)
EXTENDS Lists, SequencesExt, TLAPS, WellFoundedInduction, SequenceTheorems

----------------------------------------------------------------------------
\* Induction.

\* A set of numbers that is not empty has a least one.
LEMMA LeastNatural ==
    ASSUME NEW T \in SUBSET Nat, T # {}
    PROVE  \E x \in T : \A y \in T : x <= y
<1> DEFINE R == OpToRel(<, Nat)
<1>1. IsWellFoundedOn(R, Nat)
  BY NatLessThanWellFounded
<1>2. \A x, y \in Nat : x < y => <<x, y>> \in R
  BY DEF OpToRel
<1> HIDE DEF R
<1>3. PICK x \in T : \A y \in T : <<y, x>> \notin R
  BY <1>1, WFMin
<1>4. \A y \in T : ~ (y < x)
  BY <1>2, <1>3
<1>5. \A y \in T : x <= y
  BY <1>4
<1>6. QED BY <1>5

\* A set that holds 0, and with a number the next one, holds every number.
LEMMA Induction ==
    ASSUME NEW S \in SUBSET Nat, 0 \in S, \A n \in S : n + 1 \in S
    PROVE  S = Nat
<1> DEFINE T == Nat \ S
<1>1. CASE T # {}
  <2>1. PICK x \in T : \A y \in T : x <= y
    BY <1>1, LeastNatural
  <2>2. x - 1 \in S
    BY <2>1
  <2>3. QED BY <2>1, <2>2
<1>2. QED BY <1>1

----------------------------------------------------------------------------
\* Selected.

\* What kept[n] is when it is m[n]: f is the function that Selected builds.
Keeps(f, m, seq, S) ==
    f = [n \in 0 .. m |->
            IF n = 0 THEN <<>>
            ELSE IF seq[n] \in S THEN Append(f[n - 1], seq[n]) ELSE f[n - 1]]

LEMMA SelectedExists ==
    ASSUME NEW seq, NEW S, NEW m \in Nat
    PROVE  \E f : Keeps(f, m, seq, S)
<1> DEFINE N == {n \in Nat : \E f : Keeps(f, n, seq, S)}
<1>1. 0 \in N
  <2> DEFINE f == [n \in 0 .. 0 |-> <<>>]
  <2>1. Keeps(f, 0, seq, S)
    BY DEF Keeps
  <2>2. QED BY <2>1
<1>2. ASSUME NEW n \in N PROVE n + 1 \in N
  <2>1. PICK f : Keeps(f, n, seq, S)
    OBVIOUS
  <2> DEFINE last == IF seq[n + 1] \in S THEN Append(f[n], seq[n + 1]) ELSE f[n]
             g == [i \in 0 .. n + 1 |-> IF i <= n THEN f[i] ELSE last]
  <2>2. \A i \in 0 .. n + 1 : i = 0 => g[i] = <<>>
    BY <2>1 DEF Keeps
  <2>3. ASSUME NEW i \in 0 .. n + 1, i # 0
        PROVE  g[i] = IF seq[i] \in S THEN Append(g[i - 1], seq[i]) ELSE g[i - 1]
    <3>1. i - 1 \in 0 .. n /\ g[i - 1] = f[i - 1]
      BY <2>3
    <3>2. CASE i <= n
      <4>1. i \in 0 .. n /\ g[i] = f[i]
        BY <2>3, <3>2
      <4>2. f[i] = IF seq[i] \in S THEN Append(f[i - 1], seq[i]) ELSE f[i - 1]
        BY <2>1, <2>3, <4>1 DEF Keeps
      <4>3. QED BY <3>1, <4>1, <4>2
    <3>3. CASE i = n + 1
      BY <3>1, <3>3
    <3>4. QED BY <3>2, <3>3
  <2>4. DOMAIN g = 0 .. n + 1 /\ g = [i \in 0 .. n + 1 |-> g[i]]
    OBVIOUS
  <2> HIDE DEF g
  <2>5. Keeps(g, n + 1, seq, S)
    BY <2>2, <2>3, <2>4 DEF Keeps
  <2>6. QED BY <2>5
<1>3. N = Nat
  BY <1>1, <1>2, Induction
<1>4. QED BY <1>3

\* Selected keeps the elements of S, and nothing else, in their order.
LEMMA SelectedFacts ==
    ASSUME NEW T, NEW seq \in Seq(T), NEW S
    PROVE  /\ Selected(seq, S) \in Seq(T)
           /\ Len(Selected(seq, S)) <= Len(seq)
           /\ \A i \in DOMAIN Selected(seq, S) :
                 Selected(seq, S)[i] \in S /\ \E j \in DOMAIN seq : Selected(seq, S)[i] = seq[j]
           /\ \A j \in DOMAIN seq :
                 seq[j] \in S => \E i \in DOMAIN Selected(seq, S) : Selected(seq, S)[i] = seq[j]
           /\ \A a, b \in DOMAIN Selected(seq, S) : a < b =>
                 \E i, j \in DOMAIN seq :
                    i < j /\ Selected(seq, S)[a] = seq[i] /\ Selected(seq, S)[b] = seq[j]
<1> DEFINE m == Len(seq)
           f == CHOOSE kept :
                   kept = [n \in 0 .. Len(seq) |->
                             IF n = 0 THEN <<>>
                             ELSE IF seq[n] \in S THEN Append(kept[n - 1], seq[n])
                             ELSE kept[n - 1]]
           Good(n) == /\ f[n] \in Seq(T) /\ Len(f[n]) <= n
                      /\ \A i \in 1 .. Len(f[n]) :
                            f[n][i] \in S /\ \E j \in 1 .. n : f[n][i] = seq[j]
                      /\ \A j \in 1 .. n :
                            seq[j] \in S => \E i \in 1 .. Len(f[n]) : f[n][i] = seq[j]
                      /\ \A a, b \in 1 .. Len(f[n]) : a < b =>
                            \E i, j \in 1 .. n :
                               i < j /\ f[n][a] = seq[i] /\ f[n][b] = seq[j]
           N == {n \in Nat : n <= m => Good(n)}
<1>1. m \in Nat /\ DOMAIN seq = 1 .. m /\ \A n \in 1 .. m : seq[n] \in T
  OBVIOUS
<1>2. Selected(seq, S) = f[m]
  BY DEF Selected
<1>3. Keeps(f, m, seq, S)
  <2>1. \E g : Keeps(g, m, seq, S)
    BY <1>1, SelectedExists
  <2>2. QED BY <2>1 DEF Keeps
<1> HIDE DEF m, f
<1>4. f[0] = <<>>
  BY <1>1, <1>3 DEF Keeps
<1>5. ASSUME NEW n \in 1 .. m
      PROVE  f[n] = IF seq[n] \in S THEN Append(f[n - 1], seq[n]) ELSE f[n - 1]
  <2>1. n \in 0 .. m /\ n # 0
    BY <1>1
  <2>2. QED BY <1>3, <2>1 DEF Keeps
<1>6. 0 \in N
  <2>1. <<>> \in Seq(T) /\ Len(<<>>) = 0
    OBVIOUS
  <2>2. Good(0)
    BY <1>4, <2>1
  <2>3. QED BY <2>2
<1>7. ASSUME NEW n \in N PROVE n + 1 \in N
  <2> SUFFICES ASSUME n + 1 <= m PROVE Good(n + 1)
    OBVIOUS
  <2>1. n \in Nat /\ n <= m /\ Good(n) /\ n + 1 \in 1 .. m /\ seq[n + 1] \in T
    BY <1>1
  <2>2. CASE seq[n + 1] \in S
    <3>1. f[n + 1] = Append(f[n], seq[n + 1])
      <4>1. (n + 1) - 1 = n
        BY <2>1
      <4>2. f[n + 1] = Append(f[(n + 1) - 1], seq[n + 1])
        BY <1>5, <2>1, <2>2
      <4>3. QED BY <4>1, <4>2
    <3>2. /\ f[n + 1] \in Seq(T) /\ Len(f[n + 1]) = Len(f[n]) + 1
          /\ \A i \in 1 .. Len(f[n]) : f[n + 1][i] = f[n][i]
          /\ f[n + 1][Len(f[n]) + 1] = seq[n + 1]
      BY <2>1, <3>1, AppendProperties
    <3>3. Len(f[n + 1]) <= n + 1
      BY <2>1, <3>2
    <3>4. ASSUME NEW i \in 1 .. Len(f[n + 1])
          PROVE  f[n + 1][i] \in S /\ \E j \in 1 .. n + 1 : f[n + 1][i] = seq[j]
      <4>1. CASE i = Len(f[n]) + 1
        BY <2>1, <2>2, <3>2, <4>1
      <4>2. CASE i # Len(f[n]) + 1
        <5>1. i \in 1 .. Len(f[n])
          BY <2>1, <3>2, <4>2
        <5>2. f[n + 1][i] = f[n][i] /\ f[n][i] \in S /\ \E j \in 1 .. n : f[n][i] = seq[j]
          BY <2>1, <3>2, <5>1
        <5>3. QED BY <2>1, <5>2
      <4>3. QED BY <4>1, <4>2
    <3>5. ASSUME NEW j \in 1 .. n + 1, seq[j] \in S
          PROVE  \E i \in 1 .. Len(f[n + 1]) : f[n + 1][i] = seq[j]
      <4>1. CASE j = n + 1
        <5>1. Len(f[n]) + 1 \in 1 .. Len(f[n + 1])
          BY <2>1, <3>2
        <5>2. QED BY <3>2, <4>1, <5>1
      <4>2. CASE j # n + 1
        <5>1. PICK i \in 1 .. Len(f[n]) : f[n][i] = seq[j]
          BY <2>1, <3>5, <4>2
        <5>2. i \in 1 .. Len(f[n + 1]) /\ f[n + 1][i] = seq[j]
          BY <2>1, <3>2, <5>1
        <5>3. QED BY <5>2
      <4>3. QED BY <4>1, <4>2
    <3>6. ASSUME NEW a \in 1 .. Len(f[n + 1]), NEW b \in 1 .. Len(f[n + 1]), a < b
          PROVE  \E i, j \in 1 .. n + 1 :
                    i < j /\ f[n + 1][a] = seq[i] /\ f[n + 1][b] = seq[j]
      <4>1. a \in 1 .. Len(f[n]) /\ f[n + 1][a] = f[n][a]
        BY <2>1, <3>2, <3>6
      <4>2. CASE b = Len(f[n]) + 1
        <5>1. PICK i \in 1 .. n : f[n][a] = seq[i]
          BY <2>1, <4>1
        <5>2. i \in 1 .. n + 1 /\ n + 1 \in 1 .. n + 1 /\ i < n + 1
          BY <2>1
        <5>3. QED BY <3>2, <4>1, <4>2, <5>1, <5>2
      <4>3. CASE b # Len(f[n]) + 1
        <5>1. b \in 1 .. Len(f[n]) /\ f[n + 1][b] = f[n][b]
          BY <2>1, <3>2, <4>3
        <5>2. PICK i, j \in 1 .. n : i < j /\ f[n][a] = seq[i] /\ f[n][b] = seq[j]
          BY <2>1, <3>6, <4>1, <5>1
        <5>3. i \in 1 .. n + 1 /\ j \in 1 .. n + 1
          BY <2>1
        <5>4. QED BY <4>1, <5>1, <5>2, <5>3
      <4>4. QED BY <4>2, <4>3
    <3>7. QED BY <3>2, <3>3, <3>4, <3>5, <3>6
  <2>3. CASE seq[n + 1] \notin S
    <3>1. f[n + 1] = f[n]
      <4>1. (n + 1) - 1 = n
        BY <2>1
      <4>2. f[n + 1] = f[(n + 1) - 1]
        BY <1>5, <2>1, <2>3
      <4>3. QED BY <4>1, <4>2
    <3>2. QED BY <2>1, <2>3, <3>1
  <2>4. QED BY <2>2, <2>3
<1>8. N = Nat
  BY <1>6, <1>7, Induction
<1>9. Good(m)
  <2>1. m \in N
    <3> HIDE DEF N
    <3> QED BY <1>1, <1>8
  <2>2. m <= m
    BY <1>1
  <2>3. QED BY <2>1, <2>2
<1>10. DOMAIN f[m] = 1 .. Len(f[m])
  BY <1>9
<1>11. ASSUME NEW a \in DOMAIN f[m], NEW b \in DOMAIN f[m], a < b
       PROVE  \E i, j \in DOMAIN seq : i < j /\ f[m][a] = seq[i] /\ f[m][b] = seq[j]
  <2>1. a \in 1 .. Len(f[m]) /\ b \in 1 .. Len(f[m])
    BY <1>10
  <2>2. PICK i, j \in 1 .. m : i < j /\ f[m][a] = seq[i] /\ f[m][b] = seq[j]
    BY <1>9, <1>11, <2>1
  <2>3. i \in DOMAIN seq /\ j \in DOMAIN seq
    BY <1>1
  <2>4. QED BY <2>2, <2>3
<1>12. /\ f[m] \in Seq(T) /\ Len(f[m]) <= m
       /\ \A i \in DOMAIN f[m] : f[m][i] \in S /\ \E j \in DOMAIN seq : f[m][i] = seq[j]
       /\ \A j \in DOMAIN seq : seq[j] \in S => \E i \in DOMAIN f[m] : f[m][i] = seq[j]
  BY <1>1, <1>9, <1>10
<1> HIDE DEF Good
<1>13. QED BY <1>2, <1>11, <1>12 DEF m

----------------------------------------------------------------------------
\* What is found and removed.

LEMMA MinFacts ==
    ASSUME NEW T \in SUBSET Nat, T # {}
    PROVE  Min(T) \in T /\ \A y \in T : Min(T) <= y
  BY LeastNatural DEF Min

\* Without the element at i the others stay.
LEMMA RemoveAtFacts ==
    ASSUME NEW T, NEW seq \in Seq(T), NEW i \in DOMAIN seq
    PROVE  /\ RemoveAt(seq, i) \in Seq(T)
           /\ Len(RemoveAt(seq, i)) = Len(seq) - 1
           /\ \A j \in DOMAIN RemoveAt(seq, i) :
                 \E l \in DOMAIN seq : RemoveAt(seq, i)[j] = seq[l]
<1> DEFINE u == SubSeq(seq, 1, i - 1)
           v == SubSeq(seq, i + 1, Len(seq))
           w == RemoveAt(seq, i)
<1>1. w = u \o v
  BY DEF RemoveAt
<1>2. Len(seq) \in Nat /\ i \in 1 .. Len(seq) /\ DOMAIN seq = 1 .. Len(seq)
  OBVIOUS
<1> HIDE DEF w
<1>3. u \in Seq(T) /\ Len(u) = i - 1 /\ \A j \in 1 .. (i - 1) : u[j] = seq[j]
  BY <1>2
<1>4. /\ v \in Seq(T) /\ Len(v) = Len(seq) - i
      /\ \A j \in 1 .. (Len(seq) - i) : v[j] = seq[i + j]
  BY <1>2
<1> HIDE DEF u, v
<1>5. /\ w \in Seq(T) /\ Len(w) = Len(seq) - 1
      /\ \A j \in 1 .. (Len(u) + Len(v)) :
            w[j] = IF j <= Len(u) THEN u[j] ELSE v[j - Len(u)]
  <2>1. /\ w \in Seq(T) /\ Len(w) = Len(u) + Len(v)
        /\ \A j \in 1 .. (Len(u) + Len(v)) :
              w[j] = IF j <= Len(u) THEN u[j] ELSE v[j - Len(u)]
    BY <1>1, <1>3, <1>4, ConcatProperties
  <2>2. QED BY <1>2, <1>3, <1>4, <2>1
<1>6. DOMAIN w = 1 .. (Len(seq) - 1)
  BY <1>5
<1>7. ASSUME NEW j \in DOMAIN w PROVE \E l \in DOMAIN seq : w[j] = seq[l]
  <2>1. j \in 1 .. (Len(seq) - 1) /\ w[j] = IF j <= Len(u) THEN u[j] ELSE v[j - Len(u)]
    <3>1. j \in 1 .. (Len(seq) - 1)
      BY <1>6
    <3>2. Len(u) + Len(v) = Len(seq) - 1
      BY <1>2, <1>3, <1>4
    <3>3. j \in 1 .. (Len(u) + Len(v))
      BY <3>1, <3>2
    <3>4. QED BY <1>5, <3>1, <3>3
  <2>2. CASE j < i
    BY <1>2, <1>3, <2>1, <2>2
  <2>3. CASE ~ (j < i)
    <3>1. j - Len(u) \in 1 .. (Len(seq) - i) /\ i + (j - Len(u)) \in DOMAIN seq
      BY <1>2, <1>3, <2>1, <2>3
    <3>2. w[j] = seq[i + (j - Len(u))]
      BY <1>3, <1>4, <2>1, <2>3, <3>1
    <3>3. QED BY <3>1, <3>2
  <2>4. QED BY <2>2, <2>3
<1>8. QED BY <1>5, <1>7 DEF w

LEMMA FrontFacts ==
    ASSUME NEW T, NEW seq \in Seq(T), seq # <<>>
    PROVE  /\ Front(seq) \in Seq(T)
           /\ \A j \in DOMAIN Front(seq) : \E l \in DOMAIN seq : Front(seq)[j] = seq[l]
<1>1. Len(seq) \in Nat \ {0} /\ DOMAIN seq = 1 .. Len(seq)
  BY EmptySeq
<1>2. /\ Front(seq) \in Seq(T) /\ Len(Front(seq)) = Len(seq) - 1
      /\ \A j \in 1 .. (Len(seq) - 1) : Front(seq)[j] = seq[j]
  BY <1>1 DEF Front
<1>3. QED BY <1>1, <1>2
=============================================================================
