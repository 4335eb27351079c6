-------------------------- MODULE PcfResultsProofs --------------------------
EXTENDS PcfResults, PcfDecodeProofs

-----------------------------------------------------------------------------
(* Counting up.                                                            *)

\* What holds of 0, and of each number after one of which it holds, holds of all.
LEMMA CountingUp ==
  ASSUME NEW n \in Nat, NEW A, 0 \in A, \A i \in 0 .. n - 1 : i \in A => i + 1 \in A
  PROVE  0 .. n \subseteq A
<1> DEFINE B == {i \in 0 .. n : i \notin A}
<1>1. SUFFICES ASSUME B # {} PROVE FALSE
  OBVIOUS
<1>2. PICK x \in B : \A y \in B : ~(y < x)
  <2>1. B \subseteq Nat
    OBVIOUS
  <2> QED
    BY <1>1, <2>1, LeastOf
<1>3. x # 0 /\ x - 1 \in 0 .. n - 1 /\ (x - 1) + 1 = x /\ x - 1 < x /\ x - 1 \in 0 .. n
  OBVIOUS
<1>4. x - 1 \in A
  BY <1>2, <1>3
<1> QED
  BY <1>2, <1>3, <1>4

\* The greatest of a set of numbers that is bounded.
LEMMA MaxIn ==
  ASSUME NEW n \in Nat, NEW s \in SUBSET (0 .. n), s # {}
  PROVE  Max(s) \in s /\ \A y \in s : Max(s) >= y
<1> DEFINE D == {n - x : x \in s}
<1>1. D \in SUBSET Nat /\ D # {}
  <2>1. \A x \in s : n - x \in Nat
    OBVIOUS
  <2> QED
    BY <2>1
<1>2. PICK d \in D : \A e \in D : ~(e < d)
  BY <1>1, LeastOf
<1>3. PICK x \in s : d = n - x
  OBVIOUS
<1>4. \A y \in s : x >= y
  <2>1. ASSUME NEW y \in s PROVE x >= y
    <3>1. ~(n - y < n - x)
      BY <1>2, <1>3
    <3>2. x \in Int /\ y \in Int
      OBVIOUS
    <3> QED
      BY <3>1, <3>2
  <2> QED
    BY <2>1
<1> QED
  BY <1>4 DEF Max

\* A number that is as great as all others of a set is its greatest.
LEMMA MaxIs ==
  ASSUME NEW s \in SUBSET Int, NEW x \in s, \A y \in s : x >= y
  PROVE  Max(s) = x
<1>1. Max(s) \in s /\ \A y \in s : Max(s) >= y
  BY DEF Max
<1>2. ASSUME NEW m, m = Max(s) PROVE m = x
  <2>1. m \in Int /\ x \in Int /\ m >= x /\ x >= m
    BY <1>1, <1>2
  <2> QED
    BY <2>1
<1> QED
  BY <1>2

-----------------------------------------------------------------------------
(* Folds.                                                                  *)

\* The states of a row of steps, each from what the one before it left, in the way
\* that FoldLeft counts them: by the set of the steps that were taken.
Folds(f, n, base, step) ==
    f = [s \in SUBSET (1 .. n) |-> IF s = {} THEN base ELSE step[Max(s)][f[s \ {Max(s)}]]]

LEMMA StepsExist ==
  ASSUME NEW n \in Nat, NEW S, NEW base \in S, NEW step \in [1 .. n -> [S -> S]]
  PROVE  \E f \in [SUBSET (1 .. n) -> S] : Folds(f, n, base, step)
<1> DEFINE Is(m, f) == f \in [SUBSET (1 .. m) -> S] /\ Folds(f, m, base, step)
           A == {m \in 0 .. n : \E f : Is(m, f)}
<1>1. 0 \in A
  <2> DEFINE f == [s \in SUBSET (1 .. 0) |-> base]
  <2>1. \A s \in SUBSET (1 .. 0) : s = {}
    OBVIOUS
  <2>2. Is(0, f)
    BY <2>1 DEF Folds
  <2> QED
    BY <2>2
<1>2. ASSUME NEW m \in 0 .. n - 1, m \in A PROVE m + 1 \in A
  <2>1. PICK f : Is(m, f)
    BY <1>2
  <2> DEFINE g == [s \in SUBSET (1 .. m + 1) |->
                     IF m + 1 \in s THEN step[m + 1][f[s \ {m + 1}]] ELSE f[s]]
  <2>2. \A s \in SUBSET (1 .. m + 1) :
          /\ s \ {m + 1} \in SUBSET (1 .. m)
          /\ m + 1 \notin s => s \in SUBSET (1 .. m)
    OBVIOUS
  <2>3. m + 1 \in 1 .. n /\ step[m + 1] \in [S -> S]
    BY <1>2
  <2>4. g \in [SUBSET (1 .. m + 1) -> S]
    BY <2>1, <2>2, <2>3
  <2>5. ASSUME NEW s \in SUBSET (1 .. m + 1)
        PROVE  g[s] = IF s = {} THEN base ELSE step[Max(s)][g[s \ {Max(s)}]]
    <3>1. CASE m + 1 \in s
      <4>1. Max(s) = m + 1
        BY <3>1, MaxIs
      <4>2. s \ {m + 1} \in SUBSET (1 .. m + 1) /\ m + 1 \notin s \ {m + 1}
        OBVIOUS
      <4>3. g[s \ {m + 1}] = f[s \ {m + 1}]
        BY <4>2
      <4>4. g[s] = step[m + 1][f[s \ {m + 1}]]
        BY <3>1
      <4> QED
        BY <3>1, <4>1, <4>3, <4>4
    <3>2. CASE m + 1 \notin s
      <4>1. g[s] = f[s] /\ s \in SUBSET (1 .. m)
        BY <2>2, <3>2
      <4>2. s # {} => /\ s \ {Max(s)} \in SUBSET (1 .. m)
                      /\ g[s \ {Max(s)}] = f[s \ {Max(s)}]
        BY <3>2, <4>1
      <4>3. f[s] = IF s = {} THEN base ELSE step[Max(s)][f[s \ {Max(s)}]]
        BY <2>1, <4>1 DEF Folds
      <4> QED
        BY <4>1, <4>2, <4>3
    <3> QED
      BY <3>1, <3>2
  <2>6. g = [s \in SUBSET (1 .. m + 1) |->
               IF s = {} THEN base ELSE step[Max(s)][g[s \ {Max(s)}]]]
    <3> DEFINE h == [s \in SUBSET (1 .. m + 1) |->
                       IF s = {} THEN base ELSE step[Max(s)][g[s \ {Max(s)}]]]
    <3>1. \A s \in SUBSET (1 .. m + 1) : g[s] = h[s]
      BY <2>5
    <3> QED
      BY <3>1, Zenon
  <2>7. Is(m + 1, g)
    BY <2>4, <2>6 DEF Folds
  <2> HIDE DEF Is
  <2> QED
    BY <1>2, <2>7
<1>3. n \in A
  <2> HIDE DEF A
  <2>1. 0 .. n \subseteq A
    BY <1>1, <1>2, CountingUp
  <2> QED
    BY <2>1
<1> QED
  BY <1>3

\* The prefixes of a row that is folded.
LEMMA FirstOnes ==
  ASSUME NEW n \in Nat, NEW i \in 1 .. n
  PROVE  /\ 1 .. i \in SUBSET (1 .. n) /\ 1 .. i # {} /\ Max(1 .. i) = i
         /\ (1 .. i) \ {i} = 1 .. i - 1
<1>1. 1 .. i \subseteq 1 .. n /\ i \in 1 .. i /\ (1 .. i) \ {i} = 1 .. i - 1
  OBVIOUS
<1>2. Max(1 .. i) = i
  <2>1. 1 .. i \in SUBSET Int /\ \A y \in 1 .. i : i >= y
    OBVIOUS
  <2> QED
    BY <1>1, <2>1, MaxIs
<1> QED
  BY <1>1, <1>2

-----------------------------------------------------------------------------
(* Sequences of sequences.                                                 *)

\* What stands in two sequences, one behind the other.
LEMMA Joined ==
  ASSUME NEW s, NEW t, IsSequence(s), IsSequence(t)
  PROVE  /\ IsSequence(s \o t) /\ Len(s \o t) = Len(s) + Len(t)
         /\ Len(s) \in Nat /\ Len(t) \in Nat
         /\ \A i \in 1 .. Len(s) : (s \o t)[i] = s[i]
         /\ \A i \in 1 .. Len(t) : (s \o t)[Len(s) + i] = t[i]
         /\ ToSet(s \o t) = ToSet(s) \cup ToSet(t)
<1> DEFINE S == {s[i] : i \in DOMAIN s} \cup {t[i] : i \in DOMAIN t}
<1>1. s \in Seq(S) /\ t \in Seq(S)
  BY DEF IsSequence
<1>2. s \o t \in Seq(S) /\ Len(s \o t) = Len(s) + Len(t)
  BY <1>1
<1>3. IsSequence(s \o t)
  BY <1>2, OverItself
<1>4. /\ \A i \in 1 .. Len(s) : (s \o t)[i] = s[i]
      /\ \A i \in 1 .. Len(t) : (s \o t)[Len(s) + i] = t[i]
      /\ Len(s) \in Nat /\ Len(t) \in Nat
      /\ DOMAIN s = 1 .. Len(s) /\ DOMAIN t = 1 .. Len(t)
      /\ DOMAIN (s \o t) = 1 .. Len(s) + Len(t)
  BY <1>1
<1>5. ToSet(s \o t) = ToSet(s) \cup ToSet(t)
  <2>1. ASSUME NEW i \in 1 .. Len(s) + Len(t)
        PROVE  (s \o t)[i] \in ToSet(s) \cup ToSet(t)
    <3>1. CASE i \in 1 .. Len(s)
      BY <1>4, <3>1 DEF ToSet
    <3>2. CASE i \notin 1 .. Len(s)
      <4>1. i - Len(s) \in 1 .. Len(t) /\ Len(s) + (i - Len(s)) = i
        BY <1>4, <3>2
      <4>2. (s \o t)[i] = t[i - Len(s)]
        BY <1>4, <4>1
      <4> QED
        BY <1>4, <4>1, <4>2 DEF ToSet
    <3> QED
      BY <3>1, <3>2
  <2>2. ASSUME NEW i \in 1 .. Len(s) PROVE s[i] \in ToSet(s \o t)
    <3>1. i \in DOMAIN (s \o t)
      BY <1>4
    <3> QED
      BY <1>4, <3>1 DEF ToSet
  <2>3. ASSUME NEW i \in 1 .. Len(t) PROVE t[i] \in ToSet(s \o t)
    <3>1. Len(s) + i \in DOMAIN (s \o t)
      BY <1>4
    <3> QED
      BY <1>4, <3>1 DEF ToSet
  <2> QED
    BY <1>4, <2>1, <2>2, <2>3 DEF ToSet
<1> QED
  BY <1>2, <1>3, <1>4, <1>5

\* The sequence of nothing, and that of one.
LEMMA OfNone == IsSequence(<<>>) /\ Len(<<>>) = 0 /\ ToSet(<<>>) = {}
<1>1. IsSequence(<<>>)
  <2>1. <<>> \in Seq({})
    OBVIOUS
  <2>2. ASSUME NEW S, NEW s, s \in Seq(S) PROVE IsSequence(s)
    BY <2>2, OverItself
  <2> QED
    BY <2>1, <2>2
<1>2. Len(<<>>) = 0
  OBVIOUS
<1>3. ToSet(<<>>) = {}
  BY DEF ToSet
<1> QED
  BY <1>1, <1>2, <1>3

LEMMA OfOne ==
  ASSUME NEW e
  PROVE  IsSequence(<<e>>) /\ Len(<<e>>) = 1 /\ <<e>>[1] = e /\ ToSet(<<e>>) = {e}
<1>1. IsSequence(<<e>>)
  <2>1. <<e>> \in Seq({e})
    OBVIOUS
  <2>2. ASSUME NEW S, NEW s, s \in Seq(S) PROVE IsSequence(s)
    BY <2>2, OverItself
  <2> QED
    BY <2>1, <2>2
<1>2. ToSet(<<e>>) = {e}
  BY DEF ToSet
<1> QED
  BY <1>1, <1>2

\* Flattening puts one sequence behind the other.
LEMMA FlattenSteps ==
  ASSUME NEW s, IsSequence(s), \A i \in DOMAIN s : IsSequence(s[i])
  PROVE  \E flat : /\ flat[0] = <<>>
                   /\ \A i \in 1 .. Len(s) : flat[i] = flat[i - 1] \o s[i]
                   /\ \A i \in 0 .. Len(s) : IsSequence(flat[i])
                   /\ FlattenSeq(s) = flat[Len(s)]
<1> DEFINE n == Len(s)
           Is(f, m) == f = [i \in 1 .. m |-> IF i = 1 THEN s[i] ELSE f[i - 1] \o s[i]]
           flatten == CHOOSE f : Is(f, n)
           flat == [i \in 0 .. n |-> IF i = 0 THEN <<>> ELSE flatten[i]]
<1>1. n \in Nat /\ DOMAIN s = 1 .. n
  BY DEF IsSequence
<1>2. Is(flatten, n)
  <2> DEFINE A == {m \in 0 .. n : \E f : Is(f, m)}
  <2>1. 0 \in A
    <3> DEFINE f == [i \in 1 .. 0 |-> <<>>]
    <3>1. Is(f, 0)
      <4>1. 1 .. 0 = {}
        OBVIOUS
      <4> QED
        BY <4>1
    <3> HIDE DEF Is, f
    <3> QED
      BY <1>1, <3>1
  <2>2. ASSUME NEW m \in 0 .. n - 1, m \in A PROVE m + 1 \in A
    <3>1. PICK f : Is(f, m)
      BY <2>2
    <3> DEFINE g == [i \in 1 .. m + 1 |->
                       IF i = m + 1 THEN IF i = 1 THEN s[i] ELSE f[i - 1] \o s[i] ELSE f[i]]
    <3>2. \A i \in 1 .. m + 1 : g[i] = IF i = 1 THEN s[i] ELSE g[i - 1] \o s[i]
      <4> SUFFICES ASSUME NEW i \in 1 .. m + 1
                   PROVE  g[i] = IF i = 1 THEN s[i] ELSE g[i - 1] \o s[i]
        OBVIOUS
      <4>1. i # 1 => i - 1 \in 1 .. m /\ i - 1 \in 1 .. m + 1 /\ i - 1 # m + 1
        BY <2>2
      <4>2. i # 1 => g[i - 1] = f[i - 1]
        BY <4>1
      <4>3. CASE i = m + 1
        BY <4>2, <4>3
      <4>4. CASE i # m + 1
        <5>1. i \in 1 .. m /\ g[i] = f[i]
          BY <4>4
        <5>2. f[i] = IF i = 1 THEN s[i] ELSE f[i - 1] \o s[i]
          BY <3>1, <5>1
        <5> QED
          BY <4>2, <5>1, <5>2
      <4> QED
        BY <4>3, <4>4
    <3>3. Is(g, m + 1)
      <4> DEFINE h == [i \in 1 .. m + 1 |-> IF i = 1 THEN s[i] ELSE g[i - 1] \o s[i]]
      <4>1. g = h
        BY <3>2, Zenon
      <4> QED
        BY <4>1
    <3> HIDE DEF Is
    <3> QED
      BY <1>1, <2>2, <3>3
  <2>3. n \in A
    <3> HIDE DEF A
    <3>1. 0 .. n \subseteq A
      BY <1>1, <2>1, <2>2, CountingUp
    <3> QED
      BY <1>1, <3>1
  <2> QED
    BY <2>3
<1>3. \A i \in 1 .. n : flatten[i] = IF i = 1 THEN s[i] ELSE flatten[i - 1] \o s[i]
  <2> HIDE DEF flatten
  <2> QED
    BY <1>2
<1>4. n = 0 => s = <<>>
  BY DEF IsSequence
<1>5. FlattenSeq(s) = IF n = 0 THEN s ELSE flatten[n]
  BY DEF FlattenSeq
<1> HIDE DEF flatten
<1>6. flat[0] = <<>> /\ flat[n] = FlattenSeq(s)
  <2>1. 0 \in 0 .. n /\ n \in 0 .. n
    BY <1>1
  <2> HIDE DEF n
  <2> QED
    BY <1>4, <1>5, <2>1
<1>7. \A i \in 1 .. n : flat[i] = flat[i - 1] \o s[i]
  <2> SUFFICES ASSUME NEW i \in 1 .. n PROVE flat[i] = flat[i - 1] \o s[i]
    OBVIOUS
  <2>1. i \in 0 .. n /\ i - 1 \in 0 .. n /\ i # 0 /\ i \in DOMAIN s
    BY <1>1
  <2>2. CASE i = 1
    <3>1. s[1] \in Seq({s[1][j] : j \in DOMAIN s[1]})
      BY <2>1, <2>2 DEF IsSequence
    <3>2. <<>> \o s[1] = s[1]
      BY <3>1
    <3>3. flat[i] = s[1] /\ flat[i - 1] = <<>>
      BY <1>3, <2>1, <2>2
    <3> QED
      BY <2>2, <3>2, <3>3
  <2>3. CASE i # 1
    <3>1. flat[i - 1] = flatten[i - 1] /\ flat[i] = flatten[i]
      BY <2>1, <2>3
    <3> QED
      BY <1>3, <2>3, <3>1
  <2> QED
    BY <2>2, <2>3
<1>8. \A i \in 0 .. n : IsSequence(flat[i])
  <2> HIDE DEF flat
  <2> DEFINE A == {i \in 0 .. n : IsSequence(flat[i])}
  <2>1. 0 \in A
    <3>1. IsSequence(<<>>) /\ 0 \in 0 .. n
      BY <1>1, OfNone
    <3> QED
      BY <1>6, <3>1
  <2>2. ASSUME NEW i \in 0 .. n - 1, i \in A PROVE i + 1 \in A
    <3>1. i + 1 \in 1 .. n /\ (i + 1) - 1 = i /\ i + 1 \in DOMAIN s
      BY <1>1
    <3>2. flat[i + 1] = flat[i] \o s[i + 1] /\ IsSequence(flat[i]) /\ IsSequence(s[i + 1])
      BY <1>7, <2>2, <3>1
    <3>3. IsSequence(flat[i] \o s[i + 1])
      BY <3>2, Joined
    <3>4. i + 1 \in 0 .. n
      BY <1>1, <3>1
    <3> QED
      BY <3>2, <3>3, <3>4
  <2> HIDE DEF A
  <2>3. 0 .. n \subseteq A
    BY <1>1, <2>1, <2>2, CountingUp
  <2> QED
    BY <2>3 DEF A
<1> HIDE DEF flat
<1> QED
  BY <1>6, <1>7, <1>8

-----------------------------------------------------------------------------
(* Those of a row that count, and their ranks.                             *)

UpTo(P, n) == {i \in 1 .. n : i \in P}

LEMMA CountNext ==
  ASSUME NEW P, NEW n \in Nat
  PROVE  /\ IsFiniteSet(UpTo(P, n)) /\ Cardinality(UpTo(P, n)) \in Nat
         /\ n + 1 \in P => /\ UpTo(P, n + 1) = UpTo(P, n) \cup {n + 1}
                           /\ Cardinality(UpTo(P, n + 1)) = Cardinality(UpTo(P, n)) + 1
         /\ n + 1 \notin P => UpTo(P, n + 1) = UpTo(P, n)
<1>1. IsFiniteSet(UpTo(P, n)) /\ Cardinality(UpTo(P, n)) \in Nat
  <2>1. IsFiniteSet(1 .. n) /\ UpTo(P, n) \subseteq 1 .. n
    BY FS_Interval DEF UpTo
  <2> QED
    BY <2>1, FS_Subset, FS_CardinalityType
<1>2. 1 .. n + 1 = (1 .. n) \cup {n + 1} /\ n + 1 \notin 1 .. n
  OBVIOUS
<1>3. CASE n + 1 \in P
  <2>1. UpTo(P, n + 1) = UpTo(P, n) \cup {n + 1} /\ n + 1 \notin UpTo(P, n)
    BY <1>2, <1>3 DEF UpTo
  <2> QED
    BY <1>1, <1>3, <2>1, FS_AddElement
<1>4. CASE n + 1 \notin P
  BY <1>1, <1>2, <1>4 DEF UpTo
<1> QED
  BY <1>3, <1>4

LEMMA CountNone ==
  ASSUME NEW P
  PROVE  UpTo(P, 0) = {} /\ Cardinality(UpTo(P, 0)) = 0
<1>1. UpTo(P, 0) = {}
  BY DEF UpTo
<1> QED
  BY <1>1, FS_EmptySet

LEMMA RankIn ==
  ASSUME NEW P, NEW n \in Nat, NEW i \in UpTo(P, n)
  PROVE  Cardinality(UpTo(P, i)) \in 1 .. Cardinality(UpTo(P, n))
<1>1. i \in Nat /\ i \in UpTo(P, i) /\ UpTo(P, i) \subseteq UpTo(P, n)
  BY DEF UpTo
<1>2. /\ IsFiniteSet(UpTo(P, n)) /\ Cardinality(UpTo(P, n)) \in Nat
      /\ IsFiniteSet(UpTo(P, i)) /\ Cardinality(UpTo(P, i)) \in Nat
  BY <1>1, CountNext
<1>3. Cardinality(UpTo(P, i)) <= Cardinality(UpTo(P, n))
  BY <1>1, <1>2, FS_Subset
<1>4. Cardinality(UpTo(P, i)) # 0
  BY <1>1, <1>2, FS_EmptySet
<1> QED
  BY <1>2, <1>3, <1>4

\* That r has what there is for those up to n that count, in their order.
Ranked(r, P, n, e) ==
    /\ Len(r) = Cardinality(UpTo(P, n))
    /\ \A i \in UpTo(P, n) : r[Cardinality(UpTo(P, i))] = e[i]

\* With one more behind r there is what there is for the next.
LEMMA RankedNext ==
  ASSUME NEW r, IsSequence(r), NEW P, NEW n \in Nat, NEW e, Ranked(r, P, n, e),
         NEW t, t = IF n + 1 \in P THEN <<e[n + 1]>> ELSE <<>>
  PROVE  IsSequence(r \o t) /\ Ranked(r \o t, P, n + 1, e)
<1> DEFINE count(i) == Cardinality(UpTo(P, i))
<1>1. IsSequence(t)
  BY OfNone, OfOne
<1>2. /\ IsSequence(r \o t) /\ Len(r \o t) = Len(r) + Len(t)
      /\ \A i \in 1 .. Len(r) : (r \o t)[i] = r[i]
      /\ \A i \in 1 .. Len(t) : (r \o t)[Len(r) + i] = t[i]
  BY <1>1, Joined
<1>3. Len(r) = count(n) /\ count(n) \in Nat
  BY CountNext DEF Ranked
<1>4. ASSUME NEW i \in UpTo(P, n) PROVE (r \o t)[count(i)] = e[i]
  <2>1. count(i) \in 1 .. Len(r)
    BY <1>3, RankIn
  <2>2. r[count(i)] = e[i]
    BY DEF Ranked
  <2> HIDE DEF count
  <2> QED
    BY <1>2, <2>1, <2>2
<1>5. CASE n + 1 \in P
  <2>1. count(n + 1) = count(n) + 1 /\ UpTo(P, n + 1) = UpTo(P, n) \cup {n + 1}
    BY <1>5, CountNext
  <2>2. Len(t) = 1 /\ t[1] = e[n + 1]
    BY <1>5, OfOne
  <2>3. (r \o t)[count(n + 1)] = e[n + 1] /\ Len(r \o t) = count(n + 1)
    <3> HIDE DEF count
    <3> QED
      BY <1>2, <1>3, <2>1, <2>2
  <2> QED
    BY <1>2, <1>4, <2>1, <2>3 DEF Ranked
<1>6. CASE n + 1 \notin P
  <2>1. UpTo(P, n + 1) = UpTo(P, n)
    BY <1>6, CountNext
  <2>2. Len(t) = 0
    BY <1>6, OfNone
  <2>3. Len(r \o t) = count(n + 1)
    <3>1. count(n + 1) = count(n)
      BY <2>1
    <3> HIDE DEF count
    <3> QED
      BY <1>2, <1>3, <2>2, <3>1
  <2> QED
    BY <1>2, <1>4, <2>1, <2>3 DEF Ranked
<1> QED
  BY <1>5, <1>6

\* Flattening a row in which those that count have one each, and the others none.
LEMMA FlattenRanks ==
  ASSUME NEW s, IsSequence(s), NEW P, NEW e,
         \A i \in DOMAIN s : s[i] = IF i \in P THEN <<e[i]>> ELSE <<>>
  PROVE  IsSequence(FlattenSeq(s)) /\ Ranked(FlattenSeq(s), P, Len(s), e)
<1> DEFINE n == Len(s)
<1>1. n \in Nat /\ DOMAIN s = 1 .. n
  BY DEF IsSequence
<1>2. \A i \in DOMAIN s : IsSequence(s[i])
  BY OfNone, OfOne
<1>3. PICK flat : /\ flat[0] = <<>>
                  /\ \A i \in 1 .. n : flat[i] = flat[i - 1] \o s[i]
                  /\ \A i \in 0 .. n : IsSequence(flat[i])
                  /\ FlattenSeq(s) = flat[n]
  BY <1>2, FlattenSteps
<1> DEFINE A == {i \in 0 .. n : Ranked(flat[i], P, i, e)}
<1>4. 0 \in A
  <2>1. Ranked(<<>>, P, 0, e)
    BY CountNone, OfNone DEF Ranked
  <2> QED
    BY <1>1, <1>3, <2>1
<1>5. ASSUME NEW i \in 0 .. n - 1, i \in A PROVE i + 1 \in A
  <2>1. i \in 0 .. n /\ i \in Nat /\ i + 1 \in 1 .. n /\ i + 1 \in 0 .. n /\ (i + 1) - 1 = i
    BY <1>1
  <2>2. flat[i + 1] = flat[i] \o s[i + 1] /\ IsSequence(flat[i]) /\ Ranked(flat[i], P, i, e)
    BY <1>3, <1>5, <2>1
  <2>3. s[i + 1] = IF i + 1 \in P THEN <<e[i + 1]>> ELSE <<>>
    BY <1>1, <2>1
  <2>4. Ranked(flat[i] \o s[i + 1], P, i + 1, e)
    BY <2>1, <2>2, <2>3, RankedNext
  <2> QED
    BY <2>1, <2>2, <2>4
<1>6. n \in A
  <2> HIDE DEF A
  <2>1. 0 .. n \subseteq A
    BY <1>1, <1>4, <1>5, CountingUp
  <2> QED
    BY <1>1, <2>1
<1>7. n \in 0 .. n
  BY <1>1
<1> QED
  BY <1>3, <1>6, <1>7

-----------------------------------------------------------------------------
(* What is returned, beyond ContentInv: nothing for a message that is not  *)
(* read, and a sequence for one that is read as a row.                     *)

ResultInv ==
    /\ frames # <<>> => Readable(M)
    /\ \A i \in DOMAIN decoded :
         /\ ~Readable(input.msgs[i]) => decoded[i] = <<>>
         /\ RowReader /\ Meant(input.msgs[i]) => IsSequence(decoded[i])

LEMMA ResultInitially == Init => ResultInv
BY DEF Init, ResultInv

LEMMA ResultStep ==
  ASSUME IInv, RowInv, ResultInv, [Next]_vars
  PROVE  ResultInv'
<1>1. ASSUME NEW params, Returns(params), ~Readable(M) => params = <<>>,
             RowReader /\ Meant(M) => IsSequence(params)
      PROVE  ResultInv'
  <2>1. input' = input /\ frames' = <<>>
    BY <1>1, OneMore DEF Returns
  <2>2. SUFFICES ASSUME NEW i \in DOMAIN decoded'
                 PROVE  /\ ~Readable(input.msgs[i]) => decoded'[i] = <<>>
                        /\ RowReader /\ Meant(input.msgs[i]) => IsSequence(decoded'[i])
    BY <2>1 DEF ResultInv, RowReader, Meant, Readable
  <2>3. CASE i = k
    BY <1>1, <2>3, OneMore DEF M
  <2>4. CASE i # k
    <3>1. i \in DOMAIN decoded /\ decoded'[i] = decoded[i]
      BY <1>1, <2>4, OneMore
    <3> QED
      BY <3>1 DEF ResultInv
  <2> QED
    BY <2>3, <2>4
<1>2. CASE PassMessage
  <2>1. IsSequence(<<>>)
    BY OfNone
  <2> QED
    BY <1>1, <1>2, <2>1 DEF PassMessage
<1>3. CASE EndMessage
  <2>1. Len(frames) = 1 /\ ~Reading /\ Returns(Head(frames).params) /\ frames # <<>>
    BY <1>3 DEF EndMessage
  <2>2. Readable(M)
    BY <2>1 DEF ResultInv
  <2>3. ASSUME RowReader, Meant(M) PROVE IsSequence(Head(frames).params)
    BY <2>1, <2>3, NextInRow DEF RowsRead
  <2> QED
    BY <1>1, <2>1, <2>2, <2>3
<1>4. ASSUME UNCHANGED <<input, decoded>>, frames' # <<>> => Readable(M)' PROVE ResultInv'
  BY <1>4 DEF ResultInv, RowReader, Meant, Readable
<1>5. CASE StartMessage
  <2>1. M' = M /\ UNCHANGED <<input, decoded>>
    BY <1>5, SameMessage DEF StartMessage
  <2> QED
    BY <1>4, <1>5, <2>1 DEF StartMessage, Readable
<1>6. CASE ReadParam \/ SkipQueue \/ EnterGroup \/ LeaveGroup
  <2>1. UNCHANGED <<input, decoded, k>> /\ frames # <<>>
    BY <1>6 DEF ReadParam, SkipQueue, EnterGroup, LeaveGroup, Reading
  <2>2. M' = M
    BY <2>1, SameMessage
  <2> QED
    BY <1>4, <2>1, <2>2 DEF ResultInv, Readable
<1>7. CASE UNCHANGED vars
  <2>1. M' = M
    BY <1>7, SameMessage DEF vars
  <2> QED
    BY <1>4, <1>7, <2>1 DEF ResultInv, Readable, vars
<1> QED
  BY <1>2, <1>3, <1>5, <1>6, <1>7 DEF Next, Decode, Finished

-----------------------------------------------------------------------------
(* What a reader that knows no groups is left with when it is done.        *)

\* What is true then.
AtEnd == IInv /\ ContentInv /\ ResultInv /\ Done

LEMMA AllRead ==
  ASSUME AtEnd, input.reader # "status"
  PROVE  /\ Len(input.msgs) \in Nat /\ DOMAIN input.msgs = 1 .. Len(input.msgs)
         /\ IsSequence(decoded) /\ Len(decoded) = Len(input.msgs)
         /\ DOMAIN decoded = 1 .. Len(input.msgs)
<1>1. Len(input.msgs) \in Nat /\ DOMAIN input.msgs = 1 .. Len(input.msgs)
  BY InputsAssumption DEF AtEnd, IInv, IsSequence
<1>2. k \in 1 .. LastMessage + 1 /\ k > LastMessage /\ LastMessage = Len(input.msgs)
      /\ Len(decoded) = k - 1 /\ IsSequence(decoded)
  BY DEF AtEnd, IInv, TypeOK, Done, LastMessage
<1>3. Len(decoded) = Len(input.msgs)
  BY <1>1, <1>2
<1> QED
  BY <1>1, <1>2, <1>3 DEF IsSequence

\* The fields of a parameter.
LEMMA LeafFields ==
  ASSUME NEW reader, NEW item
  PROVE  /\ Leaf(reader, item).type = item.type /\ Leaf(reader, item).id = item.id
         /\ Leaf(reader, item).value = Value(reader, Own(item))
         /\ Leaf(reader, item).members = <<>>
BY DEF Leaf, Param, Item

\* The bytes of the structures, type by type.
LEMMA BytesOfType ==
  ASSUME NEW item
  PROVE  /\ item.type = MQCFT_INTEGER => Bytes(item) = 16
         /\ item.type = MQCFT_INTEGER64 => Bytes(item) = 24
         /\ item.type = MQCFT_STRING =>
              Bytes(item) = 20 + 4 * ((Size(item.value) + 3) \div 4)
         /\ item.type = MQCFT_INTEGER_LIST => Bytes(item) = 16 + 4 * Len(item.value)
         /\ item.type = MQCFT_STRING_LIST => Bytes(item) = 24 + NameWidth * Len(item.value)
         /\ item.type = MQCFT_GROUP => Bytes(item) = 16
BY DEF Bytes, MQCFT_INTEGER, MQCFT_STRING, MQCFT_INTEGER_LIST, MQCFT_STRING_LIST,
   MQCFT_GROUP, MQCFT_INTEGER64, MQCFT_INTEGER64_LIST

\* The StrucLength that is asked for, type by type.
LEMMA SmallestOfType ==
  ASSUME NEW reader, NEW type
  PROVE  /\ type = MQCFT_STRING =>
              Smallest(reader, type) = IF reader \in {"reply", "discover"} THEN 24 ELSE 20
         /\ type \in {MQCFT_INTEGER64, MQCFT_STRING_LIST} => Smallest(reader, type) = 24
         /\ type \in {MQCFT_INTEGER, MQCFT_GROUP} \cup ListTypes => Smallest(reader, type) = 16
BY DEF Smallest, ListTypes, MQCFT_INTEGER, MQCFT_STRING, MQCFT_INTEGER_LIST, MQCFT_STRING_LIST,
   MQCFT_GROUP, MQCFT_INTEGER64, MQCFT_INTEGER64_LIST

\* Every item is long enough for each reader, but for the texts of no bytes of two of them.
LEMMA LongEnough ==
  ASSUME NEW reader, NEW item, Holds(item),
         item.type \in {MQCFT_INTEGER, MQCFT_STRING, MQCFT_STRING_LIST, MQCFT_INTEGER64,
                        MQCFT_GROUP} \cup ListTypes,
         ~(item.type = MQCFT_STRING /\ reader \in {"reply", "discover"} /\ item.value = Empty)
  PROVE  Bytes(item) >= Smallest(reader, item.type)
<1>1. CASE item.type = MQCFT_STRING
  <2>1. Size(item.value) \in Nat /\ (Size(item.value) = 0 <=> item.value = Empty)
    BY <1>1 DEF Holds
  <2>2. Bytes(item) = 20 + 4 * ((Size(item.value) + 3) \div 4)
    BY <1>1, BytesOfType
  <2>3. ASSUME NEW n \in Nat
        PROVE  /\ 20 + 4 * ((n + 3) \div 4) >= 20
               /\ n > 0 => 20 + 4 * ((n + 3) \div 4) >= 24
    OBVIOUS
  <2>4. Smallest(reader, item.type) = IF reader \in {"reply", "discover"} THEN 24 ELSE 20
    BY <1>1, SmallestOfType
  <2> QED
    BY <1>1, <2>1, <2>2, <2>3, <2>4
<1>2. CASE item.type \in ListTypes
  <2>1. Len(item.value) \in Nat
    BY <1>2 DEF Holds
  <2>2. Bytes(item) = 16 + 4 * Len(item.value) \/ Bytes(item) = 16 + 8 * Len(item.value)
    BY <1>2 DEF Bytes, ListTypes, MQCFT_INTEGER, MQCFT_STRING, MQCFT_INTEGER_LIST,
       MQCFT_STRING_LIST, MQCFT_INTEGER64, MQCFT_INTEGER64_LIST
  <2> QED
    BY <1>2, <2>1, <2>2, SmallestOfType
<1>3. CASE item.type = MQCFT_STRING_LIST
  <2>1. Len(item.value) \in Nat
    BY <1>3 DEF Holds, IsSequence
  <2>2. Bytes(item) = 24 + 48 * Len(item.value)
    BY <1>3, BytesOfType DEF NameWidth
  <2> QED
    BY <1>3, <2>1, <2>2, SmallestOfType
<1>4. CASE item.type \in {MQCFT_INTEGER, MQCFT_INTEGER64, MQCFT_GROUP}
  BY <1>4, BytesOfType, SmallestOfType
<1> QED
  BY <1>1, <1>2, <1>3, <1>4

\* A value that a reader takes is the one of the item, but for what the parser makes of
\* it, and one that it does not take is what stands for nothing.
LEMMA TakesValue ==
  ASSUME NEW reader, NEW item, Holds(item), item.type \in Understood(reader)
  PROVE  /\ Bytes(item) >= Smallest(reader, item.type) =>
              Value(reader, Own(item)) =
                IF reader = "parser" /\ item.type = MQCFT_INTEGER64 THEN Signed(item.value)
                ELSE IF reader = "parser" /\ item.type = MQCFT_STRING /\ item.value = Empty
                       THEN None ELSE item.value
         /\ ~(Bytes(item) >= Smallest(reader, item.type)) /\ reader # "status" =>
              Value(reader, Own(item)) = Unread(reader, item.type)
<1> DEFINE s == Own(item)
<1>1. s.type = item.type /\ s.length = Bytes(item) /\ s.value = item.value
      /\ s.count = Announced(item)
  BY DEF Own, Structure
<1>2. item.type = MQCFT_STRING => Announced(item) = Size(item.value)
  BY DEF Announced, MQCFT_STRING, MQCFT_STRING_LIST, MQCFT_INTEGER_LIST, MQCFT_INTEGER64_LIST
<1> HIDE DEF s
<1>3. Content(s) = item.value
  BY <1>1, <1>2 DEF Content, Holds
<1>4. Suffices(reader, s) <=> \/ Bytes(item) >= Smallest(reader, item.type)
                              \/ reader = "status" /\ Bytes(item) < 8
  BY <1>1 DEF Suffices
<1>5. MQCFT_STRING # MQCFT_INTEGER64
  BY DEF MQCFT_STRING, MQCFT_INTEGER64
<1>6. ASSUME Bytes(item) >= Smallest(reader, item.type)
      PROVE  Value(reader, s) =
               IF reader = "parser" /\ item.type = MQCFT_INTEGER64 THEN Signed(item.value)
               ELSE IF reader = "parser" /\ item.type = MQCFT_STRING /\ item.value = Empty
                      THEN None ELSE item.value
  <2>1. Value(reader, s) =
          CASE reader = "parser" /\ item.type = MQCFT_INTEGER64 -> Signed(item.value)
            [] reader = "parser" /\ item.type = MQCFT_STRING /\ item.value = Empty -> None
            [] OTHER -> item.value
    BY <1>1, <1>3, <1>4, <1>6 DEF Value
  <2> QED
    BY <1>5, <2>1
<1>7. ASSUME ~(Bytes(item) >= Smallest(reader, item.type)), reader # "status"
      PROVE  Value(reader, s) = Unread(reader, item.type)
  BY <1>1, <1>4, <1>7 DEF Value
<1> QED
  BY <1>6, <1>7 DEF s

\* The value of one of the types that the reader of status replies understands.
LEMMA ReplyValue ==
  ASSUME NEW item, Holds(item), item.type \in Understood("reply")
  PROVE  Value("reply", Own(item)) = item.value
<1>1. CASE item.type = MQCFT_STRING /\ item.value = Empty
  <2>1. Bytes(item) = 20 + 4 * ((Size(item.value) + 3) \div 4) /\ Size(item.value) = 0
    BY <1>1, BytesOfType DEF Holds
  <2>2. Bytes(item) = 20 /\ Smallest("reply", item.type) = 24
    BY <1>1, <2>1, SmallestOfType
  <2>3. Value("reply", Own(item)) = Unread("reply", item.type)
    BY <2>2, TakesValue
  <2>4. Unread("reply", item.type) = Empty
    BY <1>1 DEF Unread, MQCFT_STRING, MQCFT_INTEGER_LIST
  <2> QED
    BY <1>1, <2>3, <2>4
<1>2. CASE ~(item.type = MQCFT_STRING /\ item.value = Empty)
  <2>1. item.type \in {MQCFT_INTEGER, MQCFT_STRING, MQCFT_INTEGER64} \cup ListTypes
    BY DEF Understood, ListTypes
  <2>2. Bytes(item) >= Smallest("reply", item.type)
    BY <1>2, <2>1, LongEnough
  <2> QED
    BY <2>2, TakesValue
<1> QED
  BY <1>1, <1>2

-----------------------------------------------------------------------------
(* Status replies.                                                         *)

\* Every reader but that of discover_queues() wants all there is.
LEMMA AllWanted ==
  ASSUME NEW reader, reader # "discover", NEW row, NEW n \in Nat
  PROVE  Kept(reader, row, n) = 1 .. n /\ Cardinality(Kept(reader, row, n)) = n
<1>1. Kept(reader, row, n) = 1 .. n
  BY DEF Kept, Wanted
<1>2. Cardinality(1 .. n) = n
  BY FS_Interval
<1> QED
  BY <1>1, <1>2

\* What is read of a reply, place by place.
SameAs(params, said, reader) ==
    /\ Len(said) \in Nat /\ DOMAIN said = 1 .. Len(said) /\ DOMAIN params = DOMAIN said
    /\ \A x \in DOMAIN said : Holds(said[x]) /\ params[x] = Leaf(reader, said[x])

LEMMA ListedSame ==
  ASSUME NEW params, IsSequence(params), NEW reader, reader # "discover", NEW row,
         Len(row) \in Nat, DOMAIN row = 1 .. Len(row), \A x \in DOMAIN row : Holds(row[x]),
         Listed(params, reader, row, Len(row))
  PROVE  SameAs(params, row, reader)
<1>1. ASSUME NEW n \in Nat, n = Len(row) PROVE SameAs(params, row, reader)
  <2>1. Len(params) = n /\ Kept(reader, row, n) = 1 .. n
    BY <1>1, AllWanted DEF Listed
  <2>2. DOMAIN params = 1 .. n
    BY <2>1 DEF IsSequence
  <2>3. ASSUME NEW x \in 1 .. n PROVE params[x] = Leaf(reader, row[x])
    <3>1. params[Cardinality(Kept(reader, row, x))] = Leaf(reader, row[x])
      BY <1>1, <2>1 DEF Listed
    <3>2. Cardinality(Kept(reader, row, x)) = x
      BY AllWanted
    <3> QED
      BY <3>1, <3>2
  <2> QED
    BY <1>1, <2>2, <2>3 DEF SameAs
<1> QED
  BY <1>1

LEMMA RowHolds ==
  ASSUME AtEnd, NEW i \in DOMAIN input.msgs, Meant(input.msgs[i])
  PROVE  /\ Len(Row(input.msgs[i])) \in Nat
         /\ DOMAIN Row(input.msgs[i]) = 1 .. Len(Row(input.msgs[i]))
         /\ \A x \in DOMAIN Row(input.msgs[i]) : Holds(Row(input.msgs[i])[x])
<1>1. LaidOut(input.msgs[i])
  BY DEF Meant
<1> QED
  BY <1>1, RowFacts, ItemAssumption DEF AtEnd, IInv

LEMMA ReplyRead ==
  ASSUME AtEnd, input.reader = "reply", AllMeant, NEW i \in DOMAIN input.msgs
  PROVE  SameAs(decoded[i], Said(i), "reply")
<1>1. i \in DOMAIN decoded
  BY AllRead
<1>2. CASE Readable(input.msgs[i])
  <2>1. Meant(input.msgs[i]) /\ Said(i) = Row(input.msgs[i])
    BY <1>2 DEF AllMeant, Said
  <2>2. Listed(decoded[i], "reply", Row(input.msgs[i]), Len(Row(input.msgs[i])))
    BY <1>1, <2>1 DEF AtEnd, ContentInv, DecodesWhatWasSent
  <2>3. IsSequence(decoded[i])
    BY <1>1, <2>1 DEF AtEnd, ResultInv, RowReader
  <2> QED
    BY <2>1, <2>2, <2>3, RowHolds, ListedSame
<1>3. CASE ~Readable(input.msgs[i])
  <2>1. decoded[i] = <<>> /\ Said(i) = <<>>
    BY <1>1, <1>3 DEF AtEnd, ResultInv, Said
  <2> QED
    BY <2>1 DEF SameAs
<1> QED
  BY <1>2, <1>3

\* The parameters that have a value are those for which the reply says something.
LEMMA GivenInReply ==
  ASSUME NEW params, NEW said, SameAs(params, said, "reply"),
         NEW type \in Understood("reply"), NEW id
  PROVE  /\ Given(params, {type}, {id}) = SaidFor(said, DOMAIN said, type, id)
         /\ \A x \in SaidFor(said, DOMAIN said, type, id) : params[x].value = said[x].value
<1>1. ASSUME NEW x \in DOMAIN said
      PROVE  /\ params[x].type = said[x].type /\ params[x].id = said[x].id
             /\ said[x].type = type => params[x].value = said[x].value /\ params[x].value # None
  <2>1. params[x] = Leaf("reply", said[x]) /\ Holds(said[x])
    BY DEF SameAs
  <2>2. said[x].type = type => Value("reply", Own(said[x])) = said[x].value
    BY <2>1, ReplyValue
  <2> QED
    BY <2>1, <2>2, LeafFields DEF Holds
<1>2. Given(params, {type}, {id}) = SaidFor(said, DOMAIN said, type, id)
  BY <1>1 DEF Given, SaidFor, SameAs
<1>3. \A x \in SaidFor(said, DOMAIN said, type, id) : params[x].value = said[x].value
  BY <1>1 DEF SaidFor
<1> QED
  BY <1>2, <1>3

\* The last that a reply says for a parameter is what is taken for it.
LEMMA LastOfReply ==
  ASSUME NEW params, NEW said, SameAs(params, said, "reply"),
         NEW type \in Understood("reply"), NEW id, NEW default
  PROVE  LastGiven(params, {type}, {id}, default) =
           LastSaid(said, DOMAIN said, type, id, default)
<1>1. ASSUME NEW s, s = SaidFor(said, DOMAIN said, type, id), s # {}
      PROVE  Max(s) \in s
  <2>1. s \in SUBSET (0 .. Len(said)) /\ Len(said) \in Nat
    BY <1>1 DEF SaidFor, SameAs
  <2> QED
    BY <1>1, <2>1, MaxIn
<1>2. /\ Given(params, {type}, {id}) = SaidFor(said, DOMAIN said, type, id)
      /\ \A x \in SaidFor(said, DOMAIN said, type, id) : params[x].value = said[x].value
  BY GivenInReply
<1> QED
  BY <1>1, <1>2 DEF LastGiven, LastSaid, LastValue

\* The lists of a reply that reach to the n-th number of an indicator.
ReachedIn(said, id, n) ==
    {x \in SaidFor(said, DOMAIN said, MQCFT_INTEGER_LIST, id) : Len(said[x].value) >= n}

LEMMA IndicatorOfReply ==
  ASSUME NEW params, NEW said, SameAs(params, said, "reply"), NEW id, NEW n
  PROVE  Indicator(params, id, n) =
           IF ReachedIn(said, id, n) = {} THEN 0
           ELSE said[Max(ReachedIn(said, id, n))].value[n]
<1> DEFINE reached == ReachedIn(said, id, n)
<1>1. MQCFT_INTEGER_LIST \in Understood("reply")
  BY DEF Understood
<1>2. /\ Given(params, {MQCFT_INTEGER_LIST}, {id}) = SaidFor(said, DOMAIN said, MQCFT_INTEGER_LIST, id)
      /\ \A x \in SaidFor(said, DOMAIN said, MQCFT_INTEGER_LIST, id) :
           params[x].value = said[x].value
  BY <1>1, GivenInReply
<1>3. reached = {x \in Given(params, {MQCFT_INTEGER_LIST}, {id}) : Len(params[x].value) >= n}
  BY <1>2 DEF ReachedIn
<1>4. reached # {} => Max(reached) \in reached
  <2>1. reached \in SUBSET (0 .. Len(said)) /\ Len(said) \in Nat
    BY DEF SaidFor, SameAs, ReachedIn
  <2> QED
    BY <2>1, MaxIn
<1>5. \A x \in reached : params[x].value = said[x].value
  BY <1>2 DEF ReachedIn
<1> HIDE DEF reached
<1>6. Indicator(params, id, n) = IF reached = {} THEN 0 ELSE said[Max(reached)].value[n]
  BY <1>3, <1>4, <1>5 DEF Indicator
<1> QED
  BY <1>6 DEF reached

\* What the result says of a reply, field by field.
LEMMA DetailsOfReply ==
  ASSUME AtEnd, input.reader = "reply", AllMeant, NEW i \in DOMAIN input.msgs,
         NEW kind, kind = input.kind, NEW e, e = Details(kind, decoded[i])
  PROVE  /\ \A id \in kind.texts : e.texts[id] = SaidText(i, id)
         /\ \A id \in kind.ints : e.ints[id] = SaidNumber(i, MQCFT_INTEGER, id)
         /\ \A id \in kind.longs : e.longs[id] = SaidNumber(i, MQCFT_INTEGER64, id)
         /\ \A id \in kind.lists : \A n \in 1 .. 2 :
              e.lists[id][n] = IF Reached(i, id, n) = {} THEN 0
                               ELSE Said(i)[Max(Reached(i, id, n))].value[n]
<1>1. SameAs(decoded[i], Said(i), "reply")
  BY ReplyRead
<1>2. {MQCFT_INTEGER, MQCFT_STRING, MQCFT_INTEGER64, MQCFT_INTEGER_LIST}
        \subseteq Understood("reply")
  BY DEF Understood
<1>3. ASSUME NEW id \in kind.texts PROVE e.texts[id] = SaidText(i, id)
  <2>1. e.texts[id] = LastGiven(decoded[i], {MQCFT_STRING}, {id}, Empty)
    BY DEF Details, Texts, LastText
  <2> QED
    BY <1>1, <1>2, <2>1, LastOfReply DEF SaidText
<1>4. ASSUME NEW id \in kind.ints PROVE e.ints[id] = SaidNumber(i, MQCFT_INTEGER, id)
  <2>1. e.ints[id] = LastGiven(decoded[i], {MQCFT_INTEGER}, {id}, 0)
    BY DEF Details
  <2> QED
    BY <1>1, <1>2, <2>1, LastOfReply DEF SaidNumber
<1>5. ASSUME NEW id \in kind.longs PROVE e.longs[id] = SaidNumber(i, MQCFT_INTEGER64, id)
  <2>1. e.longs[id] = LastGiven(decoded[i], {MQCFT_INTEGER64}, {id}, 0)
    BY DEF Details
  <2> QED
    BY <1>1, <1>2, <2>1, LastOfReply DEF SaidNumber
<1>6. ASSUME NEW id \in kind.lists, NEW n \in 1 .. 2
      PROVE  e.lists[id][n] = IF Reached(i, id, n) = {} THEN 0
                              ELSE Said(i)[Max(Reached(i, id, n))].value[n]
  <2>1. e.lists[id][n] = Indicator(decoded[i], id, n)
    BY DEF Details
  <2>2. Reached(i, id, n) = ReachedIn(Said(i), id, n)
    BY DEF Reached, ReachedIn
  <2> QED
    BY <1>1, <2>1, <2>2, IndicatorOfReply
<1> QED
  BY <1>3, <1>4, <1>5, <1>6

\* A reply becomes an entry if it names its object, or needs no name.
LEMMA EntryOfReply ==
  ASSUME AtEnd, input.reader = "reply", AllMeant, NEW i \in DOMAIN input.msgs
  PROVE  Entry(i) = IF i \in Naming(Len(input.msgs))
                      THEN <<Details(input.kind, decoded[i])>> ELSE <<>>
<1> DEFINE kind == input.kind
           e == Details(kind, decoded[i])
<1>1. kind.keys \subseteq kind.texts
  <2>1. kind \in Kinds
    BY KindAssumption DEF AtEnd, IInv
  <2> QED
    BY <2>1 DEF Kinds, Kind, ChannelStatus, TopicStatus, SubStatus, QmgrStatus, ClusterQmgr,
       UsageBP, UsagePS, QueueOnline
<1>2. \A id \in kind.keys : e.texts[id] = SaidText(i, id)
  BY <1>1, DetailsOfReply
<1>3. i \in 1 .. Len(input.msgs)
  BY AllRead
<1>4. i \in Naming(Len(input.msgs)) <=> input.msgs[i].len >= HeaderSize /\ IsEntry(kind, e)
  <2> HIDE DEF e
  <2> QED
    BY <1>2, <1>3 DEF Naming, IsEntry
<1> QED
  BY <1>4 DEF Entry

LEMMA EachReplyStands == ASSUME AtEnd PROVE EachReplyOnItsOwn
<1> SUFFICES ASSUME input.reader = "reply", AllMeant PROVE EachReplyOnItsOwn
  BY DEF EachReplyOnItsOwn
<1> DEFINE all == Len(input.msgs)
           P == Naming(all)
           e == [i \in 1 .. all |-> Details(input.kind, decoded[i])]
           s == [i \in DOMAIN decoded |-> Entry(i)]
<1>1. all \in Nat /\ DOMAIN input.msgs = 1 .. all /\ DOMAIN decoded = 1 .. all
  BY AllRead
<1>2. \A i \in 1 .. all : Entry(i) = IF i \in P THEN <<e[i]>> ELSE <<>>
  BY <1>1, EntryOfReply
<1>3. IsSequence(s) /\ Len(s) = all /\ DOMAIN s = 1 .. all
  <2>1. s \in Seq({s[i] : i \in DOMAIN s})
    <3> HIDE DEF all
    <3> QED
      BY <1>1
  <2> QED
    BY <1>1, <2>1 DEF IsSequence
<1>4. \A i \in DOMAIN s : s[i] = IF i \in P THEN <<e[i]>> ELSE <<>>
  BY <1>1, <1>2
<1>5. Replies = FlattenSeq(s)
  BY DEF Replies
<1>6. Ranked(Replies, P, all, e)
  <2> HIDE DEF s, P, e, all
  <2> QED
    BY <1>3, <1>4, <1>5, FlattenRanks
<1>7. \A i \in 0 .. all : UpTo(P, i) = Naming(i)
  <2> SUFFICES ASSUME NEW i \in 0 .. all PROVE UpTo(P, i) = Naming(i)
    OBVIOUS
  <2>1. 1 .. i \subseteq 1 .. all
    BY <1>1
  <2> QED
    BY <2>1 DEF UpTo, Naming
<1>8. Len(Replies) = Cardinality(Naming(all))
  <2>1. all \in 0 .. all
    BY <1>1
  <2> QED
    BY <1>6, <1>7, <2>1 DEF Ranked
<1>9. ASSUME NEW i \in Naming(all)
      PROVE  Replies[Cardinality(Naming(i))] = Details(input.kind, decoded[i])
  <2>1. i \in 1 .. all /\ i \in 0 .. all /\ all \in 0 .. all
    BY <1>1 DEF Naming
  <2>2. i \in UpTo(P, all)
    BY <1>7, <2>1
  <2>3. Replies[Cardinality(UpTo(P, i))] = e[i]
    BY <1>6, <2>2 DEF Ranked
  <2> QED
    BY <1>7, <2>1, <2>3
<1>10. \A i \in Naming(all) : i \in DOMAIN input.msgs
  BY <1>1 DEF Naming
<1> HIDE DEF all
<1> QED
  BY <1>8, <1>9, <1>10, DetailsOfReply DEF EachReplyOnItsOwn, all

-----------------------------------------------------------------------------
(* Discovered queues.                                                      *)

\* Flattening keeps what there is.
LEMMA FlattenToSet ==
  ASSUME NEW s, IsSequence(s), \A i \in DOMAIN s : IsSequence(s[i])
  PROVE  /\ IsSequence(FlattenSeq(s))
         /\ ToSet(FlattenSeq(s)) = UNION {ToSet(s[i]) : i \in DOMAIN s}
<1> DEFINE n == Len(s)
           sets(i) == UNION {ToSet(s[j]) : j \in 1 .. i}
<1>1. n \in Nat /\ DOMAIN s = 1 .. n
  BY DEF IsSequence
<1>2. PICK flat : /\ flat[0] = <<>>
                  /\ \A i \in 1 .. n : flat[i] = flat[i - 1] \o s[i]
                  /\ \A i \in 0 .. n : IsSequence(flat[i])
                  /\ FlattenSeq(s) = flat[n]
  BY FlattenSteps
<1> DEFINE A == {i \in 0 .. n : ToSet(flat[i]) = sets(i)}
<1>3. 0 \in A
  <2>1. ToSet(<<>>) = sets(0)
    BY OfNone
  <2> QED
    BY <1>1, <1>2, <2>1
<1>4. ASSUME NEW i \in 0 .. n - 1, i \in A PROVE i + 1 \in A
  <2>1. i \in 0 .. n /\ i + 1 \in 1 .. n /\ i + 1 \in 0 .. n /\ (i + 1) - 1 = i
    BY <1>1
  <2>2. flat[i + 1] = flat[i] \o s[i + 1] /\ IsSequence(flat[i]) /\ IsSequence(s[i + 1])
    BY <1>1, <1>2, <2>1
  <2>3. ToSet(flat[i + 1]) = ToSet(flat[i]) \cup ToSet(s[i + 1])
    BY <2>2, Joined
  <2>4. 1 .. i + 1 = (1 .. i) \cup {i + 1}
    BY <2>1
  <2>5. sets(i + 1) = sets(i) \cup ToSet(s[i + 1])
    BY <2>4
  <2> HIDE DEF sets
  <2> QED
    BY <1>4, <2>1, <2>3, <2>5
<1>5. n \in A
  <2> HIDE DEF A
  <2>1. 0 .. n \subseteq A
    BY <1>1, <1>3, <1>4, CountingUp
  <2> QED
    BY <1>1, <2>1
<1>6. IsSequence(flat[n]) /\ ToSet(flat[n]) = sets(n)
  <2>1. n \in 0 .. n
    BY <1>1
  <2> QED
    BY <1>2, <1>5, <2>1
<1>7. sets(n) = UNION {ToSet(s[i]) : i \in DOMAIN s}
  BY <1>1
<1> HIDE DEF sets
<1> QED
  BY <1>2, <1>6, <1>7

\* A queue that is added stands in the list, and no queue stands there twice.
LEMMA AddsOne ==
  ASSUME NEW queues, IsSequence(queues), Cardinality(ToSet(queues)) = Len(queues),
         IsFiniteSet(ToSet(queues)), NEW q, NEW more, more = Adds(queues, q)
  PROVE  /\ IsSequence(more) /\ Cardinality(ToSet(more)) = Len(more) /\ IsFiniteSet(ToSet(more))
         /\ ToSet(more) = ToSet(queues) \cup ({q} \ (Hidden \cup {Empty}))
<1>1. CASE q = Empty \/ q \in Hidden \/ q \in ToSet(queues)
  BY <1>1 DEF Adds
<1>2. CASE ~(q = Empty \/ q \in Hidden \/ q \in ToSet(queues))
  <2>1. more = Append(queues, q)
    BY <1>2 DEF Adds
  <2>2. Append(queues, q) = queues \o <<q>>
    <3>1. queues \in Seq({queues[i] : i \in DOMAIN queues} \cup {q})
      BY DEF IsSequence
    <3> QED
      BY <3>1
  <2>3. IsSequence(<<q>>) /\ Len(<<q>>) = 1 /\ ToSet(<<q>>) = {q}
    BY OfOne
  <2>4. /\ IsSequence(more) /\ Len(more) = Len(queues) + 1
        /\ ToSet(more) = ToSet(queues) \cup {q}
    BY <2>1, <2>2, <2>3, Joined
  <2>5. IsFiniteSet(ToSet(more)) /\ Cardinality(ToSet(more)) = Cardinality(ToSet(queues)) + 1
    BY <1>2, <2>4, FS_AddElement
  <2> QED
    BY <1>2, <2>4, <2>5
<1> QED
  BY <1>1, <1>2

\* The list after each of the names.
LEMMA AddsSteps ==
  ASSUME NEW names, IsSequence(names)
  PROVE  \E after : /\ after[0] = <<>>
                    /\ \A i \in 1 .. Len(names) : after[i] = Adds(after[i - 1], names[i])
                    /\ FoldLeft(Adds, <<>>, names) = after[Len(names)]
<1> DEFINE n == Len(names)
           S == Seq(ToSet(names))
           step == [i \in 1 .. n |-> [s \in S |-> Adds(s, names[i])]]
           Is(f) == f = [s \in SUBSET (1 .. n) |->
                           IF s = {} THEN <<>>
                           ELSE Adds(f[s \ {Max(s)}], names[Max(s)])]
           iter == CHOOSE f : Is(f)
<1>1. n \in Nat /\ DOMAIN names = 1 .. n
  BY DEF IsSequence
<1>2. FoldLeft(Adds, <<>>, names) = iter[1 .. n]
  BY <1>1 DEF FoldLeft, MapThenFoldSet
<1>3. <<>> \in S /\ \A x \in 1 .. n : \A s \in S : Adds(s, names[x]) \in S
  <2>1. ASSUME NEW x \in 1 .. n, NEW s \in S PROVE Adds(s, names[x]) \in S
    <3>1. names[x] \in ToSet(names)
      BY <1>1 DEF ToSet
    <3>2. Append(s, names[x]) \in S
      BY <3>1
    <3> QED
      BY <3>2 DEF Adds
  <2> QED
    BY <2>1
<1> HIDE DEF n, S
<1>4. \E f : Is(f)
  <2>1. step \in [1 .. n -> [S -> S]]
    BY <1>3
  <2>2. PICK f \in [SUBSET (1 .. n) -> S] : Folds(f, n, <<>>, step)
    <3> HIDE DEF step
    <3> QED
      BY <1>1, <1>3, <2>1, StepsExist
  <2>3. \A s \in SUBSET (1 .. n) : s # {} =>
          step[Max(s)][f[s \ {Max(s)}]] = Adds(f[s \ {Max(s)}], names[Max(s)])
    <3>1. ASSUME NEW s \in SUBSET (1 .. n), s # {}
          PROVE  Max(s) \in 1 .. n /\ f[s \ {Max(s)}] \in S
      <4>1. Max(s) \in s
        <5>1. s \in SUBSET (0 .. n)
          BY <1>1
        <5> QED
          BY <1>1, <3>1, <5>1, MaxIn
      <4> QED
        BY <4>1
    <3> QED
      BY <3>1
  <2>4. Is(f)
    <3> HIDE DEF step
    <3> QED
      BY <2>2, <2>3 DEF Folds
  <2> QED
    BY <2>4
<1>5. Is(iter)
  BY <1>4
<1> DEFINE after == [i \in 0 .. n |-> iter[1 .. i]]
<1>6. after[0] = <<>>
  <2>1. 1 .. 0 = {} /\ 0 \in 0 .. n
    BY <1>1
  <2>2. iter[{}] = <<>>
    <3> HIDE DEF iter
    <3> QED
      BY <1>5
  <2> HIDE DEF iter
  <2> QED
    BY <2>1, <2>2
<1>7. ASSUME NEW i \in 1 .. n
      PROVE  after[i] = Adds(after[i - 1], names[i])
  <2> HIDE DEF iter
  <2>1. iter[1 .. i] = Adds(iter[1 .. i - 1], names[i])
    <3>1. /\ 1 .. i \in SUBSET (1 .. n) /\ 1 .. i # {} /\ Max(1 .. i) = i
          /\ (1 .. i) \ {i} = 1 .. i - 1
      BY <1>1, FirstOnes
    <3>2. iter[1 .. i] = Adds(iter[(1 .. i) \ {Max(1 .. i)}], names[Max(1 .. i)])
      BY <1>5, <3>1
    <3> QED
      BY <3>1, <3>2
  <2>2. i \in 0 .. n /\ i - 1 \in 0 .. n
    BY <1>1
  <2> QED
    BY <2>1, <2>2
<1>8. after[n] = iter[1 .. n] /\ n = Len(names)
  BY <1>1 DEF n
<1> HIDE DEF after, iter
<1> QED
  BY <1>2, <1>6, <1>7, <1>8

\* The names that are not to be hidden are listed, each once.
LEMMA ListOfNames ==
  ASSUME NEW names, IsSequence(names), NEW queues, queues = FoldLeft(Adds, <<>>, names)
  PROVE  /\ Cardinality(ToSet(queues)) = Len(queues)
         /\ ToSet(queues) = ToSet(names) \ (Hidden \cup {Empty})
<1> DEFINE n == Len(names)
           shown(i) == {names[j] : j \in 1 .. i} \ (Hidden \cup {Empty})
           Good(qs, i) == /\ IsSequence(qs) /\ Cardinality(ToSet(qs)) = Len(qs)
                          /\ IsFiniteSet(ToSet(qs)) /\ ToSet(qs) = shown(i)
<1>1. n \in Nat /\ DOMAIN names = 1 .. n
  BY DEF IsSequence
<1>2. PICK after : /\ after[0] = <<>>
                   /\ \A i \in 1 .. n : after[i] = Adds(after[i - 1], names[i])
                   /\ queues = after[n]
  BY AddsSteps
<1> DEFINE A == {i \in 0 .. n : Good(after[i], i)}
<1>3. 0 \in A
  <2>1. shown(0) = {}
    OBVIOUS
  <2>2. Good(<<>>, 0)
    BY <2>1, OfNone, FS_EmptySet
  <2> HIDE DEF Good
  <2> QED
    BY <1>1, <1>2, <2>2
<1>4. ASSUME NEW i \in 0 .. n - 1, i \in A PROVE i + 1 \in A
  <2>1. i \in 0 .. n /\ i + 1 \in 1 .. n /\ i + 1 \in 0 .. n /\ (i + 1) - 1 = i
    BY <1>1
  <2>2. after[i + 1] = Adds(after[i], names[i + 1]) /\ Good(after[i], i)
    BY <1>2, <1>4, <2>1
  <2>3. 1 .. i + 1 = (1 .. i) \cup {i + 1}
    BY <2>1
  <2>4. shown(i + 1) = shown(i) \cup ({names[i + 1]} \ (Hidden \cup {Empty}))
    BY <2>3
  <2> HIDE DEF shown
  <2>5. ASSUME NEW qs, qs = after[i], NEW more, more = after[i + 1] PROVE Good(more, i + 1)
    <3>1. more = Adds(qs, names[i + 1]) /\ Good(qs, i)
      BY <2>2, <2>5
    <3>2. /\ IsSequence(more) /\ Cardinality(ToSet(more)) = Len(more) /\ IsFiniteSet(ToSet(more))
          /\ ToSet(more) = ToSet(qs) \cup ({names[i + 1]} \ (Hidden \cup {Empty}))
      BY <3>1, AddsOne
    <3> QED
      BY <2>4, <3>1, <3>2
  <2> HIDE DEF Good
  <2> QED
    BY <2>1, <2>5
<1>5. n \in A
  <2> HIDE DEF A
  <2>1. 0 .. n \subseteq A
    BY <1>1, <1>3, <1>4, CountingUp
  <2> QED
    BY <1>1, <2>1
<1>6. shown(n) = ToSet(names) \ (Hidden \cup {Empty})
  BY <1>1 DEF ToSet
<1> HIDE DEF shown
<1> QED
  BY <1>2, <1>5, <1>6

\* Each number up to that of the wanted ones is the rank of one of them.
LEMMA KeptRanks ==
  ASSUME NEW reader, NEW row, NEW n \in Nat
  PROVE  \A c \in 1 .. Cardinality(Kept(reader, row, n)) :
           \E x \in Kept(reader, row, n) : Cardinality(Kept(reader, row, x)) = c
<1> DEFINE kept(i) == Kept(reader, row, i)
           count(i) == Cardinality(kept(i))
           All(i) == \A c \in 1 .. count(i) : \E x \in kept(i) : count(x) = c
           A == {i \in 0 .. n : All(i)}
<1>1. 0 \in A
  <2>1. count(0) = 0
    BY FS_EmptySet DEF Kept
  <2> QED
    BY <2>1
<1>2. ASSUME NEW i \in 0 .. n - 1, i \in A PROVE i + 1 \in A
  <2>1. i \in Nat /\ i + 1 \in 0 .. n /\ All(i)
    BY <1>2
  <2>2. CASE Wanted(reader, row[i + 1])
    <3>1. /\ kept(i + 1) = kept(i) \cup {i + 1} /\ count(i + 1) = count(i) + 1
          /\ count(i) \in Nat
      BY <2>1, <2>2, KeptNext
    <3> HIDE DEF kept
    <3>2. ASSUME NEW c \in 1 .. count(i + 1) PROVE \E x \in kept(i + 1) : count(x) = c
      <4>1. CASE c = count(i + 1)
        BY <3>1, <4>1
      <4>2. CASE c # count(i + 1)
        <5>1. c \in 1 .. count(i)
          <6> HIDE DEF count
          <6> QED
            BY <3>1, <4>2
        <5> QED
          BY <2>1, <3>1, <5>1
      <4> QED
        BY <4>1, <4>2
    <3> QED
      BY <2>1, <3>2
  <2>3. CASE ~Wanted(reader, row[i + 1])
    <3>1. kept(i + 1) = kept(i)
      BY <2>1, <2>3, KeptNext
    <3> QED
      BY <2>1, <3>1
  <2> QED
    BY <2>2, <2>3
<1>3. n \in A
  <2> HIDE DEF A
  <2>1. 0 .. n \subseteq A
    BY <1>1, <1>2, CountingUp
  <2> QED
    BY <2>1
<1> QED
  BY <1>3

\* What is read of a row is what is made of those that are wanted.
LEMMA ListedToSet ==
  ASSUME NEW reader, NEW row, NEW n \in Nat, NEW params, IsSequence(params),
         Listed(params, reader, row, n)
  PROVE  ToSet(params) = {Leaf(reader, row[x]) : x \in Kept(reader, row, n)}
<1> DEFINE count(x) == Cardinality(Kept(reader, row, x))
<1>1. DOMAIN params = 1 .. count(n)
  BY DEF IsSequence, Listed
<1>2. \A x \in Kept(reader, row, n) : params[count(x)] = Leaf(reader, row[x])
  BY DEF Listed
<1>3. \A x \in Kept(reader, row, n) : count(x) \in DOMAIN params
  BY <1>1, KeptRank
<1>4. \A c \in DOMAIN params : \E x \in Kept(reader, row, n) : count(x) = c
  BY <1>1, KeptRanks
<1> HIDE DEF count
<1> QED
  BY <1>2, <1>3, <1>4 DEF ToSet

\* The queues that an item names.
NamesOf(item) ==
    IF item.id = 2016 /\ item.type = MQCFT_STRING THEN {item.value}
    ELSE IF item.id = 2016 /\ item.type = MQCFT_STRING_LIST THEN ToSet(item.value) ELSE {}

\* What a reply names.
NamedByItems == \A i : QueuesNamed(i) = UNION {NamesOf(Said(i)[x]) : x \in DOMAIN Said(i)}

LEMMA NamedEach == NamedByItems
<1> SUFFICES ASSUME NEW i, NEW row, row = Said(i)
             PROVE  QueuesNamed(i) = UNION {NamesOf(row[x]) : x \in DOMAIN row}
  BY DEF NamedByItems
<1> DEFINE said(type) == {row[x].value : x \in SaidFor(row, DOMAIN row, type, 2016)}
           all == UNION {NamesOf(row[x]) : x \in DOMAIN row}
<1>1. QueuesNamed(i) =
        said(MQCFT_STRING) \cup UNION {ToSet(names) : names \in said(MQCFT_STRING_LIST)}
  BY DEF QueuesNamed
<1>2. ASSUME NEW x \in DOMAIN row PROVE NamesOf(row[x]) \subseteq QueuesNamed(i)
  BY <1>1 DEF NamesOf, SaidFor
<1>3. said(MQCFT_STRING) \subseteq all
  <2>1. ASSUME NEW x \in SaidFor(row, DOMAIN row, MQCFT_STRING, 2016)
        PROVE  row[x].value \in NamesOf(row[x]) /\ x \in DOMAIN row
    BY DEF SaidFor, NamesOf
  <2> QED
    BY <2>1
<1>4. \A names \in said(MQCFT_STRING_LIST) : ToSet(names) \subseteq all
  <2>1. ASSUME NEW x \in SaidFor(row, DOMAIN row, MQCFT_STRING_LIST, 2016)
        PROVE  ToSet(row[x].value) = NamesOf(row[x]) /\ x \in DOMAIN row
    BY DEF SaidFor, NamesOf, MQCFT_STRING, MQCFT_STRING_LIST
  <2> QED
    BY <2>1
<1> HIDE DEF said
<1> QED
  BY <1>1, <1>2, <1>3, <1>4

\* The reader finds them in it; of an item that it skips there is nothing to show.
LEMMA NamesRead ==
  ASSUME NEW item, Holds(item), NEW names, names = NamesIn(Leaf("discover", item))
  PROVE  /\ IsSequence(names)
         /\ ToSet(names) \ (Hidden \cup {Empty}) = NamesOf(item) \ (Hidden \cup {Empty})
         /\ ~Wanted("discover", item) => NamesOf(item) \subseteq Hidden
<1> DEFINE p == Leaf("discover", item)
<1>1. p.type = item.type /\ p.id = item.id /\ p.value = Value("discover", Own(item))
  BY LeafFields
<1>2. ~Wanted("discover", item) => NamesOf(item) \subseteq Hidden
  BY DEF Wanted, NamesOf
<1>3. IsSequence(<<>>) /\ ToSet(<<>>) = {}
  BY OfNone
<1> HIDE DEF p
<1>4. ASSUME item.type \in {MQCFT_STRING, MQCFT_STRING_LIST}
      PROVE  p.value = IF item.type = MQCFT_STRING /\ item.value = Empty THEN None ELSE item.value
  <2>1. item.type \in Understood("discover")
    BY <1>4 DEF Understood
  <2>2. CASE item.type = MQCFT_STRING /\ item.value = Empty
    <3>1. Bytes(item) = 20 + 4 * ((Size(item.value) + 3) \div 4) /\ Size(item.value) = 0
      BY <2>2, BytesOfType DEF Holds
    <3>2. Bytes(item) = 20 /\ Smallest("discover", item.type) = 24
      BY <2>2, <3>1, SmallestOfType
    <3>3. Value("discover", Own(item)) = Unread("discover", item.type)
      BY <2>1, <3>2, TakesValue
    <3> QED
      BY <1>1, <2>2, <3>3 DEF Unread
  <2>3. CASE ~(item.type = MQCFT_STRING /\ item.value = Empty)
    <3>1. Bytes(item) >= Smallest("discover", item.type)
      BY <1>4, <2>3, LongEnough
    <3> QED
      BY <1>1, <2>1, <2>3, <3>1, TakesValue
  <2> QED
    BY <2>2, <2>3
<1>5. CASE item.id # 2016
  <2>1. names = <<>> /\ NamesOf(item) = {}
    BY <1>1, <1>5 DEF NamesIn, NamesOf, p
  <2> QED
    BY <1>2, <1>3, <2>1
<1>6. CASE item.id = 2016 /\ item.type = MQCFT_STRING
  <2>1. CASE item.value = Empty
    <3>1. names = <<>> /\ NamesOf(item) = {Empty}
      BY <1>1, <1>4, <1>6, <2>1 DEF NamesIn, NamesOf, p
    <3> QED
      BY <1>2, <1>3, <3>1
  <2>2. CASE item.value # Empty
    <3>1. p.value = item.value /\ item.value # None
      BY <1>4, <1>6, <2>2 DEF Holds
    <3>2. names = <<item.value>> /\ NamesOf(item) = {item.value}
      BY <1>1, <1>6, <3>1 DEF NamesIn, NamesOf, p, MQCFT_STRING, MQCFT_STRING_LIST
    <3>3. IsSequence(<<item.value>>) /\ ToSet(<<item.value>>) = {item.value}
      BY OfOne
    <3> QED
      BY <1>2, <3>2, <3>3
  <2> QED
    BY <2>1, <2>2
<1>7. CASE item.id = 2016 /\ item.type = MQCFT_STRING_LIST
  <2>1. IsSequence(item.value) /\ item.value # None
    BY <1>7 DEF Holds
  <2>2. p.value = item.value
    BY <1>4, <1>7 DEF MQCFT_STRING, MQCFT_STRING_LIST
  <2>3. names = item.value /\ NamesOf(item) = ToSet(item.value)
    BY <1>1, <1>7, <2>1, <2>2 DEF NamesIn, NamesOf, p, MQCFT_STRING, MQCFT_STRING_LIST
  <2> QED
    BY <1>2, <2>1, <2>3
<1>8. CASE item.id = 2016 /\ item.type \notin {MQCFT_STRING, MQCFT_STRING_LIST}
  <2>1. names = <<>> /\ NamesOf(item) = {}
    BY <1>1, <1>8 DEF NamesIn, NamesOf, p
  <2> QED
    BY <1>2, <1>3, <2>1
<1> QED
  BY <1>5, <1>6, <1>7, <1>8

\* What is read of the replies that name queues.
LEMMA DiscoverRead ==
  ASSUME AtEnd, input.reader = "discover", AllMeant, NEW i \in DOMAIN input.msgs
  PROVE  /\ IsSequence(decoded[i]) /\ Len(Said(i)) \in Nat
         /\ DOMAIN Said(i) = 1 .. Len(Said(i)) /\ \A x \in DOMAIN Said(i) : Holds(Said(i)[x])
         /\ ToSet(decoded[i]) = {Leaf("discover", Said(i)[x]) :
                                   x \in Kept("discover", Said(i), Len(Said(i)))}
<1>1. i \in DOMAIN decoded
  BY AllRead
<1>2. CASE Readable(input.msgs[i])
  <2>1. Meant(input.msgs[i]) /\ Said(i) = Row(input.msgs[i])
    BY <1>2 DEF AllMeant, Said
  <2>2. Listed(decoded[i], "discover", Row(input.msgs[i]), Len(Row(input.msgs[i])))
    BY <1>1, <2>1 DEF AtEnd, ContentInv, DecodesWhatWasSent
  <2>3. IsSequence(decoded[i])
    BY <1>1, <2>1 DEF AtEnd, ResultInv, RowReader
  <2>4. ASSUME NEW row, row = Row(input.msgs[i]), NEW n, n = Len(row)
        PROVE  /\ n \in Nat /\ DOMAIN row = 1 .. n /\ \A x \in DOMAIN row : Holds(row[x])
               /\ ToSet(decoded[i]) = {Leaf("discover", row[x]) : x \in Kept("discover", row, n)}
    <3>1. n \in Nat /\ DOMAIN row = 1 .. n /\ \A x \in DOMAIN row : Holds(row[x])
      BY <2>1, <2>4, RowHolds
    <3>2. Listed(decoded[i], "discover", row, n)
      BY <2>2, <2>4
    <3> QED
      BY <2>3, <3>1, <3>2, ListedToSet
  <2> QED
    BY <2>1, <2>3, <2>4
<1>3. CASE ~Readable(input.msgs[i])
  <2>1. decoded[i] = <<>> /\ Said(i) = <<>>
    BY <1>1, <1>3 DEF AtEnd, ResultInv, Said
  <2>2. Kept("discover", <<>>, 0) = {}
    BY DEF Kept
  <2>3. Len(<<>>) = 0 /\ IsSequence(<<>>) /\ ToSet(<<>>) = {} /\ DOMAIN <<>> = {}
    BY OfNone
  <2> QED
    BY <2>1, <2>2, <2>3
<1> QED
  BY <1>2, <1>3

LEMMA DiscoveryExact == ASSUME AtEnd PROVE DiscoveryIsExact
<1> SUFFICES ASSUME input.reader = "discover", AllMeant PROVE DiscoveryIsExact
  BY DEF DiscoveryIsExact
<1> DEFINE out == Hidden \cup {Empty}
           params == FlattenSeq(decoded)
           each == [x \in DOMAIN params |-> NamesIn(params[x])]
           mentioned == FlattenSeq(each)
           kept(i) == Kept("discover", Said(i), Len(Said(i)))
<1>1. /\ IsSequence(decoded) /\ DOMAIN decoded = DOMAIN input.msgs
      /\ \A i \in DOMAIN decoded : IsSequence(decoded[i])
  BY AllRead, DiscoverRead
<1>2. /\ IsSequence(params)
      /\ ToSet(params) = UNION {ToSet(decoded[i]) : i \in DOMAIN decoded}
  BY <1>1, FlattenToSet
<1>3. ASSUME NEW x \in DOMAIN params
      PROVE  \E i \in DOMAIN input.msgs : \E y \in kept(i) :
               params[x] = Leaf("discover", Said(i)[y])
  <2>1. params[x] \in ToSet(params)
    BY DEF ToSet
  <2> HIDE DEF params
  <2>2. PICK i \in DOMAIN input.msgs : params[x] \in ToSet(decoded[i])
    BY <1>1, <1>2, <2>1
  <2> QED
    BY <2>2, DiscoverRead
<1>4. ASSUME NEW i \in DOMAIN input.msgs, NEW y \in kept(i)
      PROVE  \E x \in DOMAIN params : params[x] = Leaf("discover", Said(i)[y])
  <2>1. Leaf("discover", Said(i)[y]) \in ToSet(decoded[i])
    BY DiscoverRead
  <2>2. Leaf("discover", Said(i)[y]) \in ToSet(params)
    BY <1>1, <1>2, <2>1
  <2> QED
    BY <2>2 DEF ToSet
<1> HIDE DEF params
<1>5. ASSUME NEW i \in DOMAIN input.msgs
      PROVE  /\ kept(i) = {y \in DOMAIN Said(i) : Wanted("discover", Said(i)[y])}
             /\ \A y \in DOMAIN Said(i) : Holds(Said(i)[y])
  BY DiscoverRead DEF Kept
<1> HIDE DEF kept
<1>6. /\ IsSequence(each) /\ DOMAIN each = DOMAIN params
      /\ \A x \in DOMAIN params : IsSequence(each[x])
  <2>1. each \in Seq({each[x] : x \in DOMAIN each})
    BY <1>2 DEF IsSequence
  <2>2. ASSUME NEW x \in DOMAIN params PROVE IsSequence(each[x])
    BY <1>3, <1>5, NamesRead
  <2> QED
    BY <2>1, <2>2 DEF IsSequence
<1>7. /\ IsSequence(mentioned)
      /\ ToSet(mentioned) = UNION {ToSet(each[x]) : x \in DOMAIN params}
  <2> HIDE DEF each
  <2> QED
    BY <1>6, FlattenToSet
<1>8. Discovered = FoldLeft(Adds, <<>>, mentioned)
  BY DEF Discovered, params
<1>9. /\ Cardinality(ToSet(Discovered)) = Len(Discovered)
      /\ ToSet(Discovered) = ToSet(mentioned) \ out
  <2> HIDE DEF mentioned
  <2> QED
    BY <1>7, <1>8, ListOfNames
<1>10. ToSet(mentioned) \ out \subseteq UNION {QueuesNamed(i) : i \in DOMAIN input.msgs}
  <2> SUFFICES ASSUME NEW q \in ToSet(mentioned), q \notin out
               PROVE  \E i \in DOMAIN input.msgs : q \in QueuesNamed(i)
    OBVIOUS
  <2>1. PICK x \in DOMAIN params : q \in ToSet(each[x])
    <3> HIDE DEF mentioned, each
    <3> QED
      BY <1>7
  <2>2. PICK i \in DOMAIN input.msgs :
          \E y \in kept(i) : params[x] = Leaf("discover", Said(i)[y])
    BY <1>3
  <2>3. PICK y \in kept(i) : params[x] = Leaf("discover", Said(i)[y])
    BY <2>2
  <2>4. y \in DOMAIN Said(i) /\ Holds(Said(i)[y])
    BY <1>5
  <2>5. q \in NamesOf(Said(i)[y])
    BY <2>1, <2>3, <2>4, NamesRead
  <2> QED
    BY <2>4, <2>5, NamedEach DEF NamedByItems
<1>11. ASSUME NEW i \in DOMAIN input.msgs PROVE QueuesNamed(i) \ out \subseteq ToSet(mentioned)
  <2> SUFFICES ASSUME NEW q \in QueuesNamed(i), q \notin out PROVE q \in ToSet(mentioned)
    OBVIOUS
  <2>1. PICK y \in DOMAIN Said(i) : q \in NamesOf(Said(i)[y])
    BY NamedEach DEF NamedByItems
  <2>2. Holds(Said(i)[y])
    BY <1>5
  <2>3. y \in kept(i)
    BY <1>5, <2>1, <2>2, NamesRead
  <2>4. PICK x \in DOMAIN params : params[x] = Leaf("discover", Said(i)[y])
    BY <1>4, <2>3
  <2>5. q \in ToSet(each[x])
    BY <2>1, <2>2, <2>4, NamesRead
  <2> QED
    BY <1>7, <2>5
<1> HIDE DEF mentioned, out
<1>12. ToSet(Discovered) = (UNION {QueuesNamed(i) : i \in DOMAIN input.msgs}) \ out
  <2>1. ASSUME NEW named, named = UNION {QueuesNamed(i) : i \in DOMAIN input.msgs}
        PROVE  ToSet(mentioned) \ out = named \ out
    <3>1. \A q \in named : \E i \in DOMAIN input.msgs : q \in QueuesNamed(i)
      BY <2>1
    <3>2. \A q \in named : q \notin out => q \in ToSet(mentioned)
      BY <1>11, <3>1
    <3> QED
      BY <1>10, <2>1, <3>2
  <2> QED
    BY <1>9, <2>1
<1> QED
  BY <1>9, <1>12 DEF DiscoveryIsExact, out

-----------------------------------------------------------------------------
(* Handles of a queue.                                                     *)

\* What folding handles does, parameter by parameter.
NoHandles == [handles |-> <<>>, current |-> NoHandle, inGroup |-> FALSE]

LEMMA HandlesSteps ==
  ASSUME NEW params, IsSequence(params), NEW S, NoHandles \in S,
         \A x \in DOMAIN params : \A s \in S : HandlesAfter(s, params[x]) \in S
  PROVE  \E after : /\ after[0] = NoHandles
                    /\ \A i \in 1 .. Len(params) :
                         after[i] = HandlesAfter(after[i - 1], params[i])
                    /\ FoldLeft(HandlesAfter, NoHandles, params) = after[Len(params)]
<1> DEFINE n == Len(params)
           step == [i \in 1 .. n |-> [s \in S |-> HandlesAfter(s, params[i])]]
           Is(f) == f = [s \in SUBSET (1 .. n) |->
                           IF s = {} THEN NoHandles
                           ELSE HandlesAfter(f[s \ {Max(s)}], params[Max(s)])]
           iter == CHOOSE f : Is(f)
<1>1. n \in Nat /\ DOMAIN params = 1 .. n
  BY DEF IsSequence
<1>2. FoldLeft(HandlesAfter, NoHandles, params) = iter[1 .. n]
  BY <1>1 DEF FoldLeft, MapThenFoldSet
<1> HIDE DEF n
<1>3. \E f : Is(f)
  <2>1. step \in [1 .. n -> [S -> S]]
    BY <1>1
  <2>2. PICK f \in [SUBSET (1 .. n) -> S] : Folds(f, n, NoHandles, step)
    <3> HIDE DEF step
    <3> QED
      BY <1>1, <2>1, StepsExist
  <2>3. \A s \in SUBSET (1 .. n) : s # {} =>
          step[Max(s)][f[s \ {Max(s)}]] = HandlesAfter(f[s \ {Max(s)}], params[Max(s)])
    <3>1. ASSUME NEW s \in SUBSET (1 .. n), s # {}
          PROVE  Max(s) \in 1 .. n /\ f[s \ {Max(s)}] \in S
      <4>1. Max(s) \in s
        <5>1. s \in SUBSET (0 .. n)
          BY <1>1
        <5> QED
          BY <1>1, <3>1, <5>1, MaxIn
      <4> QED
        BY <4>1
    <3> QED
      BY <3>1
  <2>4. Is(f)
    <3> HIDE DEF step
    <3> QED
      BY <2>2, <2>3 DEF Folds
  <2> QED
    BY <2>4
<1>4. Is(iter)
  BY <1>3
<1> DEFINE after == [i \in 0 .. n |-> iter[1 .. i]]
<1>5. after[0] = NoHandles
  <2>1. 1 .. 0 = {} /\ 0 \in 0 .. n
    BY <1>1
  <2>2. iter[{}] = NoHandles
    <3> HIDE DEF iter
    <3> QED
      BY <1>4
  <2> HIDE DEF iter
  <2> QED
    BY <2>1, <2>2
<1>6. ASSUME NEW i \in 1 .. n
      PROVE  after[i] = HandlesAfter(after[i - 1], params[i])
  <2> HIDE DEF iter
  <2>1. iter[1 .. i] = HandlesAfter(iter[1 .. i - 1], params[i])
    <3>1. /\ 1 .. i \in SUBSET (1 .. n) /\ 1 .. i # {} /\ Max(1 .. i) = i
          /\ (1 .. i) \ {i} = 1 .. i - 1
      BY <1>1, FirstOnes
    <3>2. iter[1 .. i] = HandlesAfter(iter[(1 .. i) \ {Max(1 .. i)}], params[Max(1 .. i)])
      BY <1>4, <3>1
    <3> QED
      BY <3>1, <3>2
  <2>2. i \in 0 .. n /\ i - 1 \in 0 .. n
    BY <1>1
  <2> QED
    BY <2>1, <2>2
<1>7. after[n] = iter[1 .. n] /\ n = Len(params)
  BY <1>1 DEF n
<1> HIDE DEF after, iter
<1> QED
  BY <1>2, <1>5, <1>6, <1>7

\* A handle, field by field.
HandleIs(texts, process, modes) == [texts |-> texts, process |-> process, modes |-> modes]

TextIds == {2016, 3501, 3502, 2549, 2046}
ModeIds == {1411, 1412}

LEMMA NoHandleFields ==
  NoHandle = HandleIs([id \in TextIds |-> Empty], 0, {}) /\ DOMAIN NoHandle.texts = TextIds
BY DEF NoHandle, HandleIs, TextIds

\* What a parameter changes of a handle.
TextsAfter(t, p) ==
    [id \in TextIds |-> IF p.value # None /\ p.type = MQCFT_STRING /\ p.id = id
                          THEN p.value ELSE t[id]]
ProcessAfter(n, p) ==
    IF p.value # None /\ p.type = MQCFT_INTEGER /\ p.id = 3002 THEN p.value ELSE n
ModesAfter(m, p) ==
    m \cup {id \in ModeIds : /\ p.value # None /\ p.type = MQCFT_INTEGER
                             /\ p.id = id /\ p.value > 0}

LEMMA HandleChange ==
  ASSUME NEW t, t = [id \in TextIds |-> t[id]], NEW n, NEW m, NEW p,
         NEW h, h = HandleIs(t, n, m)
  PROVE  HandleAfter(h, p) = HandleIs(TextsAfter(t, p), ProcessAfter(n, p), ModesAfter(m, p))
<1>1. DOMAIN t = TextIds
  OBVIOUS
<1>2. /\ h.texts = t /\ h.process = n /\ h.modes = m
      /\ \A v : [h EXCEPT !.process = v] = HandleIs(t, v, m)
      /\ \A v : [h EXCEPT !.modes = v] = HandleIs(t, n, v)
      /\ \A id, v : [h EXCEPT !.texts[id] = v] = HandleIs([t EXCEPT ![id] = v], n, m)
  <2>1. h.texts = t /\ h.process = n /\ h.modes = m
    BY DEF HandleIs
  <2>2. \A v : [h EXCEPT !.process = v] = HandleIs(t, v, m)
    BY DEF HandleIs
  <2>3. \A v : [h EXCEPT !.modes = v] = HandleIs(t, n, v)
    BY DEF HandleIs
  <2>4. ASSUME NEW id, NEW v
        PROVE  [h EXCEPT !.texts[id] = v] = HandleIs([t EXCEPT ![id] = v], n, m)
    BY DEF HandleIs
  <2> QED
    BY <2>1, <2>2, <2>3, <2>4
<1>3. CASE p.value # None /\ p.type = MQCFT_STRING /\ p.id \in TextIds
  <2>1. HandleAfter(h, p) = [h EXCEPT !.texts[p.id] = p.value]
    BY <1>1, <1>2, <1>3 DEF HandleAfter, MQCFT_STRING, MQCFT_INTEGER
  <2>2. HandleAfter(h, p) = HandleIs([t EXCEPT ![p.id] = p.value], n, m)
    BY <1>2, <2>1
  <2>3. [t EXCEPT ![p.id] = p.value] = TextsAfter(t, p)
    BY <1>3 DEF TextsAfter
  <2>4. ProcessAfter(n, p) = n /\ ModesAfter(m, p) = m
    BY <1>3 DEF ProcessAfter, ModesAfter, MQCFT_STRING, MQCFT_INTEGER
  <2> QED
    BY <2>2, <2>3, <2>4
<1>4. CASE ~(p.value # None /\ p.type = MQCFT_STRING /\ p.id \in TextIds)
  <2>1. TextsAfter(t, p) = t
    BY <1>4 DEF TextsAfter
  <2>2. CASE p.value # None /\ p.type = MQCFT_INTEGER /\ p.id = 3002
    <3>1. HandleAfter(h, p) = [h EXCEPT !.process = p.value]
      BY <2>2 DEF HandleAfter, MQCFT_STRING, MQCFT_INTEGER
    <3>2. HandleAfter(h, p) = HandleIs(t, p.value, m)
      BY <1>2, <3>1
    <3>3. ProcessAfter(n, p) = p.value /\ ModesAfter(m, p) = m
      BY <2>2 DEF ModeIds, ProcessAfter, ModesAfter
    <3> QED
      BY <2>1, <3>2, <3>3
  <2>3. CASE p.value # None /\ p.type = MQCFT_INTEGER /\ p.id \in ModeIds /\ p.value > 0
    <3>1. HandleAfter(h, p) = [h EXCEPT !.modes = h.modes \cup {p.id}]
      BY <2>3 DEF HandleAfter, MQCFT_STRING, MQCFT_INTEGER, ModeIds
    <3>2. HandleAfter(h, p) = HandleIs(t, n, m \cup {p.id})
      BY <1>2, <3>1
    <3>3. ProcessAfter(n, p) = n /\ ModesAfter(m, p) = m \cup {p.id}
      BY <2>3 DEF ModeIds, ProcessAfter, ModesAfter
    <3> QED
      BY <2>1, <3>2, <3>3
  <2>4. CASE /\ ~(p.value # None /\ p.type = MQCFT_INTEGER /\ p.id = 3002)
             /\ ~(p.value # None /\ p.type = MQCFT_INTEGER /\ p.id \in ModeIds /\ p.value > 0)
    <3>1. HandleAfter(h, p) = h
      BY <1>1, <1>2, <1>4, <2>4 DEF HandleAfter, ModeIds
    <3>2. ProcessAfter(n, p) = n /\ ModesAfter(m, p) = m
      BY <2>4 DEF ProcessAfter, ModesAfter
    <3> QED
      BY <2>1, <3>1, <3>2
  <2> QED
    BY <2>2, <2>3, <2>4
<1> QED
  BY <1>3, <1>4

LEMMA HandleOfFields ==
  ASSUME NEW row, NEW places
  PROVE  HandleOf(row, places) =
           HandleIs([id \in TextIds |-> LastSaid(row, places, MQCFT_STRING, id, Empty)],
                    LastSaid(row, places, MQCFT_INTEGER, 3002, 0),
                    {id \in ModeIds : \E x \in SaidFor(row, places, MQCFT_INTEGER, id) :
                                        row[x].value > 0})
BY NoHandleFields DEF HandleOf, HandleIs, ModeIds

\* The last that is said up to a place is said there, or before it.
LEMMA LastSaidNext ==
  ASSUME NEW row, NEW a \in Nat, NEW i \in Nat, a <= i + 1, NEW type, NEW id, NEW default
  PROVE  LastSaid(row, a .. i + 1, type, id, default) =
           IF row[i + 1].type = type /\ row[i + 1].id = id THEN row[i + 1].value
           ELSE LastSaid(row, a .. i, type, id, default)
<1> DEFINE s == SaidFor(row, a .. i + 1, type, id)
<1>1. a .. i + 1 = (a .. i) \cup {i + 1} /\ i + 1 \in a .. i + 1
  OBVIOUS
<1>2. CASE row[i + 1].type = type /\ row[i + 1].id = id
  <2>1. s \in SUBSET Int /\ i + 1 \in s /\ \A y \in s : i + 1 >= y
    BY <1>1, <1>2 DEF SaidFor
  <2>2. Max(s) = i + 1
    BY <2>1, MaxIs
  <2> HIDE DEF s
  <2> QED
    BY <1>2, <2>1, <2>2 DEF LastSaid, LastValue, s
<1>3. CASE ~(row[i + 1].type = type /\ row[i + 1].id = id)
  <2>1. s = SaidFor(row, a .. i, type, id)
    BY <1>1, <1>3 DEF SaidFor
  <2> QED
    BY <1>3, <2>1 DEF LastSaid
<1> QED
  BY <1>2, <1>3

\* What an item behind a handle says of it.
LEMMA HandleNext ==
  ASSUME NEW row, NEW a \in Nat, NEW i \in Nat, a <= i + 1, NEW p,
         p.type = row[i + 1].type, p.id = row[i + 1].id,
         p.type \in {MQCFT_STRING, MQCFT_INTEGER} => p.value = row[i + 1].value /\ p.value # None
  PROVE  HandleAfter(HandleOf(row, a .. i), p) = HandleOf(row, a .. i + 1)
<1> DEFINE texts(places) == [id \in TextIds |-> LastSaid(row, places, MQCFT_STRING, id, Empty)]
           process(places) == LastSaid(row, places, MQCFT_INTEGER, 3002, 0)
           modes(places) == {id \in ModeIds :
                               \E x \in SaidFor(row, places, MQCFT_INTEGER, id) : row[x].value > 0}
           t == texts(a .. i)
           n == process(a .. i)
           m == modes(a .. i)
<1>1. \A places : HandleOf(row, places) = HandleIs(texts(places), process(places), modes(places))
  BY HandleOfFields
<1>2. HandleAfter(HandleOf(row, a .. i), p) =
        HandleIs(TextsAfter(t, p), ProcessAfter(n, p), ModesAfter(m, p))
  <2>1. t = [id \in TextIds |-> t[id]]
    OBVIOUS
  <2>2. HandleOf(row, a .. i) = HandleIs(t, n, m)
    BY <1>1
  <2> HIDE DEF t, n, m
  <2> QED
    BY <2>1, <2>2, HandleChange
<1>3. TextsAfter(t, p) = texts(a .. i + 1)
  <2>1. ASSUME NEW id \in TextIds
        PROVE  LastSaid(row, a .. i + 1, MQCFT_STRING, id, Empty) =
                 IF p.value # None /\ p.type = MQCFT_STRING /\ p.id = id THEN p.value ELSE t[id]
    <3>1. LastSaid(row, a .. i + 1, MQCFT_STRING, id, Empty) =
            IF row[i + 1].type = MQCFT_STRING /\ row[i + 1].id = id THEN row[i + 1].value
            ELSE LastSaid(row, a .. i, MQCFT_STRING, id, Empty)
      BY LastSaidNext
    <3> QED
      BY <3>1
  <2> QED
    BY <2>1 DEF TextsAfter
<1>4. ProcessAfter(n, p) = process(a .. i + 1)
  <2>1. LastSaid(row, a .. i + 1, MQCFT_INTEGER, 3002, 0) =
          IF row[i + 1].type = MQCFT_INTEGER /\ row[i + 1].id = 3002 THEN row[i + 1].value
          ELSE LastSaid(row, a .. i, MQCFT_INTEGER, 3002, 0)
    BY LastSaidNext
  <2> QED
    BY <2>1 DEF ProcessAfter
<1>5. ModesAfter(m, p) = modes(a .. i + 1)
  <2>1. a .. i + 1 = (a .. i) \cup {i + 1}
    OBVIOUS
  <2>2. \A id : SaidFor(row, a .. i + 1, MQCFT_INTEGER, id) =
                  SaidFor(row, a .. i, MQCFT_INTEGER, id)
                    \cup {x \in {i + 1} : row[x].type = MQCFT_INTEGER /\ row[x].id = id}
    BY <2>1 DEF SaidFor
  <2> QED
    BY <2>2 DEF ModesAfter
<1> HIDE DEF t, n, m, texts, process, modes
<1> QED
  BY <1>1, <1>2, <1>3, <1>4, <1>5

\* The states that the parameters of a message may lead to, and what one of them changes.
HandlesOver(V) == {HandleIs(t, n, m) : t \in [TextIds -> V], n \in V, m \in SUBSET ModeIds}
StatesOver(H) == [handles : Seq(H), current : H, inGroup : BOOLEAN]

LEMMA StateAtHeader ==
  ASSUME NEW H, NEW state \in StatesOver(H), NEW p, p.type = MQCFT_GROUP,
         NEW after, after = HandlesAfter(state, p)
  PROVE  /\ after.handles = state.handles \o (IF state.inGroup THEN Named(state.current) ELSE <<>>)
         /\ after.current = NoHandle
         /\ after.inGroup
         /\ after = [handles |-> after.handles, current |-> NoHandle, inGroup |-> TRUE]
BY DEF HandlesAfter, StatesOver

LEMMA StateBehind ==
  ASSUME NEW H, NEW state \in StatesOver(H), NEW p, p.type # MQCFT_GROUP,
         NEW after, after = HandlesAfter(state, p)
  PROVE  /\ after.handles = state.handles
         /\ after.current = HandleAfter(state.current, p)
         /\ after.inGroup = state.inGroup
         /\ HandleAfter(state.current, p) \in H => after \in StatesOver(H)
BY DEF HandlesAfter, StatesOver

LEMMA HandleStays ==
  ASSUME NEW V, NEW p, p.value \in V, NEW h \in HandlesOver(V)
  PROVE  HandleAfter(h, p) \in HandlesOver(V)
<1>1. PICK t \in [TextIds -> V], n \in V, m \in SUBSET ModeIds : h = HandleIs(t, n, m)
  BY DEF HandlesOver
<1>2. t = [id \in TextIds |-> t[id]]
  OBVIOUS
<1>3. HandleAfter(h, p) = HandleIs(TextsAfter(t, p), ProcessAfter(n, p), ModesAfter(m, p))
  BY <1>1, <1>2, HandleChange
<1>4. TextsAfter(t, p) \in [TextIds -> V]
  BY DEF TextsAfter
<1>5. ProcessAfter(n, p) \in V /\ ModesAfter(m, p) \in SUBSET ModeIds
  BY DEF ProcessAfter, ModesAfter
<1> QED
  BY <1>3, <1>4, <1>5 DEF HandlesOver

LEMMA StateStays ==
  ASSUME NEW V, Empty \in V, 0 \in V, NEW p, p.value \in V, NEW s \in StatesOver(HandlesOver(V))
  PROVE  HandlesAfter(s, p) \in StatesOver(HandlesOver(V))
<1> DEFINE H == HandlesOver(V)
           after == HandlesAfter(s, p)
<1>1. NoHandle \in H
  BY NoHandleFields DEF HandlesOver
<1>2. s.current \in H /\ s.handles \in Seq(H)
  BY DEF StatesOver
<1>3. HandleAfter(s.current, p) \in H
  BY <1>2, HandleStays
<1> HIDE DEF H
<1>4. CASE p.type = MQCFT_GROUP
  <2>1. Named(s.current) \in Seq(H) /\ <<>> \in Seq(H)
    BY <1>2 DEF Named
  <2>2. s.handles \o (IF s.inGroup THEN Named(s.current) ELSE <<>>) \in Seq(H)
    BY <1>2, <2>1
  <2>3. after.handles = s.handles \o (IF s.inGroup THEN Named(s.current) ELSE <<>>)
    BY <1>4, StateAtHeader DEF H
  <2>4. after = [handles |-> after.handles, current |-> NoHandle, inGroup |-> TRUE]
    BY <1>4, StateAtHeader DEF H
  <2> HIDE DEF after
  <2>5. after \in StatesOver(H)
    <3>1. after.handles \in Seq(H)
      BY <2>2, <2>3
    <3>2. [handles |-> after.handles, current |-> NoHandle, inGroup |-> TRUE] \in StatesOver(H)
      BY <1>1, <3>1 DEF StatesOver
    <3> QED
      BY <2>4, <3>2
  <2> QED
    BY <2>5 DEF after, H
<1>5. CASE p.type # MQCFT_GROUP
  BY <1>3, <1>5, StateBehind DEF H
<1> QED
  BY <1>4, <1>5

\* What is known of a text or a number of a handle.
LEMMA StatusValue ==
  ASSUME NEW item, Holds(item), NEW p, p = Leaf("status", item)
  PROVE  /\ p.type = item.type /\ p.id = item.id
         /\ p.type \in {MQCFT_STRING, MQCFT_INTEGER} => p.value = item.value /\ p.value # None
<1>1. p.type = item.type /\ p.id = item.id /\ p.value = Value("status", Own(item))
  BY LeafFields
<1>2. ASSUME item.type \in {MQCFT_STRING, MQCFT_INTEGER} PROVE p.value = item.value
  <2>1. item.type \in Understood("status")
    BY <1>2 DEF Understood
  <2>2. Bytes(item) >= Smallest("status", item.type)
    BY <1>2, LongEnough
  <2> QED
    BY <1>1, <2>1, <2>2, TakesValue
<1> QED
  BY <1>1, <1>2 DEF Holds

\* How far the loop over a row has come: no header of a group was met yet, or h is the
\* last, and the handles before h that name their queue are there.
Behind(row, h, i) == \A y \in Headers(row) : ~(h < y /\ y <= i)
HandleAt(row, h) == HandleOf(row, Belong(row, h, Len(row)))
NamedHeaders(row) == {h \in Headers(row) : HandleAt(row, h).texts[2016] # Empty}
HandlesAt(row) == [h \in DOMAIN row |-> HandleAt(row, h)]

NoGroupYet(row, i, state) ==
    /\ Behind(row, 0, i) /\ ~state.inGroup
    /\ state.handles = <<>> /\ state.current = HandleOf(row, 1 .. i)

InGroupAt(row, i, state, h) ==
    /\ h <= i /\ Behind(row, h, i) /\ state.inGroup
    /\ Ranked(state.handles, NamedHeaders(row), h - 1, HandlesAt(row))
    /\ state.current = HandleOf(row, h + 1 .. i)

HandlesRead(row, i, state) ==
    NoGroupYet(row, i, state) \/ \E h \in Headers(row) : InGroupAt(row, i, state, h)

\* What belongs to a handle when the next header comes, or nothing comes any more.
LEMMA BelongTo ==
  ASSUME NEW row, NEW n \in Nat, DOMAIN row = 1 .. n, NEW h \in Nat, NEW i \in h .. n,
         Behind(row, h, i), i = n \/ i + 1 \in Headers(row)
  PROVE  Belong(row, h, n) = h + 1 .. i
<1>1. \A y \in Headers(row) : y \in 1 .. n
  BY DEF Headers
<1>2. ASSUME NEW x \in Belong(row, h, n) PROVE x \in h + 1 .. i
  <2>1. x \in 1 .. n /\ h < x /\ ~(i + 1 \in Headers(row) /\ h < i + 1 /\ i + 1 <= x)
    BY DEF Belong
  <2> QED
    BY <2>1
<1>3. ASSUME NEW x \in h + 1 .. i PROVE x \in Belong(row, h, n)
  <2>1. x \in 1 .. n /\ h < x
    OBVIOUS
  <2>2. ASSUME NEW y \in Headers(row), h < y, y <= x PROVE FALSE
    BY <1>1, <2>2 DEF Behind
  <2> QED
    BY <2>1, <2>2 DEF Belong
<1> QED
  BY <1>2, <1>3

\* Between two headers no handle begins.
LEMMA NoneBetween ==
  ASSUME NEW row, NEW n \in Nat, DOMAIN row = 1 .. n, NEW h \in Nat, NEW i \in h .. n,
         Behind(row, h, i)
  PROVE  UpTo(NamedHeaders(row), i) = UpTo(NamedHeaders(row), h)
<1>1. ASSUME NEW y \in UpTo(NamedHeaders(row), i) PROVE y <= h
  <2>1. y \in Headers(row) /\ y \in 1 .. i
    BY DEF UpTo, NamedHeaders
  <2> QED
    BY <2>1 DEF Behind
<1> QED
  BY <1>1 DEF UpTo

\* The group that was read last is ended: the handles up to it are there.
LEMMA GroupEnds ==
  ASSUME NEW row, NEW n \in Nat, n = Len(row), DOMAIN row = 1 .. n, NEW h \in Headers(row),
         NEW i \in h .. n, i = n \/ i + 1 \in Headers(row), NEW state,
         InGroupAt(row, i, state, h), IsSequence(state.handles)
  PROVE  Ranked(state.handles \o Named(state.current), NamedHeaders(row), i, HandlesAt(row))
<1> DEFINE P == NamedHeaders(row)
           e == HandlesAt(row)
           t == Named(state.current)
<1>1. h \in 1 .. n /\ h \in Nat /\ h - 1 \in Nat /\ (h - 1) + 1 = h
  BY DEF Headers
<1>2. state.current = HandleAt(row, h)
  BY <1>1, BelongTo DEF InGroupAt, HandleAt
<1>3. e[h] = HandleAt(row, h) /\ (h \in P <=> e[h].texts[2016] # Empty)
  BY <1>1 DEF HandlesAt, NamedHeaders
<1>4. t = IF h \in P THEN <<e[h]>> ELSE <<>>
  BY <1>2, <1>3 DEF Named
<1>5. Ranked(state.handles, P, h - 1, e)
  BY DEF InGroupAt
<1>6. UpTo(P, i) = UpTo(P, h)
  BY <1>1, NoneBetween DEF InGroupAt
<1> HIDE DEF P, e, t
<1>7. Ranked(state.handles \o t, P, (h - 1) + 1, e)
  BY <1>1, <1>4, <1>5, RankedNext
<1>8. Ranked(state.handles \o t, P, i, e)
  BY <1>1, <1>6, <1>7 DEF Ranked
<1> QED
  BY <1>8 DEF P, e, t

\* A turn of the loop over a row.
LEMMA HandlesReadNext ==
  ASSUME NEW row, NEW n \in Nat, n = Len(row), DOMAIN row = 1 .. n, NEW i \in 0 .. n - 1,
         Holds(row[i + 1]), NEW p, p = Leaf("status", row[i + 1]),
         NEW H, NEW state \in StatesOver(H), HandlesRead(row, i, state)
  PROVE  HandlesRead(row, i + 1, HandlesAfter(state, p))
<1> DEFINE after == HandlesAfter(state, p)
<1>1. /\ p.type = row[i + 1].type /\ p.id = row[i + 1].id
      /\ p.type \in {MQCFT_STRING, MQCFT_INTEGER} => p.value = row[i + 1].value /\ p.value # None
  BY StatusValue
<1>2. i \in Nat /\ i + 1 \in 1 .. n
  OBVIOUS
<1>3. i + 1 \in Headers(row) <=> p.type = MQCFT_GROUP
  BY <1>1, <1>2 DEF Headers
<1>4. IsSequence(state.handles)
  BY DEF StatesOver, IsSequence
<1>5. CASE p.type = MQCFT_GROUP
  <2>1. /\ after.handles = state.handles \o (IF state.inGroup THEN Named(state.current) ELSE <<>>)
        /\ after.current = NoHandle /\ after.inGroup
    <3>1. ASSUME NEW s, s = HandlesAfter(state, p)
          PROVE  s.handles = state.handles \o (IF state.inGroup THEN Named(state.current) ELSE <<>>)
      BY <1>5, <3>1 DEF HandlesAfter, StatesOver
    <3>2. ASSUME NEW s, s = HandlesAfter(state, p)
          PROVE  s = [handles |-> s.handles, current |-> NoHandle, inGroup |-> TRUE]
      BY <1>5, <3>2 DEF HandlesAfter, StatesOver
    <3>3. /\ after.handles = state.handles \o (IF state.inGroup THEN Named(state.current) ELSE <<>>)
          /\ after = [handles |-> after.handles, current |-> NoHandle, inGroup |-> TRUE]
      BY <3>1, <3>2
    <3> HIDE DEF after
    <3>4. after.current = NoHandle /\ after.inGroup
      BY <3>3
    <3> QED
      BY <3>3, <3>4
  <2> HIDE DEF after
  <2>2. Ranked(after.handles, NamedHeaders(row), i, HandlesAt(row))
    <3>1. CASE NoGroupYet(row, i, state)
      <4>1. after.handles = <<>>
        BY <2>1, <3>1 DEF NoGroupYet
      <4>2. UpTo(NamedHeaders(row), i) = UpTo(NamedHeaders(row), 0)
        BY <3>1, NoneBetween DEF NoGroupYet
      <4>3. UpTo(NamedHeaders(row), i) = {} /\ Cardinality(UpTo(NamedHeaders(row), i)) = 0
        BY <4>2, CountNone
      <4> QED
        BY <4>1, <4>3, OfNone DEF Ranked
    <3>2. CASE \E h \in Headers(row) : InGroupAt(row, i, state, h)
      <4>1. PICK h \in Headers(row) : InGroupAt(row, i, state, h)
        BY <3>2
      <4>2. i \in h .. n /\ state.inGroup
        BY <1>2, <4>1 DEF InGroupAt, Headers
      <4>3. Ranked(state.handles \o Named(state.current), NamedHeaders(row), i, HandlesAt(row))
        BY <1>3, <1>4, <1>5, <4>1, <4>2, GroupEnds
      <4> QED
        BY <2>1, <4>2, <4>3
    <3> QED
      BY <3>1, <3>2 DEF HandlesRead
  <2>3. after.current = HandleOf(row, (i + 1) + 1 .. i + 1)
    <3>1. (i + 1) + 1 .. i + 1 = {}
      BY <1>2
    <3>2. HandleOf(row, {}) = NoHandle
      BY HandleOfFields, NoHandleFields DEF SaidFor, LastSaid, LastValue
    <3> QED
      BY <2>1, <3>1, <3>2
  <2>4. Behind(row, i + 1, i + 1) /\ i + 1 <= i + 1 /\ (i + 1) - 1 = i
    BY <1>2 DEF Behind, Headers
  <2>5. InGroupAt(row, i + 1, after, i + 1)
    BY <2>1, <2>2, <2>3, <2>4 DEF InGroupAt
  <2> QED
    BY <1>3, <1>5, <2>5 DEF HandlesRead, after
<1>6. CASE p.type # MQCFT_GROUP
  <2>1. /\ after.handles = state.handles /\ after.current = HandleAfter(state.current, p)
        /\ after.inGroup = state.inGroup
    BY <1>6, StateBehind
  <2> HIDE DEF after
  <2>2. ASSUME NEW h \in Nat, h <= i, Behind(row, h, i) PROVE Behind(row, h, i + 1)
    BY <1>2, <1>3, <1>6, <2>2 DEF Behind, Headers
  <2>3. ASSUME NEW a \in Nat, a <= i + 1
        PROVE  HandleAfter(HandleOf(row, a .. i), p) = HandleOf(row, a .. i + 1)
    BY <1>1, <1>2, <2>3, HandleNext
  <2>4. CASE NoGroupYet(row, i, state)
    <3>1. Behind(row, 0, i + 1) /\ after.current = HandleOf(row, 1 .. i + 1)
      BY <1>2, <2>1, <2>2, <2>3, <2>4 DEF NoGroupYet
    <3> QED
      BY <2>1, <2>4, <3>1 DEF HandlesRead, NoGroupYet, after
  <2>5. CASE \E h \in Headers(row) : InGroupAt(row, i, state, h)
    <3>1. PICK h \in Headers(row) : InGroupAt(row, i, state, h)
      BY <2>5
    <3>2. h \in Nat /\ h <= i /\ h + 1 \in Nat /\ h + 1 <= i + 1 /\ h <= i + 1
      BY <1>2, <3>1 DEF InGroupAt, Headers
    <3>3. Behind(row, h, i + 1) /\ after.current = HandleOf(row, h + 1 .. i + 1)
      BY <2>1, <2>2, <2>3, <3>1, <3>2 DEF InGroupAt
    <3>4. InGroupAt(row, i + 1, after, h)
      BY <2>1, <3>1, <3>2, <3>3 DEF InGroupAt
    <3> QED
      BY <3>4 DEF HandlesRead, after
  <2> QED
    BY <2>4, <2>5 DEF HandlesRead
<1> QED
  BY <1>5, <1>6

\* The loop over what is read of a row.
LEMMA HandlesReadAll ==
  ASSUME NEW params, IsSequence(params), NEW row, SameAs(params, row, "status")
  PROVE  \E state : /\ HandlesRead(row, Len(row), state) /\ IsSequence(state.handles)
                    /\ Handles(params) = state.handles \o Named(state.current)
<1> SUFFICES ASSUME NEW n \in Nat, n = Len(row)
             PROVE  \E state : /\ HandlesRead(row, n, state) /\ IsSequence(state.handles)
                               /\ Handles(params) = state.handles \o Named(state.current)
  BY DEF SameAs
<1> DEFINE V == {params[x].value : x \in 1 .. n} \cup {Empty, 0}
           S == StatesOver(HandlesOver(V))
<1>1. DOMAIN row = 1 .. n /\ DOMAIN params = 1 .. n /\ Len(params) = n
  BY DEF SameAs, IsSequence
<1>2. \A x \in 1 .. n : Holds(row[x]) /\ params[x] = Leaf("status", row[x])
  BY <1>1 DEF SameAs
<1>3. NoHandles \in S
  <2>1. NoHandle \in HandlesOver(V)
    BY NoHandleFields DEF HandlesOver
  <2> QED
    BY <2>1 DEF NoHandles, StatesOver
<1>4. ASSUME NEW x \in 1 .. n, NEW s \in S PROVE HandlesAfter(s, params[x]) \in S
  <2>1. params[x].value \in V /\ Empty \in V /\ 0 \in V
    OBVIOUS
  <2> HIDE DEF V
  <2> QED
    BY <2>1, StateStays
<1> HIDE DEF S
<1>5. PICK after : /\ after[0] = NoHandles
                   /\ \A i \in 1 .. n : after[i] = HandlesAfter(after[i - 1], params[i])
                   /\ FoldLeft(HandlesAfter, NoHandles, params) = after[n]
  BY <1>1, <1>3, <1>4, HandlesSteps
<1> DEFINE A == {i \in 0 .. n : after[i] \in S /\ HandlesRead(row, i, after[i])}
<1>6. 0 \in A
  <2>1. Behind(row, 0, 0) /\ HandleOf(row, 1 .. 0) = NoHandle
    <3>1. 1 .. 0 = {}
      OBVIOUS
    <3>2. HandleOf(row, {}) = NoHandle
      BY HandleOfFields, NoHandleFields DEF SaidFor, LastSaid, LastValue
    <3>3. Behind(row, 0, 0)
      BY <1>1 DEF Behind, Headers
    <3> QED
      BY <3>1, <3>2, <3>3
  <2>2. NoGroupYet(row, 0, NoHandles)
    BY <2>1 DEF NoGroupYet, NoHandles
  <2> QED
    BY <1>3, <1>5, <2>2 DEF HandlesRead
<1>7. ASSUME NEW i \in 0 .. n - 1, i \in A PROVE i + 1 \in A
  <2>1. i + 1 \in 1 .. n /\ i + 1 \in 0 .. n /\ (i + 1) - 1 = i
    OBVIOUS
  <2>2. after[i + 1] = HandlesAfter(after[i], params[i + 1])
    BY <1>5, <2>1
  <2>3. after[i] \in S /\ HandlesRead(row, i, after[i])
    BY <1>7
  <2>4. after[i + 1] \in S
    BY <1>4, <2>1, <2>2, <2>3
  <2>5. HandlesRead(row, i + 1, HandlesAfter(after[i], params[i + 1]))
    <3>1. Holds(row[i + 1]) /\ params[i + 1] = Leaf("status", row[i + 1])
      BY <1>2, <2>1
    <3>2. after[i] \in StatesOver(HandlesOver(V))
      BY <2>3 DEF S
    <3> QED
      BY <1>1, <2>3, <3>1, <3>2, HandlesReadNext
  <2> QED
    BY <2>1, <2>2, <2>4, <2>5
<1>8. n \in A
  <2> HIDE DEF A
  <2>1. 0 .. n \subseteq A
    BY <1>6, <1>7, CountingUp
  <2> QED
    BY <2>1
<1>9. IsSequence(after[n].handles)
  <2>1. after[n].handles \in Seq(HandlesOver(V))
    BY <1>8 DEF S, StatesOver
  <2> HIDE DEF V
  <2> QED
    BY <2>1, OverItself
<1>10. Handles(params) = after[n].handles \o Named(after[n].current)
  BY <1>5 DEF Handles, NoHandles
<1> QED
  BY <1>8, <1>9, <1>10

\* What is read of a reply that lists the handles of a queue.
LEMMA StatusRead ==
  ASSUME AtEnd, input.reader = "status", Meant(input.msgs[1]), 1 \in DOMAIN input.msgs
  PROVE  IsSequence(decoded[1]) /\ SameAs(decoded[1], Row(input.msgs[1]), "status")
<1>1. 1 \in DOMAIN decoded
  <2>1. k \in 1 .. LastMessage + 1 /\ k > LastMessage /\ LastMessage = 1
        /\ Len(decoded) = k - 1 /\ IsSequence(decoded)
    BY DEF AtEnd, IInv, TypeOK, Done, LastMessage
  <2>2. Len(decoded) = 1
    BY <2>1
  <2> QED
    BY <2>1, <2>2 DEF IsSequence
<1>2. Listed(decoded[1], "status", Row(input.msgs[1]), Len(Row(input.msgs[1])))
  BY <1>1 DEF AtEnd, ContentInv, DecodesWhatWasSent
<1>3. IsSequence(decoded[1])
  BY <1>1 DEF AtEnd, ResultInv, RowReader
<1> QED
  BY <1>2, <1>3, RowHolds, ListedSame

LEMMA HandlesSeparate == ASSUME AtEnd PROVE HandlesAreSeparate
<1> SUFFICES ASSUME input.reader = "status", Meant(input.msgs[1]),
                    NEW row, row = Row(input.msgs[1]), NEW n, n = Len(row),
                    NEW handles, handles = Handles(decoded[1])
             PROVE  /\ Len(handles) = Cardinality(NamedUpTo(row, n))
                    /\ \A h \in NamedUpTo(row, n) :
                         handles[Cardinality(NamedUpTo(row, h))] = HandleAt(row, h)
  BY DEF HandlesAreSeparate, HandleAt
<1>1. 1 \in DOMAIN input.msgs
  BY InputsAssumption DEF AtEnd, IInv
<1>2. IsSequence(decoded[1]) /\ SameAs(decoded[1], row, "status")
  BY <1>1, StatusRead
<1>3. n \in Nat /\ DOMAIN row = 1 .. n
  BY <1>2 DEF SameAs
<1>4. PICK state : /\ HandlesRead(row, n, state) /\ IsSequence(state.handles)
                   /\ handles = state.handles \o Named(state.current)
  BY <1>2, HandlesReadAll
<1>5. \A h : NamedUpTo(row, h) =
               {x \in Starts(row) : x <= h /\ HandleAt(row, x).texts[2016] # Empty}
  BY DEF NamedUpTo, HandleAt
<1>6. CASE \E h \in Headers(row) : InGroupAt(row, n, state, h)
  <2>1. PICK h \in Headers(row) : InGroupAt(row, n, state, h)
    BY <1>6
  <2>2. n \in h .. n
    BY <1>3, <2>1 DEF InGroupAt, Headers
  <2>3. Ranked(handles, NamedHeaders(row), n, HandlesAt(row))
    BY <1>3, <1>4, <2>1, <2>2, GroupEnds
  <2>4. ASSUME NEW i \in 0 .. n PROVE NamedUpTo(row, i) = UpTo(NamedHeaders(row), i)
    <3>1. Starts(row) = Headers(row) /\ Headers(row) \subseteq 1 .. n
      BY <1>3, <2>1 DEF Starts, Headers
    <3> QED
      BY <1>3, <1>5, <3>1 DEF UpTo, NamedHeaders
  <2>5. \A h1 \in UpTo(NamedHeaders(row), n) :
          h1 \in 0 .. n /\ HandlesAt(row)[h1] = HandleAt(row, h1)
    BY <1>3 DEF UpTo, HandlesAt
  <2> QED
    BY <1>3, <2>3, <2>4, <2>5 DEF Ranked
<1>7. CASE NoGroupYet(row, n, state)
  <2>1. Headers(row) = {}
    BY <1>3, <1>7 DEF NoGroupYet, Behind, Headers
  <2>2. Starts(row) = {0} /\ Behind(row, 0, n)
    BY <2>1 DEF Starts, Behind
  <2>3. HandleAt(row, 0) = state.current
    <3>1. Belong(row, 0, n) = 1 .. n
      BY <1>3, <2>1 DEF Belong
    <3> QED
      BY <1>7, <3>1 DEF NoGroupYet, HandleAt
  <2>4. handles = Named(state.current)
    <3>1. IsSequence(Named(state.current))
      BY OfNone, OfOne DEF Named
    <3> QED
      BY <1>4, <1>7, <3>1 DEF NoGroupYet, IsSequence
  <2>5. CASE state.current.texts[2016] = Empty
    <3>1. NamedUpTo(row, n) = {}
      BY <1>5, <2>2, <2>3, <2>5
    <3>2. handles = <<>>
      BY <2>4, <2>5 DEF Named
    <3> QED
      BY <3>1, <3>2, OfNone, FS_EmptySet
  <2>6. CASE state.current.texts[2016] # Empty
    <3>1. NamedUpTo(row, n) = {0} /\ NamedUpTo(row, 0) = {0}
      BY <1>3, <1>5, <2>2, <2>3, <2>6
    <3>2. handles = <<state.current>>
      BY <2>4, <2>6 DEF Named
    <3>3. Cardinality({0}) = 1
      BY FS_Singleton
    <3>4. Len(handles) = 1 /\ handles[1] = state.current
      BY <3>2, OfOne
    <3> QED
      BY <2>3, <3>1, <3>3, <3>4
  <2> QED
    BY <2>5, <2>6
<1> QED
  BY <1>4, <1>6, <1>7 DEF HandlesRead

-----------------------------------------------------------------------------
(* Counters, and the groups that they are added up of.                     *)

\* What a sum, the counters of a group, and those of a message are after each turn.
LEMMA TotalSteps ==
  ASSUME NEW ns, IsSequence(ns), NEW S, 0 \in S,
         \A x \in DOMAIN ns : \A s \in S : s + ns[x] \in S
  PROVE  \E after : /\ after[0] = 0
                    /\ \A i \in 1 .. Len(ns) :
                         after[i] = after[i - 1] + ns[i]
                    /\ Total(ns) = after[Len(ns)]
<1> DEFINE n == Len(ns)
           step == [i \in 1 .. n |-> [s \in S |-> s + ns[i]]]
           Is(f) == f = [s \in SUBSET (1 .. n) |->
                           IF s = {} THEN 0
                           ELSE f[s \ {Max(s)}] + ns[Max(s)]]
           iter == CHOOSE f : Is(f)
<1>1. n \in Nat /\ DOMAIN ns = 1 .. n
  BY DEF IsSequence
<1>2. Total(ns) = iter[1 .. n]
  BY <1>1 DEF Total, FoldLeft, MapThenFoldSet
<1> HIDE DEF n
<1>3. \E f : Is(f)
  <2>1. step \in [1 .. n -> [S -> S]]
    BY <1>1
  <2>2. PICK f \in [SUBSET (1 .. n) -> S] : Folds(f, n, 0, step)
    <3> HIDE DEF step
    <3> QED
      BY <1>1, <2>1, StepsExist
  <2>3. \A s \in SUBSET (1 .. n) : s # {} =>
          step[Max(s)][f[s \ {Max(s)}]] = f[s \ {Max(s)}] + ns[Max(s)]
    <3>1. ASSUME NEW s \in SUBSET (1 .. n), s # {}
          PROVE  Max(s) \in 1 .. n /\ f[s \ {Max(s)}] \in S
      <4>1. Max(s) \in s
        <5>1. s \in SUBSET (0 .. n)
          BY <1>1
        <5> QED
          BY <1>1, <3>1, <5>1, MaxIn
      <4> QED
        BY <4>1
    <3> QED
      BY <3>1
  <2>4. Is(f)
    <3> HIDE DEF step
    <3> QED
      BY <2>2, <2>3 DEF Folds
  <2> QED
    BY <2>4
<1>4. Is(iter)
  BY <1>3
<1> DEFINE after == [i \in 0 .. n |-> iter[1 .. i]]
<1>5. after[0] = 0
  <2>1. 1 .. 0 = {} /\ 0 \in 0 .. n
    BY <1>1
  <2>2. iter[{}] = 0
    <3> HIDE DEF iter
    <3> QED
      BY <1>4
  <2> HIDE DEF iter
  <2> QED
    BY <2>1, <2>2
<1>6. ASSUME NEW i \in 1 .. n
      PROVE  after[i] = after[i - 1] + ns[i]
  <2> HIDE DEF iter
  <2>1. iter[1 .. i] = iter[1 .. i - 1] + ns[i]
    <3>1. /\ 1 .. i \in SUBSET (1 .. n) /\ 1 .. i # {} /\ Max(1 .. i) = i
          /\ (1 .. i) \ {i} = 1 .. i - 1
      BY <1>1, FirstOnes
    <3>2. iter[1 .. i] = iter[(1 .. i) \ {Max(1 .. i)}] + ns[Max(1 .. i)]
      BY <1>4, <3>1
    <3> QED
      BY <3>1, <3>2
  <2>2. i \in 0 .. n /\ i - 1 \in 0 .. n
    BY <1>1
  <2> QED
    BY <2>1, <2>2
<1>7. after[n] = iter[1 .. n] /\ n = Len(ns)
  BY <1>1 DEF n
<1> HIDE DEF after, iter
<1> QED
  BY <1>2, <1>5, <1>6, <1>7

LEMMA MqiSteps ==
  ASSUME NEW params, IsSequence(params), NEW S, NoMqi \in S,
         \A x \in DOMAIN params : \A s \in S : MqiAfter(s, params[x]) \in S
  PROVE  \E after : /\ after[0] = NoMqi
                    /\ \A i \in 1 .. Len(params) :
                         after[i] = MqiAfter(after[i - 1], params[i])
                    /\ MqiStats(params) = after[Len(params)]
<1> DEFINE n == Len(params)
           step == [i \in 1 .. n |-> [s \in S |-> MqiAfter(s, params[i])]]
           Is(f) == f = [s \in SUBSET (1 .. n) |->
                           IF s = {} THEN NoMqi
                           ELSE MqiAfter(f[s \ {Max(s)}], params[Max(s)])]
           iter == CHOOSE f : Is(f)
<1>1. n \in Nat /\ DOMAIN params = 1 .. n
  BY DEF IsSequence
<1>2. MqiStats(params) = iter[1 .. n]
  BY <1>1 DEF MqiStats, FoldLeft, MapThenFoldSet
<1> HIDE DEF n
<1>3. \E f : Is(f)
  <2>1. step \in [1 .. n -> [S -> S]]
    BY <1>1
  <2>2. PICK f \in [SUBSET (1 .. n) -> S] : Folds(f, n, NoMqi, step)
    <3> HIDE DEF step
    <3> QED
      BY <1>1, <2>1, StepsExist
  <2>3. \A s \in SUBSET (1 .. n) : s # {} =>
          step[Max(s)][f[s \ {Max(s)}]] = MqiAfter(f[s \ {Max(s)}], params[Max(s)])
    <3>1. ASSUME NEW s \in SUBSET (1 .. n), s # {}
          PROVE  Max(s) \in 1 .. n /\ f[s \ {Max(s)}] \in S
      <4>1. Max(s) \in s
        <5>1. s \in SUBSET (0 .. n)
          BY <1>1
        <5> QED
          BY <1>1, <3>1, <5>1, MaxIn
      <4> QED
        BY <4>1
    <3> QED
      BY <3>1
  <2>4. Is(f)
    <3> HIDE DEF step
    <3> QED
      BY <2>2, <2>3 DEF Folds
  <2> QED
    BY <2>4
<1>4. Is(iter)
  BY <1>3
<1> DEFINE after == [i \in 0 .. n |-> iter[1 .. i]]
<1>5. after[0] = NoMqi
  <2>1. 1 .. 0 = {} /\ 0 \in 0 .. n
    BY <1>1
  <2>2. iter[{}] = NoMqi
    <3> HIDE DEF iter
    <3> QED
      BY <1>4
  <2> HIDE DEF iter
  <2> QED
    BY <2>1, <2>2
<1>6. ASSUME NEW i \in 1 .. n
      PROVE  after[i] = MqiAfter(after[i - 1], params[i])
  <2> HIDE DEF iter
  <2>1. iter[1 .. i] = MqiAfter(iter[1 .. i - 1], params[i])
    <3>1. /\ 1 .. i \in SUBSET (1 .. n) /\ 1 .. i # {} /\ Max(1 .. i) = i
          /\ (1 .. i) \ {i} = 1 .. i - 1
      BY <1>1, FirstOnes
    <3>2. iter[1 .. i] = MqiAfter(iter[(1 .. i) \ {Max(1 .. i)}], params[Max(1 .. i)])
      BY <1>4, <3>1
    <3> QED
      BY <3>1, <3>2
  <2>2. i \in 0 .. n /\ i - 1 \in 0 .. n
    BY <1>1
  <2> QED
    BY <2>1, <2>2
<1>7. after[n] = iter[1 .. n] /\ n = Len(params)
  BY <1>1 DEF n
<1> HIDE DEF after, iter
<1> QED
  BY <1>2, <1>5, <1>6, <1>7

\* A sum of integers is one.
LEMMA TotalInt == ASSUME NEW ns \in Seq(Int) PROVE Total(ns) \in Int
<1> DEFINE n == Len(ns)
<1>1. IsSequence(ns) /\ n \in Nat /\ DOMAIN ns = 1 .. n /\ \A x \in 1 .. n : ns[x] \in Int
  BY DEF IsSequence
<1>2. PICK after : /\ after[0] = 0
                   /\ \A i \in 1 .. n : after[i] = after[i - 1] + ns[i]
                   /\ Total(ns) = after[n]
  <2>1. ASSUME NEW S, S = Int
        PROVE  0 \in S /\ \A x \in DOMAIN ns : \A s \in S : s + ns[x] \in S
    BY <1>1, <2>1
  <2>2. ASSUME NEW S, S = Int
        PROVE  \E after : /\ after[0] = 0
                          /\ \A i \in 1 .. n : after[i] = after[i - 1] + ns[i]
                          /\ Total(ns) = after[n]
    <3>1. 0 \in S /\ \A x \in DOMAIN ns : \A s \in S : s + ns[x] \in S
      BY <2>1, <2>2
    <3> QED
      BY <1>1, <3>1, TotalSteps
  <2> QED
    BY <2>2
<1> DEFINE A == {i \in 0 .. n : after[i] \in Int}
<1>3. 0 \in A
  BY <1>1, <1>2
<1>4. ASSUME NEW i \in 0 .. n - 1, i \in A PROVE i + 1 \in A
  <2>1. i + 1 \in 1 .. n /\ i + 1 \in 0 .. n /\ (i + 1) - 1 = i /\ after[i] \in Int
    BY <1>1, <1>4
  <2>2. after[i + 1] = after[i] + ns[i + 1] /\ ns[i + 1] \in Int
    BY <1>1, <1>2, <2>1
  <2> QED
    BY <2>1, <2>2
<1>5. n \in A
  <2> HIDE DEF A
  <2>1. 0 .. n \subseteq A
    BY <1>1, <1>3, <1>4, CountingUp
  <2> QED
    BY <1>1, <2>1
<1> QED
  BY <1>2, <1>5

LEMMA SignedInt == ASSUME NEW n \in Int PROVE Signed(n) \in Int
<1> DEFINE w == Word
           h == Word \div 2
<1>1. w \in Nat /\ w > 0 /\ h \in Nat
  BY WordAssumption
<1>2. Signed(n) = ((n + h) % w) - h
  BY DEF Signed
<1> HIDE DEF w, h
<1> QED
  BY <1>1, <1>2

\* What the parser makes of the items of a message.
LEMMA ParserValue ==
  ASSUME NEW item, Holds(item), NEW p, p = Leaf("parser", item)
  PROVE  /\ p.type = item.type /\ p.id = item.id
         /\ p.type \in IntTypes => p.value \in Int /\ p.value = Number(item)
         /\ p.type \in ListTypes =>
              p.value \in Seq(Int) /\ p.value # None /\ Signed(Total(p.value)) = Number(item)
<1>1. p.type = item.type /\ p.id = item.id /\ p.value = Value("parser", Own(item))
  BY LeafFields
<1>2. ASSUME item.type \in IntTypes \cup ListTypes
      PROVE  p.value = IF item.type = MQCFT_INTEGER64 THEN Signed(item.value) ELSE item.value
  <2>1. item.type \in Understood("parser") /\ item.type # MQCFT_STRING
    BY <1>2 DEF Understood, IntTypes, ListTypes, MQCFT_STRING, MQCFT_INTEGER, MQCFT_INTEGER64,
       MQCFT_INTEGER_LIST, MQCFT_INTEGER64_LIST
  <2>2. Bytes(item) >= Smallest("parser", item.type)
    BY <1>2, <2>1, LongEnough DEF IntTypes
  <2> QED
    BY <1>1, <2>1, <2>2, TakesValue
<1>3. Number(item) = IF item.type \in ListTypes THEN Signed(Total(item.value))
                     ELSE IF item.type = MQCFT_INTEGER64 THEN Signed(item.value) ELSE item.value
  BY DEF Number, ListTypes, MQCFT_INTEGER64, MQCFT_INTEGER_LIST, MQCFT_INTEGER64_LIST
<1>4. ListTypes \cap IntTypes = {} /\ MQCFT_INTEGER64 \in IntTypes
  BY DEF ListTypes, IntTypes, MQCFT_INTEGER, MQCFT_INTEGER64, MQCFT_INTEGER_LIST,
     MQCFT_INTEGER64_LIST
<1>5. CASE item.type \in IntTypes
  BY <1>1, <1>2, <1>3, <1>4, <1>5, SignedInt DEF Holds
<1>6. CASE item.type \in ListTypes
  BY <1>1, <1>2, <1>3, <1>4, <1>6 DEF Holds
<1> QED
  BY <1>1, <1>5, <1>6

\* The state of the loop over the counters, with numbers and texts of one set.
Counters == EitherForm \cup LongCounts \cup SingleCounts
MqiFields == DOMAIN MqiTexts
MqiStates(V) == [counts : [Counters -> Int], texts : [MqiFields -> V]]

LEMMA CounterSets ==
  /\ ListTypes \cap IntTypes = {} /\ MQCFT_STRING \notin ListTypes \cup IntTypes
  /\ MQCFT_GROUP \notin ListTypes \cup IntTypes \cup {MQCFT_STRING}
  /\ EitherForm \cap LongCounts = {} /\ Summed \subseteq EitherForm
  /\ EitherForm \subseteq Counters /\ LongCounts \subseteq Counters
  /\ SingleCounts \subseteq Counters /\ Summed \subseteq Counters
  /\ "application_name" \in MqiFields
<1>1. /\ ListTypes \cap IntTypes = {} /\ MQCFT_STRING \notin ListTypes \cup IntTypes
      /\ MQCFT_GROUP \notin ListTypes \cup IntTypes \cup {MQCFT_STRING}
  BY DEF ListTypes, IntTypes, MQCFT_STRING, MQCFT_GROUP, MQCFT_INTEGER, MQCFT_INTEGER64,
     MQCFT_INTEGER_LIST, MQCFT_INTEGER64_LIST
<1>2. EitherForm \cap LongCounts = {} /\ Summed \subseteq EitherForm
  BY DEF EitherForm, LongCounts, Summed
<1>3. "application_name" \in MqiFields
  BY DEF MqiFields, MqiTexts
<1> QED
  BY <1>1, <1>2, <1>3 DEF Counters

LEMMA NoMqiState ==
  ASSUME NEW V, Empty \in V
  PROVE  NoMqi \in MqiStates(V) /\ \A id \in Counters : NoMqi.counts[id] = 0
BY DEF NoMqi, MqiStates, Counters, MqiFields

\* A parameter as the parser makes it, and what it makes of a counter.
Countable(p, V) ==
    /\ p.value = None \/ p.value \in V
    /\ p.type \in IntTypes => p.value = None \/ p.value \in Int
    /\ p.type \in ListTypes => p.value = None \/ p.value \in Seq(Int)

CountAfter(c, p, id) ==
    IF p.value # None /\ p.id = id /\ p.type \in ListTypes THEN Signed(Total(p.value))
    ELSE IF p.value # None /\ p.id = id /\ p.type \in IntTypes THEN p.value ELSE c

LEMMA MqiParam ==
  ASSUME NEW V, NEW stats \in MqiStates(V), NEW p, Countable(p, V)
  PROVE  /\ MqiAfterParam(stats, p) \in MqiStates(V)
         /\ \A id \in Summed :
              MqiAfterParam(stats, p).counts[id] = CountAfter(stats.counts[id], p, id)
<1> SUFFICES ASSUME NEW after, after = MqiAfterParam(stats, p)
             PROVE  /\ after \in MqiStates(V)
                    /\ \A id \in Summed : after.counts[id] = CountAfter(stats.counts[id], p, id)
  OBVIOUS
<1> USE CounterSets
<1>1. ASSUME NEW id \in Counters, NEW v \in Int, after = [stats EXCEPT !.counts[id] = v]
      PROVE  /\ after \in MqiStates(V) /\ after.counts[id] = v
             /\ \A other \in Counters : other # id => after.counts[other] = stats.counts[other]
  BY <1>1 DEF MqiStates
<1>2. ASSUME NEW other \in MqiStates(V), other.counts = stats.counts,
             \A id \in Summed : CountAfter(stats.counts[id], p, id) = stats.counts[id], after = other
      PROVE  /\ after \in MqiStates(V)
             /\ \A id \in Summed : after.counts[id] = CountAfter(stats.counts[id], p, id)
  BY <1>2
<1>3. CASE p.value = None
  <2>1. after = stats
    BY <1>3 DEF MqiAfterParam
  <2> QED
    BY <1>2, <1>3, <2>1 DEF CountAfter
<1>4. CASE p.value # None /\ p.type \in ListTypes /\ p.id \in EitherForm
  <2>1. after = [stats EXCEPT !.counts[p.id] = Signed(Total(p.value))]
    BY <1>4 DEF MqiAfterParam
  <2>2. Signed(Total(p.value)) \in Int
    BY <1>4, TotalInt, SignedInt DEF Countable
  <2>3. p.id \in Counters
    BY <1>4
  <2> QED
    BY <1>1, <1>4, <2>1, <2>2, <2>3 DEF CountAfter
<1>5. CASE p.value # None /\ p.type \in ListTypes /\ p.id \in LongCounts
  <2>1. after = [stats EXCEPT !.counts[p.id] = Total(p.value)]
    BY <1>5 DEF MqiAfterParam
  <2>2. Total(p.value) \in Int
    BY <1>5, TotalInt DEF Countable
  <2>3. p.id \in Counters /\ p.id \notin Summed
    BY <1>5
  <2> QED
    BY <1>1, <1>5, <2>1, <2>2, <2>3 DEF CountAfter
<1>6. CASE p.value # None /\ p.type \in IntTypes /\ p.id \in EitherForm \cup SingleCounts
  <2>1. after = [stats EXCEPT !.counts[p.id] = p.value]
    BY <1>6 DEF MqiAfterParam
  <2>2. p.value \in Int /\ p.id \in Counters
    BY <1>6 DEF Countable
  <2> QED
    BY <1>1, <1>6, <2>1, <2>2 DEF CountAfter
<1>7. CASE p.value # None /\ p.type = MQCFT_STRING
  <2> DEFINE texts == [f \in DOMAIN stats.texts |->
                         IF p.id \in MqiTexts[f] THEN p.value ELSE stats.texts[f]]
  <2>1. after = [stats EXCEPT !.texts = texts]
    BY <1>7 DEF MqiAfterParam
  <2>2. texts \in [MqiFields -> V]
    BY <1>7 DEF MqiStates, Countable
  <2> HIDE DEF texts
  <2>3. after \in MqiStates(V) /\ after.counts = stats.counts
    BY <2>1, <2>2 DEF MqiStates
  <2> QED
    BY <1>2, <1>7, <2>3 DEF CountAfter
<1>8. CASE /\ p.value # None /\ p.type # MQCFT_STRING
           /\ ~(p.type \in ListTypes /\ p.id \in EitherForm)
           /\ ~(p.type \in ListTypes /\ p.id \in LongCounts)
           /\ ~(p.type \in IntTypes /\ p.id \in EitherForm \cup SingleCounts)
  <2>1. after = stats
    BY <1>8 DEF MqiAfterParam
  <2> QED
    BY <1>2, <1>8, <2>1 DEF CountAfter
<1> QED
  BY <1>3, <1>4, <1>5, <1>6, <1>7, <1>8

LEMMA LeafCounts ==
  ASSUME NEW item, Holds(item), NEW p, p = Leaf("parser", item), NEW V, p.value \in V
  PROVE  Countable(p, V)
BY ParserValue DEF Countable

\* The last that the first n items of a row give for a counter.
CountUpTo(members, n, id) ==
    LET given == {x \in 1 .. n : /\ members[x].id = id
                                 /\ members[x].type \in IntTypes \cup ListTypes}
    IN  IF given = {} THEN 0 ELSE Number(members[Max(given)])

LEMMA CountUpToNext ==
  ASSUME NEW members, NEW i \in Nat, Holds(members[i + 1]), NEW id, NEW p,
         p = Leaf("parser", members[i + 1])
  PROVE  CountUpTo(members, i + 1, id) = CountAfter(CountUpTo(members, i, id), p, id)
<1> DEFINE given(n) == {x \in 1 .. n : /\ members[x].id = id
                                       /\ members[x].type \in IntTypes \cup ListTypes}
<1>1. 1 .. i + 1 = (1 .. i) \cup {i + 1} /\ i + 1 \in 1 .. i + 1
  OBVIOUS
<1>2. /\ p.type = members[i + 1].type /\ p.id = members[i + 1].id
      /\ p.type \in IntTypes => p.value # None /\ p.value = Number(members[i + 1])
      /\ p.type \in ListTypes => p.value # None /\ Signed(Total(p.value)) = Number(members[i + 1])
  BY ParserValue, NoneAssumption
<1>3. CASE p.id = id /\ p.type \in IntTypes \cup ListTypes
  <2>1. given(i + 1) \in SUBSET Int /\ i + 1 \in given(i + 1) /\ \A y \in given(i + 1) : i + 1 >= y
    <3>1. i + 1 \in given(i + 1)
      BY <1>1, <1>2, <1>3
    <3>2. \A y \in given(i + 1) : y \in 1 .. i + 1
      OBVIOUS
    <3> HIDE DEF given
    <3> QED
      BY <3>1, <3>2
  <2>2. Max(given(i + 1)) = i + 1
    BY <2>1, MaxIs
  <2>3. CountUpTo(members, i + 1, id) = Number(members[i + 1])
    <3> HIDE DEF given
    <3>1. CountUpTo(members, i + 1, id) =
            IF given(i + 1) = {} THEN 0 ELSE Number(members[Max(given(i + 1))])
      BY DEF CountUpTo, given
    <3> QED
      BY <2>1, <2>2, <3>1
  <2>4. ListTypes \cap IntTypes = {}
    BY CounterSets
  <2> QED
    BY <1>2, <1>3, <2>3, <2>4 DEF CountAfter
<1>4. CASE ~(p.id = id /\ p.type \in IntTypes \cup ListTypes)
  <2>1. given(i + 1) = given(i)
    BY <1>1, <1>2, <1>4
  <2>2. CountUpTo(members, i + 1, id) = CountUpTo(members, i, id)
    BY <2>1 DEF CountUpTo
  <2> QED
    BY <1>4, <2>2 DEF CountAfter
<1> QED
  BY <1>3, <1>4

\* A message of no groups, and what the parser makes of it.
ReadAs(items, params) ==
    /\ IsSequence(items)
    /\ \A x \in DOMAIN items : Holds(items[x]) /\ items[x].type # MQCFT_GROUP
    /\ params = [x \in DOMAIN items |-> Leaf("parser", items[x])]

\* Its counters are what its items say last.
LEMMA MqiCounts ==
  ASSUME NEW members, NEW params, ReadAs(members, params), NEW id \in Summed
  PROVE  MqiStats(params).counts[id] = CountOf(members, id)
<1> DEFINE n == Len(members)
           V == {Empty} \cup {params[x].value : x \in 1 .. n}
           S == MqiStates(V)
<1>1. n \in Nat /\ DOMAIN members = 1 .. n
  BY DEF IsSequence, ReadAs
<1>2. IsSequence(params) /\ Len(params) = n /\ DOMAIN params = 1 .. n
  <2>1. params \in Seq({params[x] : x \in DOMAIN params}) /\ Len(params) = n
        /\ DOMAIN params = 1 .. n
    BY <1>1 DEF ReadAs
  <2> QED
    BY <2>1 DEF IsSequence
<1>3. \A x \in 1 .. n : /\ Holds(members[x]) /\ params[x] = Leaf("parser", members[x])
                        /\ members[x].type # MQCFT_GROUP
  BY <1>1 DEF ReadAs
<1>4. Empty \in V /\ \A x \in 1 .. n : params[x].value \in V
  OBVIOUS
<1> HIDE DEF V
<1>5. \A x \in 1 .. n : Countable(params[x], V)
  BY <1>3, <1>4, LeafCounts
<1>6. NoMqi \in S /\ NoMqi.counts[id] = 0
  BY <1>4, NoMqiState, CounterSets
<1>7. \A x \in 1 .. n : \A s \in S :
        /\ MqiAfter(s, params[x]) \in S
        /\ MqiAfter(s, params[x]).counts[id] = CountAfter(s.counts[id], params[x], id)
  <2>1. \A x \in 1 .. n : params[x].type # MQCFT_GROUP
    BY <1>3, LeafFields
  <2>2. \A x \in 1 .. n : \A s : MqiAfter(s, params[x]) = MqiAfterParam(s, params[x])
    BY <2>1 DEF MqiAfter
  <2>3. ASSUME NEW x \in 1 .. n, NEW s \in S
        PROVE  /\ MqiAfterParam(s, params[x]) \in S
               /\ MqiAfterParam(s, params[x]).counts[id] = CountAfter(s.counts[id], params[x], id)
    <3>1. Countable(params[x], V) /\ s \in MqiStates(V)
      BY <1>5
    <3> QED
      BY <3>1, MqiParam
  <2> HIDE DEF S, n
  <2> QED
    BY <2>2, <2>3
<1> HIDE DEF S, n
<1>8. PICK after : /\ after[0] = NoMqi
                   /\ \A i \in 1 .. n : after[i] = MqiAfter(after[i - 1], params[i])
                   /\ MqiStats(params) = after[n]
  BY <1>2, <1>6, <1>7, MqiSteps
<1> DEFINE A == {i \in 0 .. n :
                   after[i] \in S /\ after[i].counts[id] = CountUpTo(members, i, id)}
<1>9. 0 \in A
  <2>1. CountUpTo(members, 0, id) = 0
    <3>1. 1 .. 0 = {}
      OBVIOUS
    <3> QED
      BY <3>1 DEF CountUpTo
  <2> QED
    BY <1>1, <1>6, <1>8, <2>1
<1>10. ASSUME NEW i \in 0 .. n - 1, i \in A PROVE i + 1 \in A
  <2>1. i \in Nat /\ i + 1 \in 1 .. n /\ i + 1 \in 0 .. n /\ (i + 1) - 1 = i
    BY <1>1
  <2>2. after[i + 1] = MqiAfter(after[i], params[i + 1]) /\ after[i] \in S
    BY <1>8, <1>10, <2>1
  <2>3. after[i + 1] \in S
        /\ after[i + 1].counts[id] = CountAfter(after[i].counts[id], params[i + 1], id)
    BY <1>7, <2>1, <2>2
  <2>4. after[i].counts[id] = CountUpTo(members, i, id)
    BY <1>10
  <2>5. CountUpTo(members, i + 1, id) =
          CountAfter(CountUpTo(members, i, id), params[i + 1], id)
    BY <1>3, <2>1, CountUpToNext
  <2> QED
    BY <2>1, <2>3, <2>4, <2>5
<1>11. n \in A
  <2> HIDE DEF A
  <2>1. 0 .. n \subseteq A
    BY <1>1, <1>9, <1>10, CountingUp
  <2> QED
    BY <1>1, <2>1
<1>12. CountOf(members, id) = CountUpTo(members, n, id)
  BY <1>1 DEF CountOf, CountUpTo
<1> QED
  BY <1>8, <1>11, <1>12

\* Where no list gives a counter, its last integer is what the items say last.
LEMMA OperationCount ==
  ASSUME NEW members, NEW params, ReadAs(members, params), NEW id,
         \A x \in DOMAIN members : members[x].id = id => members[x].type \notin ListTypes
  PROVE  LastInt(params, id) = CountOf(members, id)
<1> DEFINE given == {x \in DOMAIN members : /\ members[x].id = id
                                            /\ members[x].type \in IntTypes \cup ListTypes}
<1>1. ASSUME NEW x \in DOMAIN members
      PROVE  /\ params[x].type = members[x].type /\ params[x].id = members[x].id
             /\ params[x].type \in IntTypes =>
                  params[x].value # None /\ params[x].value = Number(members[x])
  <2>1. Holds(members[x]) /\ params[x] = Leaf("parser", members[x])
    BY DEF ReadAs
  <2> QED
    BY <2>1, ParserValue, NoneAssumption
<1>2. DOMAIN params = DOMAIN members
  BY DEF ReadAs
<1>3. Given(params, IntTypes, {id}) = given
  BY <1>1, <1>2 DEF Given
<1>4. \A x \in given : params[x].value = Number(members[x])
  BY <1>1
<1>5. CountOf(members, id) = IF given = {} THEN 0 ELSE Number(members[Max(given)])
  BY DEF CountOf
<1>6. given # {} => Max(given) \in given
  <2>1. given \in SUBSET (0 .. Len(members)) /\ Len(members) \in Nat
    BY DEF IsSequence, ReadAs
  <2> HIDE DEF given
  <2> QED
    BY <2>1, MaxIn
<1> HIDE DEF given
<1>7. LastInt(params, id) = IF given = {} THEN 0 ELSE params[Max(given)].value
  BY <1>3 DEF LastInt, LastGiven
<1> QED
  BY <1>4, <1>5, <1>6, <1>7

\* The first part of a row.
LEMMA FirstPart ==
  ASSUME NEW s, IsSequence(s), NEW g \in 0 .. Len(s)
  PROVE  /\ IsSequence(SubSeq(s, 1, g)) /\ Len(SubSeq(s, 1, g)) = g
         /\ \A x \in 1 .. g : SubSeq(s, 1, g)[x] = s[x]
<1> DEFINE S == {s[i] : i \in DOMAIN s}
           t == SubSeq(s, 1, g)
<1>1. s \in Seq(S) /\ Len(s) \in Nat
  BY DEF IsSequence
<1>2. t \in Seq(S) /\ Len(t) = g
  BY <1>1
<1>3. \A x \in 1 .. g : t[x] = s[x]
  BY <1>1
<1>4. IsSequence(t)
  BY <1>2, OverItself
<1> QED
  BY <1>2, <1>3, <1>4

\* What is read of a message without groups are the items of it that came unharmed.
LEMMA UnharmedRead ==
  ASSUME AtEnd, input.reader = "parser", NEW i \in DOMAIN decoded, NEW m, m = input.msgs[i],
         Meant(m), ~HasGroups(m)
  PROVE  /\ ReadAs(Unharmed(m), decoded[i])
         /\ DOMAIN Unharmed(m) = 1 .. m.good
         /\ \A x \in 1 .. m.good : Unharmed(m)[x] = m.items[x]
<1> DEFINE items == Unharmed(m)
<1>1. LaidOut(m) /\ i \in DOMAIN input.msgs
  BY AllRead DEF Meant
<1>2. IsSequence(m.items) /\ m.good \in 0 .. Len(m.items)
  BY <1>1 DEF LaidOut
<1>3. DOMAIN m.items = 1 .. Len(m.items) /\ Len(m.items) \in Nat
  BY <1>2 DEF IsSequence
<1>4. /\ IsSequence(items) /\ Len(items) = m.good /\ DOMAIN items = 1 .. m.good
      /\ \A x \in 1 .. m.good : items[x] = m.items[x]
  <2>1. /\ IsSequence(items) /\ Len(items) = m.good
        /\ \A x \in 1 .. m.good : items[x] = m.items[x]
    BY <1>2, FirstPart DEF Unharmed
  <2> QED
    BY <2>1 DEF IsSequence
<1>5. ASSUME NEW x \in 1 .. m.good
      PROVE  m.items[x].type # MQCFT_GROUP /\ Holds(m.items[x])
  <2>1. x \in DOMAIN m.items
    BY <1>2, <1>3
  <2>2. m.items[x].type # MQCFT_GROUP
    BY <2>1 DEF HasGroups
  <2>3. Row(m)[Place(m, x)] = m.items[x]
    BY <1>1 DEF LaidOut
  <2>4. Place(m, x) \in 1 .. Len(Row(m))
    BY <1>1, Places
  <2>5. DOMAIN Row(m) = 1 .. Len(Row(m)) /\ \A r \in DOMAIN Row(m) : Holds(Row(m)[r])
    BY <1>1, RowHolds
  <2> QED
    BY <2>2, <2>3, <2>4, <2>5
<1>6. decoded[i] = Trees("parser", m.items, m.good)
  BY DEF AtEnd, ContentInv, DecodesWhatWasSent
<1>7. decoded[i] = [x \in 1 .. m.good |-> Leaf("parser", m.items[x])]
  BY <1>5, <1>6 DEF Trees, Tree
<1> HIDE DEF items
<1>8. decoded[i] = [x \in DOMAIN items |-> Leaf("parser", items[x])]
  BY <1>4, <1>7
<1>9. ReadAs(items, decoded[i])
  BY <1>4, <1>5, <1>8 DEF ReadAs
<1> QED
  BY <1>4, <1>9 DEF items

LEMMA CountersRead == ASSUME AtEnd PROVE CountersAsSaid
<1> SUFFICES ASSUME input.reader = "parser", NEW i \in DOMAIN decoded, NEW m, m = input.msgs[i],
                    NEW parsed, parsed = Parsed(m, decoded[i]), Meant(m), ~HasGroups(m),
                    NEW id \in Summed
             PROVE  /\ m.command = 164 => parsed.mqi.counts[id] = CountOf(Unharmed(m), id)
                    /\ m.command \in {167, 168}
                         /\ (\A x \in 1 .. m.good :
                               m.items[x].id = id => m.items[x].type \notin ListTypes)
                         => parsed.operations[id] = CountOf(Unharmed(m), id)
  BY DEF CountersAsSaid
<1>1. /\ ReadAs(Unharmed(m), decoded[i])
      /\ DOMAIN Unharmed(m) = 1 .. m.good
      /\ \A x \in 1 .. m.good : Unharmed(m)[x] = m.items[x]
  BY UnharmedRead
<1>2. ASSUME m.command = 164 PROVE parsed.mqi.counts[id] = CountOf(Unharmed(m), id)
  <2>1. parsed.mqi = MqiStats(decoded[i])
    BY <1>2 DEF Parsed
  <2> QED
    BY <1>1, <2>1, MqiCounts
<1>3. ASSUME m.command \in {167, 168},
             \A x \in 1 .. m.good : m.items[x].id = id => m.items[x].type \notin ListTypes
      PROVE  parsed.operations[id] = CountOf(Unharmed(m), id)
  <2>1. parsed.operations = OperationCounts(decoded[i])
    BY <1>3 DEF Parsed
  <2>2. parsed.operations[id] = LastInt(decoded[i], id)
    BY <2>1 DEF OperationCounts, Counts
  <2>3. \A x \in DOMAIN Unharmed(m) :
          Unharmed(m)[x].id = id => Unharmed(m)[x].type \notin ListTypes
    BY <1>1, <1>3
  <2> QED
    BY <1>1, <2>2, <2>3, OperationCount
<1> QED
  BY <1>2, <1>3

-----------------------------------------------------------------------------
(* The specification.                                                      *)

LEMMA AllInvariants == Spec => [](IInv /\ ContentInv /\ ResultInv)
<1>1. Init => IInv /\ ContentInv /\ ResultInv
  BY Initially, ContentInitially, ResultInitially
<1>2. IInv /\ ContentInv /\ ResultInv /\ [Next]_vars => (IInv /\ ContentInv /\ ResultInv)'
  <2>1. ContentInv => RowInv
    BY DEF ContentInv
  <2> QED
    BY <2>1, Step, ContentStep, ResultStep
<1> QED
  BY <1>1, <1>2, PTL DEF Spec

\* Whatever the replies, their number and what the earlier ones said: each that names
\* its object is one entry of the result, at its place, with what it alone says last.
THEOREM RepliesStandAlone == Spec => []EachReplyOnItsOwn
<1>1. ~Done => EachReplyOnItsOwn
  BY DEF EachReplyOnItsOwn
<1>2. IInv /\ ContentInv /\ ResultInv => EachReplyOnItsOwn
  BY <1>1, EachReplyStands DEF AtEnd
<1> QED
  BY <1>2, AllInvariants, PTL

\* Whatever groups a reply has, and what stands before and behind them: each that names
\* its queue is one handle, made of what stands up to the next header.
THEOREM HandlesStandAlone == Spec => []HandlesAreSeparate
<1>1. ~Done => HandlesAreSeparate
  BY DEF HandlesAreSeparate
<1>2. IInv /\ ContentInv /\ ResultInv => HandlesAreSeparate
  BY <1>1, HandlesSeparate DEF AtEnd
<1> QED
  BY <1>2, AllInvariants, PTL

\* Whatever the replies and the names to be hidden: discovery lists every other queue
\* that one of them names, alone or in a list, and lists it once.
THEOREM DiscoveryListsAll == Spec => []DiscoveryIsExact
<1>1. ~Done => DiscoveryIsExact
  BY DEF DiscoveryIsExact
<1>2. IInv /\ ContentInv /\ ResultInv => DiscoveryIsExact
  BY <1>1, DiscoveryExact DEF AtEnd
<1> QED
  BY <1>2, AllInvariants, PTL

\* Whatever the items of a message without groups, and wherever it was damaged: its
\* counters are those that its last unharmed items give.
THEOREM CountersShown == Spec => []CountersAsSaid
<1>1. ~Done => CountersAsSaid
  BY DEF CountersAsSaid
<1>2. IInv /\ ContentInv /\ ResultInv => CountersAsSaid
  BY <1>1, CountersRead DEF AtEnd
<1> QED
  BY <1>2, AllInvariants, PTL

-----------------------------------------------------------------------------
(* What the queue manager writes, and what a cut or a wrong length leave   *)
(* of it, is laid out well.                                                *)

\* The sums of the first numbers of a row.
LEMMA PrefixTotals ==
  ASSUME NEW ns \in Seq(Int)
  PROVE  \E sum \in [0 .. Len(ns) -> Int] :
           /\ sum[0] = 0
           /\ \A i \in 1 .. Len(ns) : sum[i] = sum[i - 1] + ns[i]
           /\ \A r \in 0 .. Len(ns) : \A ms \in Seq(Int) :
                Len(ms) = r /\ (\A i \in 1 .. r : ms[i] = ns[i]) => Total(ms) = sum[r]
<1> DEFINE n == Len(ns)
           Sums(ms, sum) == /\ sum[0] = 0
                            /\ \A i \in 1 .. Len(ms) : sum[i] = sum[i - 1] + ms[i]
                            /\ Total(ms) = sum[Len(ms)]
<1>1. ASSUME NEW ms \in Seq(Int) PROVE \E sum : Sums(ms, sum)
  <2>1. IsSequence(ms) /\ \A x \in DOMAIN ms : ms[x] \in Int
    BY DEF IsSequence
  <2>2. ASSUME NEW S, S = Int PROVE \E sum : Sums(ms, sum)
    <3>1. 0 \in S /\ \A x \in DOMAIN ms : \A s \in S : s + ms[x] \in S
      BY <2>1, <2>2
    <3> QED
      BY <2>1, <3>1, TotalSteps
  <2> QED
    BY <2>2
<1>2. PICK after : Sums(ns, after)
  BY <1>1
<1>3. n \in Nat /\ \A i \in 1 .. n : ns[i] \in Int
  OBVIOUS
<1>4. \A i \in 0 .. n : after[i] \in Int
  <2> DEFINE A == {i \in 0 .. n : after[i] \in Int}
  <2>1. 0 \in A
    BY <1>2, <1>3
  <2>2. ASSUME NEW i \in 0 .. n - 1, i \in A PROVE i + 1 \in A
    <3>1. i + 1 \in 1 .. n /\ i + 1 \in 0 .. n /\ (i + 1) - 1 = i /\ after[i] \in Int
      BY <1>3, <2>2
    <3>2. after[i + 1] = after[i] + ns[i + 1] /\ ns[i + 1] \in Int
      BY <1>2, <1>3, <3>1
    <3> QED
      BY <3>1, <3>2
  <2>3. 0 .. n \subseteq A
    <3> HIDE DEF A, n
    <3> QED
      BY <1>3, <2>1, <2>2, CountingUp
  <2> QED
    BY <2>3
<1> DEFINE sum == [i \in 0 .. n |-> after[i]]
<1>5. sum \in [0 .. n -> Int]
  BY <1>4
<1>6. sum[0] = 0 /\ \A i \in 1 .. n : sum[i] = sum[i - 1] + ns[i]
  <2>1. \A i \in 1 .. n : i \in 0 .. n /\ i - 1 \in 0 .. n
    BY <1>3
  <2> QED
    BY <1>2, <1>3, <2>1
<1>7. ASSUME NEW r \in 0 .. n, NEW ms \in Seq(Int), Len(ms) = r, \A i \in 1 .. r : ms[i] = ns[i]
      PROVE  Total(ms) = sum[r]
  <2>1. PICK f : Sums(ms, f)
    BY <1>1
  <2> DEFINE A == {i \in 0 .. r : f[i] = sum[i]}
  <2>2. 0 \in A
    BY <1>6, <2>1, <1>7
  <2>3. ASSUME NEW i \in 0 .. r - 1, i \in A PROVE i + 1 \in A
    <3>1. /\ i + 1 \in 1 .. r /\ i + 1 \in 1 .. n /\ i + 1 \in 0 .. r /\ (i + 1) - 1 = i
          /\ f[i] = sum[i]
      BY <1>3, <2>3
    <3>2. f[i + 1] = f[i] + ms[i + 1] /\ sum[i + 1] = sum[i] + ns[i + 1] /\ ms[i + 1] = ns[i + 1]
      BY <1>6, <1>7, <2>1, <3>1
    <3> QED
      BY <3>1, <3>2
  <2>4. 0 .. r \subseteq A
    <3>1. r \in Nat
      BY <1>3
    <3> HIDE DEF A, n
    <3> QED
      BY <2>2, <2>3, <3>1, CountingUp
  <2>5. r \in A
    <3>1. r \in 0 .. r
      BY <1>3
    <3> HIDE DEF A
    <3> QED
      BY <2>4, <3>1
  <2> QED
    BY <1>7, <2>1, <2>5
<1> HIDE DEF sum
<1> QED
  BY <1>5, <1>6, <1>7

\* The concatenations of the first sequences of a row.
LEMMA PrefixFlats ==
  ASSUME NEW s, IsSequence(s), \A i \in DOMAIN s : IsSequence(s[i])
  PROVE  \E flat : /\ flat[0] = <<>>
                   /\ \A i \in 1 .. Len(s) : flat[i] = flat[i - 1] \o s[i]
                   /\ \A i \in 0 .. Len(s) : IsSequence(flat[i])
                   /\ \A r \in 0 .. Len(s) : \A t :
                        IsSequence(t) /\ Len(t) = r /\ (\A i \in 1 .. r : t[i] = s[i]) =>
                          FlattenSeq(t) = flat[r]
<1> DEFINE n == Len(s)
           Flats(t, flat) == /\ flat[0] = <<>>
                             /\ \A i \in 1 .. Len(t) : flat[i] = flat[i - 1] \o t[i]
                             /\ \A i \in 0 .. Len(t) : IsSequence(flat[i])
                             /\ FlattenSeq(t) = flat[Len(t)]
<1>1. PICK flat : Flats(s, flat)
  BY FlattenSteps
<1>2. n \in Nat /\ DOMAIN s = 1 .. n
  BY DEF IsSequence
<1>3. ASSUME NEW r \in 0 .. n, NEW t, IsSequence(t), Len(t) = r, \A i \in 1 .. r : t[i] = s[i]
      PROVE  FlattenSeq(t) = flat[r]
  <2>1. \A i \in DOMAIN t : IsSequence(t[i])
    <3>1. DOMAIN t = 1 .. r /\ \A i \in 1 .. r : i \in 1 .. n
      BY <1>2, <1>3 DEF IsSequence
    <3> QED
      BY <1>2, <1>3, <3>1
  <2>2. PICK f : Flats(t, f)
    BY <1>3, <2>1, FlattenSteps
  <2> DEFINE A == {i \in 0 .. r : f[i] = flat[i]}
  <2>3. 0 \in A
    BY <1>1, <1>2, <2>2
  <2>4. ASSUME NEW i \in 0 .. r - 1, i \in A PROVE i + 1 \in A
    <3>1. /\ i + 1 \in 1 .. r /\ i + 1 \in 1 .. n /\ i + 1 \in 0 .. r /\ (i + 1) - 1 = i
          /\ f[i] = flat[i]
      BY <1>2, <2>4
    <3>2. f[i + 1] = f[i] \o t[i + 1] /\ flat[i + 1] = flat[i] \o s[i + 1] /\ t[i + 1] = s[i + 1]
      BY <1>1, <1>3, <2>2, <3>1
    <3> QED
      BY <3>1, <3>2
  <2>5. 0 .. r \subseteq A
    <3>1. r \in Nat
      BY <1>2
    <3> HIDE DEF A, n
    <3> QED
      BY <2>3, <2>4, <3>1, CountingUp
  <2>6. r \in A
    BY <1>2, <2>5
  <2> QED
    BY <1>3, <2>2, <2>6
<1> QED
  BY <1>1, <1>3

\* Where the sequences of a row begin when they stand one behind the other.
Adjoin(s, place) ==
    /\ place \in [1 .. Len(s) + 1 -> Nat] /\ place[1] = 1
    /\ \A i \in 1 .. Len(s) : Len(s[i]) \in Nat /\ place[i + 1] = place[i] + Len(s[i])

\* The places at which the parts of a sequence of sequences begin.
LEMMA PlacesExist ==
  ASSUME NEW s, IsSequence(s), \A i \in DOMAIN s : IsSequence(s[i])
  PROVE  \E place : Adjoin(s, place)
<1> DEFINE n == Len(s)
<1>1. n \in Nat /\ DOMAIN s = 1 .. n
  BY DEF IsSequence
<1>2. PICK flat : /\ flat[0] = <<>>
                  /\ \A i \in 1 .. n : flat[i] = flat[i - 1] \o s[i]
                  /\ \A i \in 0 .. n : IsSequence(flat[i])
  BY FlattenSteps
<1> DEFINE place == [i \in 1 .. n + 1 |-> Len(flat[i - 1]) + 1]
<1>3. \A i \in 1 .. n + 1 : i - 1 \in 0 .. n /\ Len(flat[i - 1]) \in Nat
  BY <1>1, <1>2 DEF IsSequence
<1>4. place \in [1 .. n + 1 -> Nat] /\ place[1] = 1
  <2>1. Len(flat[0]) = 0 /\ 1 \in 1 .. n + 1 /\ 1 - 1 = 0
    BY <1>1, <1>2
  <2> QED
    BY <1>3, <2>1
<1>5. ASSUME NEW i \in 1 .. n PROVE Len(s[i]) \in Nat /\ place[i + 1] = place[i] + Len(s[i])
  <2>1. IsSequence(flat[i - 1]) /\ IsSequence(s[i]) /\ flat[i] = flat[i - 1] \o s[i]
    <3>1. i - 1 \in 0 .. n /\ i \in DOMAIN s
      BY <1>1
    <3> QED
      BY <1>2, <3>1
  <2>2. Len(flat[i]) = Len(flat[i - 1]) + Len(s[i]) /\ Len(s[i]) \in Nat /\ Len(flat[i - 1]) \in Nat
    BY <2>1, Joined
  <2>3. i \in 1 .. n + 1 /\ i + 1 \in 1 .. n + 1 /\ (i + 1) - 1 = i
    BY <1>1
  <2>4. place[i] = Len(flat[i - 1]) + 1 /\ place[i + 1] = Len(flat[i]) + 1
    BY <2>3
  <2>5. ASSUME NEW a, a = Len(flat[i - 1]), NEW b, b = Len(flat[i]), NEW c, c = Len(s[i])
        PROVE  b + 1 = (a + 1) + c
    <3>1. a \in Nat /\ c \in Nat /\ b = a + c
      BY <2>2, <2>5
    <3> QED
      BY <3>1
  <2>6. Len(flat[i]) + 1 = (Len(flat[i - 1]) + 1) + Len(s[i])
    BY <2>5
  <2> HIDE DEF place
  <2> QED
    BY <2>2, <2>4, <2>6
<1> HIDE DEF place
<1>6. Adjoin(s, place)
  BY <1>4, <1>5 DEF Adjoin
<1> QED
  BY <1>6

\* They begin further on, the further on they are in the row.
LEMMA AdjoinClimbs ==
  ASSUME NEW s, IsSequence(s), NEW place, Adjoin(s, place)
  PROVE  \A i, j \in 1 .. Len(s) + 1 : i <= j => 1 <= place[i] /\ place[i] <= place[j]
<1>1. Len(s) \in Nat
  BY DEF IsSequence
<1>2. place[1] \in Nat /\ \A r \in 1 .. Len(s) : place[r] \in Nat =>
        place[r + 1] \in Nat /\ place[r] <= place[r + 1]
  BY DEF Adjoin
<1>3. \A i, j \in 1 .. Len(s) + 1 : i <= j => place[i] <= place[j]
  BY <1>1, <1>2, Climbs
<1>4. \A i \in 1 .. Len(s) + 1 : place[1] <= place[i] /\ place[1] = 1
  BY <1>1, <1>3 DEF Adjoin
<1> QED
  BY <1>3, <1>4

\* Each place belongs to one of them.
LEMMA PlaceOf ==
  ASSUME NEW n \in Nat, NEW place \in [1 .. n + 1 -> Nat], place[1] = 1,
         NEW r \in 1 .. place[n + 1] - 1
  PROVE  \E i \in 1 .. n : place[i] <= r /\ r < place[i + 1]
<1> DEFINE A == {i \in 1 .. n + 1 : r < place[i]}
<1>1. n + 1 \in 1 .. n + 1 /\ r \in Nat /\ r >= 1 /\ \A i \in 1 .. n + 1 : place[i] \in Nat
  OBVIOUS
<1>2. A # {} /\ A \in SUBSET Nat
  BY <1>1
<1>3. PICK x \in A : \A y \in A : ~(y < x)
  <2> HIDE DEF A
  <2> QED
    BY <1>2, LeastOf
<1>4. x # 1 /\ x - 1 \in 1 .. n /\ x - 1 \in 1 .. n + 1 /\ (x - 1) + 1 = x /\ x - 1 < x
  BY <1>1, <1>3
<1>5. x - 1 \notin A
  BY <1>3, <1>4
<1>6. place[x - 1] <= r
  BY <1>1, <1>4, <1>5
<1> QED
  BY <1>3, <1>4, <1>6

\* That c has what stands in a and then what stands in b.
Joins(a, b, c) ==
    /\ Len(c) = Len(a) + Len(b)
    /\ \A x \in 1 .. Len(a) : c[x] = a[x]
    /\ \A j \in 1 .. Len(b) : c[Len(a) + j] = b[j]

\* Two sequences joined are those two, one behind the other.
LEMMA JoinedIs ==
  ASSUME NEW a, NEW b, IsSequence(a), IsSequence(b), NEW c, c = a \o b
  PROVE  Joins(a, b, c)
<1>1. Len(a \o b) = Len(a) + Len(b)
  BY Joined
<1>2. \A x \in 1 .. Len(a) : (a \o b)[x] = a[x]
  BY Joined
<1>3. \A j \in 1 .. Len(b) : (a \o b)[Len(a) + j] = b[j]
  BY Joined
<1>4. Joins(a, b, a \o b)
  BY <1>1, <1>2, <1>3 DEF Joins
<1> QED
  BY <1>4

\* What stands where when they are flattened, also of the first of them alone.
Flattened(s, n, place) ==
    /\ IsSequence(FlattenSeq(s)) /\ Len(FlattenSeq(s)) = place[n + 1] - 1
    /\ \A i \in 1 .. n : \A j \in 1 .. Len(s[i]) : FlattenSeq(s)[place[i] + j - 1] = s[i][j]
    /\ \A g \in 0 .. n : \A t :
         IsSequence(t) /\ Len(t) = g /\ (\A i \in 1 .. g : t[i] = s[i]) =>
           /\ IsSequence(FlattenSeq(t)) /\ Len(FlattenSeq(t)) = place[g + 1] - 1
           /\ \A x \in 1 .. place[g + 1] - 1 : FlattenSeq(t)[x] = FlattenSeq(s)[x]

\* What a sequence of sequences holds, flattened, at each of those places.
LEMMA FlatPlaces ==
  ASSUME NEW s, IsSequence(s), \A i \in DOMAIN s : IsSequence(s[i]), NEW place, Adjoin(s, place)
  PROVE  Flattened(s, Len(s), place)
<1> DEFINE n == Len(s)
<1>1. n \in Nat /\ DOMAIN s = 1 .. n
  BY DEF IsSequence
<1>2. PICK flat : /\ flat[0] = <<>>
                  /\ \A i \in 1 .. n : flat[i] = flat[i - 1] \o s[i]
                  /\ \A i \in 0 .. n : IsSequence(flat[i])
                  /\ \A r \in 0 .. n : \A t :
                       IsSequence(t) /\ Len(t) = r /\ (\A i \in 1 .. r : t[i] = s[i]) =>
                         FlattenSeq(t) = flat[r]
  BY PrefixFlats
<1>3. ASSUME NEW i \in 1 .. n
      PROVE  /\ Len(flat[i]) = Len(flat[i - 1]) + Len(s[i])
             /\ \A x \in 1 .. Len(flat[i - 1]) : flat[i][x] = flat[i - 1][x]
             /\ \A j \in 1 .. Len(s[i]) : flat[i][Len(flat[i - 1]) + j] = s[i][j]
  <2>1. IsSequence(flat[i - 1]) /\ IsSequence(s[i]) /\ flat[i] = flat[i - 1] \o s[i]
    <3>1. i - 1 \in 0 .. n /\ i \in DOMAIN s
      BY <1>1
    <3> QED
      BY <1>2, <3>1
  <2>2. Joins(flat[i - 1], s[i], flat[i])
    BY <2>1, JoinedIs
  <2> QED
    BY <2>2 DEF Joins
<1>4. /\ \A i \in 1 .. n + 1 : place[i] \in Nat
      /\ \A i \in 1 .. n : Len(s[i]) \in Nat /\ place[i + 1] = place[i] + Len(s[i])
      /\ place[1] = 1
  BY DEF Adjoin
<1>5. \A i \in 0 .. n : Len(flat[i]) = place[i + 1] - 1
  <2> DEFINE A == {i \in 0 .. n : Len(flat[i]) = place[i + 1] - 1}
  <2>1. 0 \in A
    BY <1>1, <1>2, <1>4
  <2>2. ASSUME NEW i \in 0 .. n - 1, i \in A PROVE i + 1 \in A
    <3>1. i + 1 \in 1 .. n /\ i + 1 \in 0 .. n /\ (i + 1) - 1 = i /\ i + 1 \in 1 .. n + 1
      BY <1>1
    <3>2. Len(flat[i + 1]) = Len(flat[i]) + Len(s[i + 1]) /\ Len(s[i + 1]) \in Nat
      BY <1>3, <1>4, <3>1
    <3>3. place[(i + 1) + 1] = place[i + 1] + Len(s[i + 1]) /\ place[i + 1] \in Nat
      BY <1>4, <3>1
    <3>4. Len(flat[i]) = place[i + 1] - 1
      BY <2>2
    <3>5. ASSUME NEW a, a = Len(flat[i]), NEW b, b = Len(flat[i + 1]), NEW c, c = Len(s[i + 1]),
                 NEW p, p = place[i + 1], NEW q, q = place[(i + 1) + 1]
          PROVE  b = q - 1
      <4>1. b = a + c /\ c \in Nat /\ q = p + c /\ p \in Nat /\ a = p - 1
        BY <3>2, <3>3, <3>4, <3>5
      <4> QED
        BY <4>1
    <3> QED
      BY <3>1, <3>5
  <2>3. 0 .. n \subseteq A
    <3> HIDE DEF A, n
    <3> QED
      BY <1>1, <2>1, <2>2, CountingUp
  <2> QED
    BY <2>3
<1>6. ASSUME NEW g \in 0 .. n
      PROVE  \A i \in g .. n : \A x \in 1 .. Len(flat[g]) : flat[i][x] = flat[g][x]
  <2> DEFINE A == {d \in 0 .. n - g : \A x \in 1 .. Len(flat[g]) : flat[g + d][x] = flat[g][x]}
  <2>1. 0 \in A /\ n - g \in Nat
    BY <1>1
  <2>2. ASSUME NEW d \in 0 .. (n - g) - 1, d \in A PROVE d + 1 \in A
    <3>1. /\ g + d \in 0 .. n /\ g + (d + 1) \in 1 .. n /\ (g + (d + 1)) - 1 = g + d
          /\ d + 1 \in 0 .. n - g /\ g <= g + d
      BY <1>1
    <3>2. Len(flat[g]) \in Nat /\ Len(flat[g + d]) \in Nat /\ Len(flat[g]) <= Len(flat[g + d])
      <4>1. place[g + 1] <= place[(g + d) + 1]
        <5>1. g + 1 \in 1 .. Len(s) + 1 /\ (g + d) + 1 \in 1 .. Len(s) + 1 /\ g + 1 <= (g + d) + 1
          BY <1>1, <3>1
        <5> QED
          BY <5>1, AdjoinClimbs
      <4>2. Len(flat[g]) = place[g + 1] - 1 /\ Len(flat[g + d]) = place[(g + d) + 1] - 1
        BY <1>5, <3>1
      <4>3. place[g + 1] \in Nat /\ place[(g + d) + 1] \in Nat
        BY <1>1, <1>4, <3>1
      <4>4. Len(flat[g]) \in Nat /\ Len(flat[g + d]) \in Nat
        BY <1>2, <3>1 DEF IsSequence
      <4> QED
        BY <4>1, <4>2, <4>3, <4>4
    <3>3. \A x \in 1 .. Len(flat[g + d]) : flat[g + (d + 1)][x] = flat[g + d][x]
      <4>1. g + (d + 1) \in 1 .. n /\ (g + (d + 1)) - 1 = g + d
        BY <3>1
      <4>2. \A x \in 1 .. Len(flat[(g + (d + 1)) - 1]) :
              flat[g + (d + 1)][x] = flat[(g + (d + 1)) - 1][x]
        BY <1>3, <4>1
      <4> QED
        BY <4>1, <4>2
    <3>4. \A x \in 1 .. Len(flat[g]) : x \in 1 .. Len(flat[g + d]) /\ flat[g + d][x] = flat[g][x]
      BY <2>2, <3>2
    <3> QED
      BY <3>1, <3>3, <3>4
  <2>3. 0 .. n - g \subseteq A
    <3> HIDE DEF A, n
    <3> QED
      BY <2>1, <2>2, CountingUp
  <2>4. \A i \in g .. n : i - g \in 0 .. n - g /\ g + (i - g) = i
    BY <1>1
  <2>5. \A d \in 0 .. n - g : \A x \in 1 .. Len(flat[g]) : flat[g + d][x] = flat[g][x]
    BY <2>3
  <2> HIDE DEF A, n
  <2> QED
    BY <2>4, <2>5
<1>7. FlattenSeq(s) = flat[n] /\ n \in 0 .. n
  BY <1>1, <1>2
<1>8. IsSequence(FlattenSeq(s)) /\ Len(FlattenSeq(s)) = place[n + 1] - 1
  BY <1>2, <1>5, <1>7
<1>9. ASSUME NEW i \in 1 .. n, NEW j \in 1 .. Len(s[i])
      PROVE  FlattenSeq(s)[place[i] + j - 1] = s[i][j]
  <2>1. i \in 0 .. n /\ i - 1 \in 0 .. n /\ (i - 1) + 1 = i /\ n \in i .. n
    BY <1>1
  <2>2. /\ Len(flat[i - 1]) = place[i] - 1 /\ Len(flat[i]) = place[i + 1] - 1
        /\ place[i] \in Nat /\ place[i + 1] = place[i] + Len(s[i]) /\ Len(s[i]) \in Nat
    BY <1>1, <1>4, <1>5, <2>1
  <2>3. flat[i][Len(flat[i - 1]) + j] = s[i][j] /\ Len(flat[i]) = Len(flat[i - 1]) + Len(s[i])
    BY <1>3
  <2>4. Len(flat[i - 1]) \in Nat
    BY <1>2, <2>1 DEF IsSequence
  <2>5. Len(flat[i - 1]) + j = place[i] + j - 1 /\ Len(flat[i - 1]) + j \in 1 .. Len(flat[i])
    <3>1. ASSUME NEW l, NEW p, NEW a, NEW b, l \in Nat, p \in Nat, a \in Nat, l = p - 1, b = l + a,
                 j \in 1 .. a
          PROVE  l + j = p + j - 1 /\ l + j \in 1 .. b
      BY <3>1
    <3> QED
      BY <2>2, <2>3, <2>4, <3>1
  <2>6. flat[n][Len(flat[i - 1]) + j] = flat[i][Len(flat[i - 1]) + j]
    BY <1>6, <2>1, <2>5
  <2> QED
    BY <1>7, <2>3, <2>5, <2>6
<1>10. ASSUME NEW g \in 0 .. n, NEW t, IsSequence(t), Len(t) = g, \A i \in 1 .. g : t[i] = s[i]
       PROVE  /\ IsSequence(FlattenSeq(t)) /\ Len(FlattenSeq(t)) = place[g + 1] - 1
              /\ \A x \in 1 .. place[g + 1] - 1 : FlattenSeq(t)[x] = FlattenSeq(s)[x]
  <2>1. FlattenSeq(t) = flat[g]
    BY <1>2, <1>10
  <2>2. n \in g .. n
    BY <1>1
  <2> QED
    BY <1>2, <1>5, <1>6, <1>7, <2>1, <2>2
<1> QED
  BY <1>8, <1>9, <1>10 DEF Flattened

-----------------------------------------------------------------------------
(* Rows of items and where their structures begin.                         *)

\* What an item holds has a size.
Writable(item) ==
    /\ item.type = MQCFT_STRING => Size(item.value) \in Nat
    /\ item.type \in ListTypes \cup {MQCFT_STRING_LIST} => IsSequence(item.value)

\* Each structure has 16 bytes or more.
LEMMA WritableBytes ==
  ASSUME NEW item, Writable(item)
  PROVE  Bytes(item) \in Nat /\ Bytes(item) >= 16
<1>1. CASE item.type = MQCFT_STRING
  <2>1. Bytes(item) = 20 + 4 * ((Size(item.value) + 3) \div 4)
    BY <1>1, BytesOfType
  <2>2. (Size(item.value) + 3) \div 4 \in Nat
    BY <1>1 DEF Writable
  <2> QED
    BY <2>1, <2>2
<1>2. ASSUME item.type \in ListTypes \cup {MQCFT_STRING_LIST}
      PROVE  /\ Len(item.value) \in Nat
             /\ \/ Bytes(item) = 16 + 4 * Len(item.value)
                \/ Bytes(item) = 16 + 8 * Len(item.value)
                \/ Bytes(item) = 24 + NameWidth * Len(item.value)
  <2>1. Len(item.value) \in Nat
    BY <1>2 DEF Writable, IsSequence
  <2> QED
    BY <1>2, <2>1 DEF Bytes, ListTypes, MQCFT_INTEGER, MQCFT_INTEGER64, MQCFT_STRING,
      MQCFT_INTEGER_LIST, MQCFT_INTEGER64_LIST, MQCFT_STRING_LIST
<1>3. CASE item.type \in ListTypes \cup {MQCFT_STRING_LIST}
  BY <1>2, <1>3 DEF NameWidth
<1>4. CASE item.type \notin ListTypes \cup {MQCFT_STRING_LIST, MQCFT_STRING}
  <2>1. Bytes(item) \in {16, 24}
    BY <1>4 DEF Bytes, ListTypes, MQCFT_INTEGER, MQCFT_INTEGER64, MQCFT_STRING,
      MQCFT_INTEGER_LIST, MQCFT_INTEGER64_LIST, MQCFT_STRING_LIST
  <2> QED
    BY <2>1
<1> QED
  BY <1>1, <1>3, <1>4

\* Where the structures of a row begin in a message.
Starting(row, start) ==
    /\ start \in [1 .. Len(row) + 1 -> Nat] /\ start[1] = HeaderSize
    /\ \A r \in 1 .. Len(row) : /\ Bytes(row[r]) \in Nat /\ Bytes(row[r]) >= 16
                                /\ start[r + 1] = start[r] + Bytes(row[r])
    /\ \A g \in 0 .. Len(row) : \A t :
         IsSequence(t) /\ Len(t) = g /\ (\A r \in 1 .. g : t[r] = row[r]) =>
           HeaderSize + BytesOf(t) = start[g + 1]

\* The offsets at which the structures of a row begin.
LEMMA StartsExist ==
  ASSUME NEW row, IsSequence(row), \A r \in DOMAIN row : Writable(row[r])
  PROVE  \E start : Starting(row, start)
<1> DEFINE n == Len(row)
           bytes == [r \in DOMAIN row |-> Bytes(row[r])]
<1>1. n \in Nat /\ DOMAIN row = 1 .. n
  BY DEF IsSequence
<1>2. \A r \in 1 .. n : Bytes(row[r]) \in Nat /\ Bytes(row[r]) >= 16
  BY <1>1, WritableBytes
<1>3. bytes \in Seq(Int) /\ Len(bytes) = n /\ \A r \in 1 .. n : bytes[r] = Bytes(row[r])
  BY <1>1, <1>2
<1> HIDE DEF bytes
<1>4. PICK sum \in [0 .. n -> Int] :
        /\ sum[0] = 0
        /\ \A i \in 1 .. n : sum[i] = sum[i - 1] + bytes[i]
        /\ \A r \in 0 .. n : \A ms \in Seq(Int) :
             Len(ms) = r /\ (\A i \in 1 .. r : ms[i] = bytes[i]) => Total(ms) = sum[r]
  BY <1>3, PrefixTotals
<1> DEFINE start == [r \in 1 .. n + 1 |-> HeaderSize + sum[r - 1]]
<1>5. \A r \in 1 .. n : start[r + 1] = start[r] + Bytes(row[r])
  <2>1. ASSUME NEW r \in 1 .. n PROVE start[r + 1] = start[r] + Bytes(row[r])
    <3>1. /\ r \in 1 .. n + 1 /\ r + 1 \in 1 .. n + 1 /\ (r + 1) - 1 = r
          /\ r - 1 \in 0 .. n /\ r \in 0 .. n
      BY <1>1
    <3>2. sum[r] = sum[r - 1] + Bytes(row[r]) /\ sum[r] \in Int /\ sum[r - 1] \in Int
      BY <1>3, <1>4, <3>1
    <3>3. start[r] = HeaderSize + sum[r - 1] /\ start[r + 1] = HeaderSize + sum[r]
      BY <3>1
    <3> HIDE DEF start
    <3> QED
      BY <1>2, <3>2, <3>3 DEF HeaderSize
  <2> QED
    BY <2>1
<1>6. start[1] = HeaderSize
  BY <1>1, <1>4 DEF HeaderSize
<1>7. start \in [1 .. n + 1 -> Nat]
  <2>1. start[1] \in Nat
    BY <1>6 DEF HeaderSize
  <2>2. \A r \in 1 .. n : start[r] \in Nat => start[r + 1] \in Nat /\ start[r] <= start[r + 1]
    <3> HIDE DEF start
    <3> QED
      BY <1>2, <1>5
  <2>3. \A r \in 1 .. n + 1 : start[r] \in Nat
    <3> HIDE DEF start, n
    <3> QED
      BY <1>1, <2>1, <2>2, Climbs
  <2> QED
    BY <2>3
<1>8. ASSUME NEW g \in 0 .. n, NEW t, IsSequence(t), Len(t) = g, \A r \in 1 .. g : t[r] = row[r]
      PROVE  HeaderSize + BytesOf(t) = start[g + 1]
  <2> DEFINE ms == [i \in DOMAIN t |-> Bytes(t[i])]
  <2>1. DOMAIN t = 1 .. g /\ g \in Nat /\ \A r \in 1 .. g : r \in 1 .. n
    BY <1>1, <1>8 DEF IsSequence
  <2>2. \A i \in 1 .. g : ms[i] = Bytes(row[i]) /\ ms[i] = bytes[i] /\ ms[i] \in Int
    BY <1>2, <1>3, <1>8, <2>1
  <2>3. ms \in Seq(Int) /\ Len(ms) = g
    <3>1. ms \in [1 .. g -> Int]
      BY <2>1, <2>2
    <3> HIDE DEF ms
    <3> QED
      BY <2>1, <3>1
  <2>4. BytesOf(t) = Total(ms)
    BY DEF BytesOf
  <2>5. Total(ms) = sum[g]
    <3> HIDE DEF ms, n
    <3> QED
      BY <1>4, <2>2, <2>3
  <2>6. g + 1 \in 1 .. n + 1 /\ (g + 1) - 1 = g
    BY <1>1
  <2>7. start[g + 1] = HeaderSize + sum[g]
    BY <2>6
  <2> QED
    BY <2>4, <2>5, <2>7
<1>9. Starting(row, start)
  <2> HIDE DEF start
  <2> QED
    BY <1>2, <1>5, <1>6, <1>7, <1>8 DEF Starting
<1> QED
  BY <1>9

\* Items as a message may have them: a value has a size, and only groups have members,
\* which are no groups.
Sayable(items) ==
    /\ IsSequence(items)
    /\ \A i \in DOMAIN items :
         LET members == items[i].members IN
         /\ Writable(items[i]) /\ IsSequence(members)
         /\ items[i].type # MQCFT_GROUP => members = <<>>
         /\ \A j \in DOMAIN members : Writable(members[j]) /\ members[j].type # MQCFT_GROUP

\* The place of each item in the row of the items with their members.
Placed(items, place) ==
    /\ place \in [1 .. Len(items) + 1 -> Nat] /\ place[1] = 1
    /\ \A i \in 1 .. Len(items) : place[i + 1] = place[i] + 1 + Len(items[i].members)

\* What stands there, also of the first items alone.
Rowed(items, place) ==
    LET row == Flat(items) IN
    /\ IsSequence(row) /\ Len(row) = place[Len(items) + 1] - 1
    /\ \A i \in 1 .. Len(items) :
         /\ row[place[i]] = items[i]
         /\ \A j \in 1 .. Len(items[i].members) : row[place[i] + j] = items[i].members[j]
    /\ \A g \in 0 .. Len(items) :
         LET first == Flat(SubSeq(items, 1, g)) IN
         /\ IsSequence(first) /\ Len(first) = place[g + 1] - 1
         /\ \A x \in 1 .. place[g + 1] - 1 : first[x] = row[x]

\* One and what comes with it.
OneAnd(e, t, c) ==
    /\ IsSequence(c) /\ Len(t) \in Nat /\ Len(c) = 1 + Len(t)
    /\ c[1] = e /\ \A j \in 1 .. Len(t) : c[1 + j] = t[j]

\* An item in front of its members.
LEMMA WithOthers ==
  ASSUME NEW e, NEW t, IsSequence(t), NEW c, c = <<e>> \o t
  PROVE  OneAnd(e, t, c)
<1>1. IsSequence(<<e>>) /\ Len(<<e>>) = 1 /\ <<e>>[1] = e
  BY OfOne
<1>2. IsSequence(<<e>> \o t) /\ Len(t) \in Nat
  BY <1>1, Joined
<1>3. Joins(<<e>>, t, c)
  BY <1>1, JoinedIs
<1> QED
  BY <1>1, <1>2, <1>3 DEF Joins, OneAnd

\* The places of the items in their row.
LEMMA RowsExist ==
  ASSUME NEW items, Sayable(items)
  PROVE  \E place : Placed(items, place) /\ Rowed(items, place)
<1> DEFINE n == Len(items)
           s == [i \in DOMAIN items |-> <<items[i]>> \o items[i].members]
<1>1. /\ IsSequence(items) /\ n \in Nat /\ DOMAIN items = 1 .. n
      /\ \A i \in 1 .. n : IsSequence(items[i].members)
  <2>1. IsSequence(items) /\ \A i \in DOMAIN items : IsSequence(items[i].members)
    BY DEF Sayable
  <2>2. n \in Nat /\ DOMAIN items = 1 .. n
    BY <2>1 DEF IsSequence
  <2> QED
    BY <2>1, <2>2
<1>2. IsSequence(s) /\ Len(s) = n /\ DOMAIN s = 1 .. n
  <2>1. s \in Seq({s[i] : i \in DOMAIN s}) /\ Len(s) = n
    BY <1>1
  <2> QED
    BY <1>1, <2>1 DEF IsSequence
<1>3. ASSUME NEW i \in 1 .. n
      PROVE  /\ IsSequence(s[i]) /\ Len(items[i].members) \in Nat
             /\ Len(s[i]) = 1 + Len(items[i].members) /\ s[i][1] = items[i]
             /\ \A j \in 1 .. Len(items[i].members) : s[i][1 + j] = items[i].members[j]
  <2>1. s[i] = <<items[i]>> \o items[i].members
    BY <1>1
  <2> HIDE DEF s, n
  <2>2. OneAnd(items[i], items[i].members, s[i])
    BY <1>1, <2>1, WithOthers
  <2> QED
    BY <2>2 DEF OneAnd
<1>4. PICK place : Adjoin(s, place)
  BY <1>2, <1>3, PlacesExist
<1>5. Flat(items) = FlattenSeq(s)
  BY DEF Flat
<1> HIDE DEF s
<1>6. Placed(items, place)
  <2>1. \A i \in 1 .. n : place[i + 1] = place[i] + 1 + Len(items[i].members)
    <3>1. ASSUME NEW i \in 1 .. n PROVE place[i + 1] = place[i] + 1 + Len(items[i].members)
      <4>1. place[i + 1] = place[i] + Len(s[i]) /\ place[i] \in Nat
        BY <1>1, <1>2, <1>4 DEF Adjoin
      <4>2. Len(s[i]) = 1 + Len(items[i].members) /\ Len(items[i].members) \in Nat
        BY <1>3
      <4> HIDE DEF n
      <4> QED
        BY <4>1, <4>2
    <3> QED
      BY <3>1
  <2> QED
    BY <1>2, <1>4, <2>1 DEF Adjoin, Placed
<1>7. /\ IsSequence(FlattenSeq(s)) /\ Len(FlattenSeq(s)) = place[n + 1] - 1
      /\ \A i \in 1 .. n : \A j \in 1 .. Len(s[i]) : FlattenSeq(s)[place[i] + j - 1] = s[i][j]
      /\ \A g \in 0 .. n : \A t :
           IsSequence(t) /\ Len(t) = g /\ (\A i \in 1 .. g : t[i] = s[i]) =>
             /\ IsSequence(FlattenSeq(t)) /\ Len(FlattenSeq(t)) = place[g + 1] - 1
             /\ \A x \in 1 .. place[g + 1] - 1 : FlattenSeq(t)[x] = FlattenSeq(s)[x]
  <2>1. Flattened(s, n, place)
    <3>1. Flattened(s, Len(s), place)
      BY <1>2, <1>3, <1>4, FlatPlaces
    <3> QED
      BY <1>2, <3>1
  <2> HIDE DEF n
  <2> QED
    BY <2>1 DEF Flattened
<1>8. ASSUME NEW i \in 1 .. n
      PROVE  /\ Flat(items)[place[i]] = items[i]
             /\ \A j \in 1 .. Len(items[i].members) :
                  Flat(items)[place[i] + j] = items[i].members[j]
  <2>1. place[i] \in Nat
    BY <1>1, <1>2, <1>4 DEF Adjoin
  <2>2. 1 \in 1 .. Len(s[i]) /\ place[i] + 1 - 1 = place[i]
    BY <1>3, <2>1
  <2>3. Flat(items)[place[i]] = items[i]
    BY <1>3, <1>5, <1>7, <2>2
  <2>4. ASSUME NEW j \in 1 .. Len(items[i].members)
        PROVE  Flat(items)[place[i] + j] = items[i].members[j]
    <3>1. 1 + j \in 1 .. Len(s[i]) /\ place[i] + (1 + j) - 1 = place[i] + j
      BY <1>3, <2>1
    <3>2. FlattenSeq(s)[place[i] + (1 + j) - 1] = s[i][1 + j]
      BY <1>7, <3>1
    <3> QED
      BY <1>3, <1>5, <3>1, <3>2
  <2> QED
    BY <2>3, <2>4
<1>9. ASSUME NEW g \in 0 .. n, NEW first, first = Flat(SubSeq(items, 1, g))
      PROVE  /\ IsSequence(first) /\ Len(first) = place[g + 1] - 1
             /\ \A x \in 1 .. place[g + 1] - 1 : first[x] = Flat(items)[x]
  <2> DEFINE part == SubSeq(items, 1, g)
             t == [i \in DOMAIN part |-> <<part[i]>> \o part[i].members]
  <2>1. IsSequence(part) /\ Len(part) = g /\ \A x \in 1 .. g : part[x] = items[x]
    BY <1>1, FirstPart
  <2> HIDE DEF part
  <2>2. DOMAIN part = 1 .. g /\ g \in Nat /\ \A x \in 1 .. g : x \in 1 .. n
    BY <1>1, <2>1 DEF IsSequence
  <2>3. \A i \in 1 .. g : t[i] = s[i]
    BY <1>1, <2>1, <2>2 DEF s
  <2>4. IsSequence(t) /\ Len(t) = g
    <3>1. t \in Seq({t[i] : i \in DOMAIN t}) /\ Len(t) = g
      BY <2>2
    <3> QED
      BY <3>1 DEF IsSequence
  <2>5. first = FlattenSeq(t)
    BY <1>9 DEF Flat, part
  <2> HIDE DEF t, n
  <2> QED
    BY <1>5, <1>7, <2>3, <2>4, <2>5
<1>10. Rowed(items, place)
  BY <1>5, <1>7, <1>8, <1>9 DEF Rowed
<1> QED
  BY <1>6, <1>10

\* The structures of the items: each group before its members.
Structured(items, layout, place, rows) ==
    /\ IsSequence(rows) /\ Len(rows) = place[Len(items) + 1] - 1
    /\ \A i \in 1 .. Len(items) :
         LET nested == IF layout = "nested" THEN BytesOf(items[i].members) ELSE 0 IN
         /\ rows[place[i]] = [Own(items[i]) EXCEPT !.length = Bytes(items[i]) + nested]
         /\ \A j \in 1 .. Len(items[i].members) : rows[place[i] + j] = Own(items[i].members[j])

\* The structures that are written stand at the places of their items.
LEMMA StructuresPlaced ==
  ASSUME NEW items, Sayable(items), NEW layout, NEW place, Placed(items, place),
         NEW rows, rows = FlattenSeq([i \in DOMAIN items |-> Structures(items[i], layout)])
  PROVE  Structured(items, layout, place, rows)
<1> DEFINE n == Len(items)
           nested(i) == IF layout = "nested" THEN BytesOf(items[i].members) ELSE 0
           head(i) == [Own(items[i]) EXCEPT !.length = Bytes(items[i]) + nested(i)]
           tail(i) == [j \in DOMAIN items[i].members |-> Own(items[i].members[j])]
           s == [i \in DOMAIN items |-> Structures(items[i], layout)]
<1>1. /\ IsSequence(items) /\ n \in Nat /\ DOMAIN items = 1 .. n
      /\ \A i \in 1 .. n : IsSequence(items[i].members)
  <2>1. IsSequence(items) /\ \A i \in DOMAIN items : IsSequence(items[i].members)
    BY DEF Sayable
  <2>2. n \in Nat /\ DOMAIN items = 1 .. n
    BY <2>1 DEF IsSequence
  <2> QED
    BY <2>1, <2>2
<1>2. IsSequence(s) /\ Len(s) = n /\ DOMAIN s = 1 .. n
  <2>1. s \in Seq({s[i] : i \in DOMAIN s}) /\ Len(s) = n
    BY <1>1
  <2> QED
    BY <1>1, <2>1 DEF IsSequence
<1>3. ASSUME NEW i \in 1 .. n
      PROVE  /\ IsSequence(s[i]) /\ Len(items[i].members) \in Nat
             /\ Len(s[i]) = 1 + Len(items[i].members) /\ s[i][1] = head(i)
             /\ \A j \in 1 .. Len(items[i].members) : s[i][1 + j] = Own(items[i].members[j])
  <2>1. s[i] = <<head(i)>> \o tail(i)
    <3>1. Own(items[i]).length = Bytes(items[i])
      BY DEF Own, Structure
    <3>2. head(i) = [Own(items[i]) EXCEPT !.length = @ + nested(i)]
      BY <3>1
    <3>3. s[i] = Structures(items[i], layout)
      BY <1>1
    <3> HIDE DEF s, head
    <3> QED
      BY <3>2, <3>3 DEF Structures
  <2>2. /\ IsSequence(tail(i)) /\ Len(tail(i)) = Len(items[i].members)
        /\ \A j \in 1 .. Len(items[i].members) : tail(i)[j] = Own(items[i].members[j])
    <3>1. DOMAIN items[i].members = 1 .. Len(items[i].members) /\ Len(items[i].members) \in Nat
      BY <1>1 DEF IsSequence
    <3>2. tail(i) \in Seq({tail(i)[j] : j \in DOMAIN tail(i)}) /\ Len(tail(i)) = Len(items[i].members)
      BY <3>1
    <3> QED
      BY <3>1, <3>2 DEF IsSequence
  <2> HIDE DEF s, head, tail
  <2> HIDE DEF n
  <2>3. OneAnd(head(i), tail(i), s[i])
    BY <2>1, <2>2, WithOthers
  <2> QED
    BY <2>2, <2>3 DEF OneAnd
<1>4. Adjoin(s, place)
  <2>1. \A i \in 1 .. n : Len(s[i]) \in Nat /\ place[i + 1] = place[i] + Len(s[i])
    <3>1. ASSUME NEW i \in 1 .. n
          PROVE  Len(s[i]) \in Nat /\ place[i + 1] = place[i] + Len(s[i])
      <4>1. place[i + 1] = place[i] + 1 + Len(items[i].members) /\ place[i] \in Nat
        BY <1>1 DEF Placed
      <4>2. Len(s[i]) = 1 + Len(items[i].members) /\ Len(items[i].members) \in Nat
        BY <1>3
      <4> HIDE DEF n, s
      <4>3. ASSUME NEW l, l = Len(items[i].members), NEW c, c = Len(s[i])
            PROVE  c \in Nat /\ place[i + 1] = place[i] + c
        <5>1. l \in Nat /\ c = 1 + l /\ place[i + 1] = place[i] + 1 + l
          BY <4>1, <4>2, <4>3
        <5> QED
          BY <4>1, <5>1
      <4> QED
        BY <4>3
    <3> QED
      BY <3>1
  <2> HIDE DEF s
  <2> QED
    BY <1>2, <2>1 DEF Adjoin, Placed
<1>5. rows = FlattenSeq(s)
  OBVIOUS
<1> HIDE DEF s
<1>6. Flattened(s, n, place)
  <2>1. Flattened(s, Len(s), place)
    BY <1>2, <1>3, <1>4, FlatPlaces
  <2> QED
    BY <1>2, <2>1
<1>7. /\ IsSequence(rows) /\ Len(rows) = place[n + 1] - 1
      /\ \A i \in 1 .. n : \A j \in 1 .. Len(s[i]) : rows[place[i] + j - 1] = s[i][j]
  <2> HIDE DEF n
  <2> QED
    BY <1>5, <1>6 DEF Flattened
<1>8. ASSUME NEW i \in 1 .. n
      PROVE  /\ rows[place[i]] = head(i)
             /\ \A j \in 1 .. Len(items[i].members) : rows[place[i] + j] = Own(items[i].members[j])
  <2> HIDE DEF head
  <2>1. place[i] \in Nat
    BY <1>1 DEF Placed
  <2>2. 1 \in 1 .. Len(s[i]) /\ place[i] + 1 - 1 = place[i]
    BY <1>3, <2>1
  <2>3. rows[place[i]] = head(i)
    BY <1>3, <1>7, <2>2
  <2>4. ASSUME NEW j \in 1 .. Len(items[i].members)
        PROVE  rows[place[i] + j] = Own(items[i].members[j])
    <3>1. 1 + j \in 1 .. Len(s[i]) /\ place[i] + (1 + j) - 1 = place[i] + j
      BY <1>3, <2>1
    <3>2. rows[place[i] + (1 + j) - 1] = s[i][1 + j]
      BY <1>7, <3>1
    <3> QED
      BY <1>3, <3>1, <3>2
  <2> QED
    BY <2>3, <2>4
<1> QED
  BY <1>7, <1>8 DEF Structured

\* The starts of structures only grow.
LEMMA StartsGrow ==
  ASSUME NEW row, NEW n \in Nat, n = Len(row), NEW start, Starting(row, start)
  PROVE  /\ \A r \in 1 .. n + 1 : start[r] \in Nat /\ start[r] >= HeaderSize
         /\ \A r \in 1 .. n : \A q \in r + 1 .. n + 1 : start[r] + Bytes(row[r]) <= start[q]
<1>1. /\ start[1] \in Nat
      /\ \A r \in 1 .. n : start[r] \in Nat => start[r + 1] \in Nat /\ start[r] <= start[r + 1]
  <2>1. start[1] = HeaderSize /\ \A r \in 1 .. n : Bytes(row[r]) \in Nat /\
          start[r + 1] = start[r] + Bytes(row[r])
    BY DEF Starting
  <2> QED
    BY <2>1 DEF HeaderSize
<1>2. /\ \A r \in 1 .. n + 1 : start[r] \in Nat
      /\ \A r, q \in 1 .. n + 1 : r <= q => start[r] <= start[q]
  BY <1>1, Climbs
<1>3. ASSUME NEW r \in 1 .. n + 1 PROVE start[r] >= HeaderSize
  <2>1. start[1] <= start[r] /\ start[1] = HeaderSize /\ start[r] \in Nat
    BY <1>2 DEF Starting
  <2> QED
    BY <2>1 DEF HeaderSize
<1>4. ASSUME NEW r \in 1 .. n, NEW q \in r + 1 .. n + 1
      PROVE  start[r] + Bytes(row[r]) <= start[q]
  <2>1. start[r + 1] = start[r] + Bytes(row[r]) /\ start[r + 1] <= start[q]
    <3>1. r + 1 \in 1 .. n + 1 /\ q \in 1 .. n + 1 /\ r + 1 <= q
      OBVIOUS
    <3> QED
      BY <1>2, <3>1 DEF Starting
  <2> QED
    BY <2>1
<1> QED
  BY <1>2, <1>3, <1>4

\* A part of the row is as long as its items.
Spans(start, p, part) == start[p + 1] + BytesOf(part) = start[p + Len(part) + 1]

\* The bytes of a part of the row lie between its two offsets.
LEMMA SpanOf ==
  ASSUME NEW row, Len(row) \in Nat, NEW start, Starting(row, start),
         NEW part, IsSequence(part), NEW p \in Nat, p + Len(part) <= Len(row),
         \A j \in 1 .. Len(part) : row[p + j] = part[j]
  PROVE  Spans(start, p, part)
<1> DEFINE n == Len(row)
           l == Len(part)
           bytes == [j \in DOMAIN part |-> Bytes(part[j])]
<1>1. l \in Nat /\ DOMAIN part = 1 .. l
  BY DEF IsSequence
<1>2. \A r \in 1 .. n + 1 : start[r] \in Nat
  BY DEF Starting
<1>3. ASSUME NEW j \in 1 .. l
      PROVE  bytes[j] \in Int /\ start[p + j + 1] = start[p + j] + bytes[j]
  <2>1. p + j \in 1 .. n /\ j \in DOMAIN part
    BY <1>1
  <2>2. Bytes(row[p + j]) \in Nat /\ start[(p + j) + 1] = start[p + j] + Bytes(row[p + j])
    BY <2>1 DEF Starting
  <2>3. bytes[j] = Bytes(row[p + j])
    BY <2>1
  <2> HIDE DEF bytes, l
  <2> QED
    BY <2>2, <2>3
<1>4. bytes \in Seq(Int) /\ Len(bytes) = l
  <2>1. bytes \in [1 .. l -> Int]
    BY <1>1, <1>3
  <2> HIDE DEF bytes, l
  <2> QED
    BY <1>1, <2>1
<1>5. BytesOf(part) = Total(bytes)
  BY DEF BytesOf
<1> HIDE DEF bytes
<1>6. PICK sum \in [0 .. l -> Int] :
        /\ sum[0] = 0
        /\ \A i \in 1 .. l : sum[i] = sum[i - 1] + bytes[i]
        /\ \A r \in 0 .. l : \A ms \in Seq(Int) :
             Len(ms) = r /\ (\A i \in 1 .. r : ms[i] = bytes[i]) => Total(ms) = sum[r]
  BY <1>4, PrefixTotals
<1>7. BytesOf(part) = sum[l]
  <2>1. l \in 0 .. l
    BY <1>1
  <2> HIDE DEF l
  <2> QED
    BY <1>4, <1>5, <1>6, <2>1
<1> DEFINE A == {j \in 0 .. l : start[p + j + 1] = start[p + 1] + sum[j]}
<1>8. 0 \in A
  <2>1. p + 1 \in 1 .. n + 1 /\ p + 0 + 1 = p + 1 /\ 0 \in 0 .. l
    BY <1>1
  <2>2. start[p + 1] \in Nat
    BY <1>2, <2>1
  <2> QED
    BY <1>6, <2>1, <2>2
<1>9. ASSUME NEW j \in 0 .. l - 1, j \in A PROVE j + 1 \in A
  <2> HIDE DEF l
  <2>1. /\ j + 1 \in 1 .. l /\ j + 1 \in 0 .. l /\ j \in 0 .. l /\ (j + 1) - 1 = j
        /\ p + (j + 1) = p + j + 1 /\ start[p + j + 1] = start[p + 1] + sum[j]
    <3>1. start[p + j + 1] = start[p + 1] + sum[j] /\ j \in 0 .. l
      BY <1>9
    <3> HIDE DEF A
    <3>2. j + 1 \in 1 .. l /\ j + 1 \in 0 .. l /\ (j + 1) - 1 = j /\ p + (j + 1) = p + j + 1
      BY <1>1
    <3> QED
      BY <3>1, <3>2
  <2>2. start[p + (j + 1) + 1] = start[p + (j + 1)] + bytes[j + 1] /\ bytes[j + 1] \in Int
    BY <1>3, <2>1
  <2>3. sum[j + 1] = sum[j] + bytes[j + 1] /\ sum[j] \in Int
    BY <1>6, <2>1
  <2>4. start[p + 1] \in Nat
    <3>1. p + 1 \in 1 .. n + 1
      BY <1>1 DEF l, n
    <3> QED
      BY <1>2, <3>1
  <2>5. start[p + (j + 1) + 1] = start[p + 1] + sum[j + 1]
    BY <2>1, <2>2, <2>3, <2>4
  <2> QED
    BY <2>1, <2>5
<1>10. l \in A
  <2>1. 0 .. l \subseteq A
    <3> HIDE DEF A, l
    <3> QED
      BY <1>1, <1>8, <1>9, CountingUp
  <2>2. l \in 0 .. l
    BY <1>1
  <2> HIDE DEF A, l
  <2> QED
    BY <2>1, <2>2
<1> QED
  BY <1>7, <1>10 DEF Spans

\* An item of the row is one of the items, or a member of one.
LEMMA RowItem ==
  ASSUME NEW items, Sayable(items), NEW place, Placed(items, place), Rowed(items, place),
         NEW r \in 1 .. Len(Flat(items))
  PROVE  \/ \E i \in 1 .. Len(items) : r = place[i] /\ Flat(items)[r] = items[i]
         \/ \E i \in 1 .. Len(items) : \E j \in 1 .. Len(items[i].members) :
              r = place[i] + j /\ Flat(items)[r] = items[i].members[j]
<1> DEFINE n == Len(items)
<1>1. n \in Nat /\ DOMAIN items = 1 .. n /\ \A i \in 1 .. n : IsSequence(items[i].members)
  BY DEF Sayable, IsSequence
<1>2. place \in [1 .. n + 1 -> Nat] /\ place[1] = 1 /\ r \in 1 .. place[n + 1] - 1
  BY DEF Placed, Rowed
<1>3. PICK i \in 1 .. n : place[i] <= r /\ r < place[i + 1]
  <2> HIDE DEF n
  <2> QED
    BY <1>1, <1>2, PlaceOf
<1>4. /\ place[i + 1] = place[i] + 1 + Len(items[i].members) /\ place[i] \in Nat
      /\ Len(items[i].members) \in Nat
  BY <1>1 DEF Placed, IsSequence
<1>5. CASE r = place[i]
  BY <1>5 DEF Rowed
<1>6. CASE r # place[i]
  <2>1. ASSUME NEW j, j = r - place[i]
        PROVE  j \in 1 .. Len(items[i].members) /\ place[i] + j = r
    <3> HIDE DEF n
    <3>1. ASSUME NEW p, p = place[i], NEW l, l = Len(items[i].members), NEW q, q = place[i + 1]
          PROVE  j \in 1 .. l /\ p + j = r
      <4>1. /\ p \in Nat /\ l \in Nat /\ q = p + 1 + l /\ p <= r /\ r < q /\ r # p /\ j = r - p
        BY <1>3, <1>4, <1>6, <2>1, <3>1
      <4>2. r \in Int
        BY <1>2
      <4> QED
        BY <4>1, <4>2
    <3> QED
      BY <3>1
  <2>2. PICK j \in 1 .. Len(items[i].members) : place[i] + j = r
    BY <2>1
  <2>3. Flat(items)[r] = items[i].members[j]
    BY <2>2 DEF Rowed
  <2> QED
    BY <2>2, <2>3
<1> QED
  BY <1>5, <1>6

\* The members of an item.
LEMMA MemberFacts ==
  ASSUME NEW items, Sayable(items), NEW i \in 1 .. Len(items)
  PROVE  /\ Writable(items[i])
         /\ IsSequence(items[i].members) /\ Len(items[i].members) \in Nat
         /\ DOMAIN items[i].members = 1 .. Len(items[i].members)
         /\ \A j \in DOMAIN items[i].members : Writable(items[i].members[j])
<1>1. i \in DOMAIN items
  BY DEF Sayable, IsSequence
<1>2. IsSequence(items[i].members)
  BY <1>1 DEF Sayable
<1>3. /\ Len(items[i].members) \in Nat
      /\ DOMAIN items[i].members = 1 .. Len(items[i].members)
  BY <1>2 DEF IsSequence
<1> QED
  BY <1>1, <1>2, <1>3 DEF Sayable

\* The places of the items only grow.
LEMMA PlacedClimbs ==
  ASSUME NEW items, Sayable(items), NEW place, Placed(items, place)
  PROVE  /\ \A i \in 1 .. Len(items) + 1 : place[i] \in Nat /\ place[i] >= 1
         /\ \A i, j \in 1 .. Len(items) + 1 : i <= j => place[i] <= place[j]
<1> DEFINE n == Len(items)
<1>1. /\ place \in [1 .. n + 1 -> Nat] /\ place[1] = 1 /\ n \in Nat
      /\ \A i \in 1 .. n : place[i + 1] = place[i] + 1 + Len(items[i].members)
  BY DEF Placed, Sayable, IsSequence
<1>2. \A i \in 1 .. n : Len(items[i].members) \in Nat
  BY MemberFacts
<1> HIDE DEF n
<1>3. ASSUME NEW i \in 1 .. n, place[i] \in Nat
      PROVE  place[i + 1] \in Nat /\ place[i] <= place[i + 1]
  <2>1. ASSUME NEW l, l = Len(items[i].members), NEW p, p = place[i]
        PROVE  place[i + 1] \in Nat /\ p <= place[i + 1]
    <3>1. l \in Nat /\ p \in Nat /\ place[i + 1] = p + 1 + l
      BY <1>1, <1>2, <1>3, <2>1
    <3> QED
      BY <3>1
  <2> QED
    BY <2>1
<1>4. \A i, j \in 1 .. n + 1 : i <= j => place[i] <= place[j]
  <2>1. place[1] \in Nat
    BY <1>1
  <2> QED
    BY <1>1, <1>3, <2>1, Climbs
<1>5. ASSUME NEW i \in 1 .. n + 1 PROVE place[i] \in Nat /\ place[i] >= 1
  <2>1. 1 \in 1 .. n + 1 /\ 1 <= i
    BY <1>1
  <2>2. place[1] <= place[i]
    BY <1>4, <2>1
  <2> QED
    BY <1>1, <2>2
<1> QED
  BY <1>4, <1>5 DEF n

\* What an item of the row holds has a size.
LEMMA RowWritable ==
  ASSUME NEW items, Sayable(items), NEW place, Placed(items, place), Rowed(items, place),
         NEW r \in 1 .. Len(Flat(items))
  PROVE  Writable(Flat(items)[r])
BY MemberFacts, RowItem

\* No items have no bytes.
LEMMA NoBytes == BytesOf(<<>>) = 0
<1> DEFINE none == [i \in DOMAIN <<>> |-> Bytes(<<>>[i])]
<1>1. none \in Seq(Int) /\ Len(none) = 0
  OBVIOUS
<1>2. BytesOf(<<>>) = Total(none)
  BY DEF BytesOf
<1> HIDE DEF none
<1>3. PICK sum \in [0 .. Len(none) -> Int] :
        /\ sum[0] = 0
        /\ \A r \in 0 .. Len(none) : \A ms \in Seq(Int) :
             Len(ms) = r /\ (\A i \in 1 .. r : ms[i] = none[i]) => Total(ms) = sum[r]
  BY <1>1, PrefixTotals
<1>4. Total(none) = sum[0]
  <2>1. 0 \in 0 .. Len(none) /\ \A i \in 1 .. 0 : none[i] = none[i]
    BY <1>1
  <2> QED
    BY <1>1, <1>3, <2>1
<1> QED
  BY <1>2, <1>3, <1>4

\* The bytes of a text are in its structure.
LEMMA TextFits ==
  ASSUME NEW item, Writable(item), item.type = MQCFT_STRING
  PROVE  Announced(item) \in Nat /\ 20 + Announced(item) <= Bytes(item)
<1>1. Size(item.value) \in Nat
  BY DEF Writable
<1>2. Announced(item) = Size(item.value)
  BY DEF Announced, MQCFT_STRING, MQCFT_STRING_LIST, MQCFT_INTEGER_LIST, MQCFT_INTEGER64_LIST
<1>3. Bytes(item) = 20 + 4 * ((Size(item.value) + 3) \div 4)
  BY BytesOfType
<1>4. ASSUME NEW n \in Nat PROVE 20 + n <= 20 + 4 * ((n + 3) \div 4)
  OBVIOUS
<1> QED
  BY <1>1, <1>2, <1>3, <1>4

\* Where the items and the structures of a message are.
LayoutOf(w, place, start) ==
    LET row == Flat(w.items)  end == Len(row) IN
    /\ Placed(w.items, place) /\ Rowed(w.items, place) /\ Starting(row, start)
    /\ w.len = start[end + 1] /\ DOMAIN w.at = {start[r] : r \in 1 .. end}
    /\ \A r \in 1 .. end :
         /\ w.at[start[r]] = [Own(row[r]) EXCEPT !.length = w.at[start[r]].length]
         /\ row[r].type # MQCFT_GROUP \/ w.layout = "following" => w.at[start[r]] = Own(row[r])
    /\ w.layout = "nested" =>
         \A i \in 1 .. Len(w.items) :
            start[place[i]] + w.at[start[place[i]]].length = start[place[i + 1]]

\* The structure at a place of the row.
LEMMA RowStructure ==
  ASSUME NEW items, Sayable(items), NEW layout \in {"following", "nested"}, NEW place,
         Placed(items, place), Rowed(items, place),
         NEW rows, Structured(items, layout, place, rows), NEW r \in 1 .. Len(Flat(items))
  PROVE  /\ rows[r] = [Own(Flat(items)[r]) EXCEPT !.length = rows[r].length]
         /\ Flat(items)[r].type # MQCFT_GROUP \/ layout = "following" =>
              rows[r] = Own(Flat(items)[r])
<1> DEFINE item == Flat(items)[r]
<1>1. CASE \E i \in 1 .. Len(items) : \E j \in 1 .. Len(items[i].members) :
              r = place[i] + j /\ item = items[i].members[j]
  <2>1. rows[r] = Own(item)
    BY <1>1 DEF Structured
  <2>2. Own(item) = [Own(item) EXCEPT !.length = Own(item).length]
    BY DEF Own, Structure
  <2> HIDE DEF item
  <2>3. rows[r] = [Own(item) EXCEPT !.length = rows[r].length]
    BY <2>1, <2>2
  <2> QED
    BY <2>1, <2>3 DEF item
<1>2. CASE \E i \in 1 .. Len(items) : r = place[i] /\ item = items[i]
  <2>1. PICK i \in 1 .. Len(items) : r = place[i] /\ item = items[i]
    BY <1>2
  <2>2. PICK nested : /\ nested = IF layout = "nested" THEN BytesOf(item.members) ELSE 0
                      /\ rows[r] = [Own(item) EXCEPT !.length = Bytes(item) + nested]
    BY <2>1 DEF Structured
  <2>3. rows[r] = [Own(item) EXCEPT !.length = rows[r].length]
    <3> HIDE DEF item
    <3> QED
      BY <2>2 DEF Own, Structure
  <2>4. ASSUME item.type # MQCFT_GROUP \/ layout = "following" PROVE rows[r] = Own(item)
    <3>1. nested = 0
      <4>1. CASE layout = "following"
        BY <2>2, <4>1
      <4>2. CASE item.type # MQCFT_GROUP
        <5>1. DOMAIN items = 1 .. Len(items)
          BY DEF Sayable, IsSequence
        <5>2. item.members = <<>>
          BY <2>1, <4>2, <5>1 DEF Sayable
        <5> QED
          BY <2>2, <5>2, NoBytes
      <4> QED
        BY <2>4, <4>1, <4>2
    <3>2. Bytes(item) + 0 = Bytes(item)
      <4>1. Writable(item)
        BY RowWritable
      <4>2. Bytes(item) \in Nat
        BY <4>1, WritableBytes
      <4> QED
        BY <4>2
    <3> HIDE DEF item
    <3> QED
      BY <2>2, <3>1, <3>2 DEF Own, Structure
  <2> QED
    BY <2>3, <2>4
<1> QED
  BY <1>1, <1>2, RowItem

\* The bytes of a part are a number.
LEMMA BytesInt ==
  ASSUME NEW part, IsSequence(part), \A j \in DOMAIN part : Writable(part[j])
  PROVE  BytesOf(part) \in Int
<1> DEFINE bytes == [j \in DOMAIN part |-> Bytes(part[j])]
<1>1. DOMAIN part = 1 .. Len(part) /\ Len(part) \in Nat
  BY DEF IsSequence
<1>2. \A j \in DOMAIN part : Bytes(part[j]) \in Int
  BY WritableBytes
<1>3. bytes \in [1 .. Len(part) -> Int]
  BY <1>1, <1>2
<1>4. bytes \in Seq(Int)
  <2> HIDE DEF bytes
  <2> QED
    BY <1>1, <1>3
<1>5. BytesOf(part) = Total(bytes)
  BY DEF BytesOf
<1> HIDE DEF bytes
<1> QED
  BY <1>4, <1>5, TotalInt

\* A message has the structures of its items at the offsets that add up their bytes.
LEMMA MessageLayout ==
  ASSUME NEW items, Sayable(items), NEW layout \in {"following", "nested"},
         NEW command, NEW code, NEW w, w = Message(command, code, items, layout)
  PROVE  \E place, start : LayoutOf(w, place, start)
<1> DEFINE row == Flat(items)
           end == Len(row)
           n == Len(items)
           rows == FlattenSeq([i \in DOMAIN items |-> Structures(items[i], layout)])
           starts == [i \in DOMAIN rows |-> HeaderSize + BytesOf(SubSeq(row, 1, i - 1))]
<1>1. PICK place : Placed(items, place) /\ Rowed(items, place)
  BY RowsExist
<1>2. /\ IsSequence(row) /\ DOMAIN row = 1 .. end /\ end \in Nat /\ end = place[n + 1] - 1
      /\ n \in Nat
  BY <1>1 DEF Rowed, IsSequence, Sayable
<1>3. PICK start : Starting(row, start)
  <2>1. \A r \in DOMAIN row : Writable(row[r])
    BY <1>1, <1>2, RowWritable
  <2> QED
    BY <1>2, <2>1, StartsExist
<1>4. Structured(items, layout, place, rows)
  BY <1>1, StructuresPlaced
<1>5. DOMAIN rows = 1 .. end
  BY <1>2, <1>4 DEF Structured, IsSequence
<1>6. /\ w.items = items /\ w.layout = layout /\ w.len = HeaderSize + BytesOf(row)
      /\ w.at = [o \in {starts[i] : i \in DOMAIN rows} |->
                   rows[CHOOSE i \in DOMAIN rows : starts[i] = o]]
  BY DEF Message
<1>7. \A r \in 1 .. end : starts[r] = start[r]
  <2>1. ASSUME NEW r \in 1 .. end PROVE HeaderSize + BytesOf(SubSeq(row, 1, r - 1)) = start[r]
    <3>1. r - 1 \in 0 .. end /\ (r - 1) + 1 = r
      BY <1>2
    <3> HIDE DEF row
    <3>2. /\ IsSequence(SubSeq(row, 1, r - 1)) /\ Len(SubSeq(row, 1, r - 1)) = r - 1
          /\ \A x \in 1 .. r - 1 : SubSeq(row, 1, r - 1)[x] = row[x]
      BY <1>2, <3>1, FirstPart
    <3>3. HeaderSize + BytesOf(SubSeq(row, 1, r - 1)) = start[(r - 1) + 1]
      BY <1>3, <3>1, <3>2 DEF Starting
    <3> QED
      BY <3>1, <3>3
  <2> HIDE DEF rows, row
  <2> QED
    BY <1>5, <2>1
<1> HIDE DEF rows, starts
<1>8. \A r \in 1 .. end : \A q \in r + 1 .. end + 1 :
        start[r] \in Nat /\ start[q] \in Nat /\ start[r] + 16 <= start[q]
  <2>1. ASSUME NEW r \in 1 .. end, NEW q \in r + 1 .. end + 1
        PROVE  start[r] \in Nat /\ start[q] \in Nat /\ start[r] + 16 <= start[q]
    <3> HIDE DEF row
    <3>1. start[r] + Bytes(row[r]) <= start[q] /\ r \in 1 .. end + 1 /\ q \in 1 .. end + 1
      BY <1>2, <1>3, StartsGrow
    <3>2. start[r] \in Nat /\ start[q] \in Nat /\ Bytes(row[r]) \in Nat /\ Bytes(row[r]) >= 16
      BY <1>3, <3>1 DEF Starting
    <3> QED
      BY <3>1, <3>2
  <2> QED
    BY <2>1
<1>9. \A r, q \in 1 .. end : start[r] = start[q] => r = q
  <2>1. ASSUME NEW r \in 1 .. end, NEW q \in 1 .. end, r < q PROVE start[r] # start[q]
    <3>1. q \in r + 1 .. end + 1
      BY <1>2, <2>1
    <3>2. start[r] \in Nat /\ start[q] \in Nat /\ start[r] + 16 <= start[q]
      BY <1>8, <3>1
    <3> QED
      BY <3>2
  <2> HIDE DEF end
  <2>2. \A r, q \in 1 .. end : r # q => r < q \/ q < r
    BY <1>2
  <2> QED
    BY <2>1, <2>2
<1>10. DOMAIN w.at = {start[r] : r \in 1 .. end}
  <2> HIDE DEF end
  <2> QED
    BY <1>5, <1>6, <1>7
<1>11. ASSUME NEW r \in 1 .. end PROVE w.at[start[r]] = rows[r]
  <2> HIDE DEF end
  <2>1. \A i \in 1 .. end : starts[i] = start[r] <=> i = r
    BY <1>7, <1>9
  <2>2. (CHOOSE i \in DOMAIN rows : starts[i] = start[r]) = r
    BY <1>5, <2>1
  <2>3. start[r] \in {starts[i] : i \in DOMAIN rows}
    BY <1>5, <1>7
  <2> QED
    BY <1>6, <2>2, <2>3
<1>12. w.len = start[end + 1]
  <2>1. end \in 0 .. end /\ \A r \in 1 .. end : row[r] = row[r]
    BY <1>2
  <2> HIDE DEF row
  <2>2. HeaderSize + BytesOf(row) = start[end + 1]
    BY <1>2, <1>3, <2>1 DEF Starting
  <2> QED
    BY <1>6, <2>2
<1>13. ASSUME NEW r \in 1 .. end
       PROVE  /\ w.at[start[r]] = [Own(row[r]) EXCEPT !.length = w.at[start[r]].length]
              /\ row[r].type # MQCFT_GROUP \/ layout = "following" => w.at[start[r]] = Own(row[r])
  <2>1. /\ rows[r] = [Own(row[r]) EXCEPT !.length = rows[r].length]
        /\ row[r].type # MQCFT_GROUP \/ layout = "following" => rows[r] = Own(row[r])
    BY <1>1, <1>4, RowStructure
  <2> HIDE DEF row, end
  <2> QED
    BY <1>11, <2>1
<1>14. ASSUME layout = "nested", NEW i \in 1 .. n
       PROVE  start[place[i]] + w.at[start[place[i]]].length = start[place[i + 1]]
  <2> DEFINE members == items[i].members
             l == Len(members)
  <2>1. /\ place[i] \in Nat /\ place[i] >= 1 /\ place[i + 1] = place[i] + 1 + l /\ l \in Nat
        /\ IsSequence(members) /\ place[i + 1] <= end + 1 /\ place[i] \in 1 .. end
    <3>1. place[i + 1] = place[i] + 1 + l
      BY <1>1 DEF Placed
    <3>2. l \in Nat /\ IsSequence(members)
      BY MemberFacts
    <3>3. place[i] \in Nat /\ place[i] >= 1 /\ place[i + 1] <= place[n + 1] /\ place[n + 1] \in Nat
      <4>1. i \in 1 .. n + 1 /\ i + 1 \in 1 .. n + 1 /\ n + 1 \in 1 .. n + 1 /\ i + 1 <= n + 1
        BY <1>2
      <4> QED
        BY <1>1, <4>1, PlacedClimbs
    <3> HIDE DEF n, row, end, l, members
    <3> QED
      BY <1>2, <3>1, <3>2, <3>3
  <2>2. \A j \in 1 .. l : row[place[i] + j] = members[j]
    BY <1>1 DEF Rowed
  <2>3. row[place[i]] = items[i]
    BY <1>1 DEF Rowed
  <2>4. start[place[i] + 1] = start[place[i]] + Bytes(items[i]) /\ start[place[i]] \in Nat
        /\ Bytes(items[i]) \in Nat /\ start[place[i] + 1] \in Nat
    <3>1. place[i] \in 1 .. end + 1 /\ place[i] + 1 \in 1 .. end + 1
      BY <1>2, <2>1
    <3> HIDE DEF row
    <3> QED
      BY <1>3, <2>1, <2>3, <3>1 DEF Starting
  <2>5. start[place[i] + 1] + BytesOf(members) = start[place[i] + l + 1]
    <3>1. place[i] + l <= end
      <4> HIDE DEF end, l
      <4> QED
        BY <1>2, <2>1
    <3>2. IsSequence(members) /\ place[i] \in Nat /\ \A j \in 1 .. Len(members) : row[place[i] + j] = members[j]
      BY <2>1, <2>2
    <3>3. Spans(start, place[i], members)
      <4> HIDE DEF row, members
      <4> QED
        BY <1>2, <1>3, <3>1, <3>2, SpanOf
    <3> QED
      BY <3>3 DEF Spans
  <2>6. w.at[start[place[i]]].length = Bytes(items[i]) + BytesOf(members)
    <3>1. rows[place[i]].length = Bytes(items[i]) + BytesOf(members)
      <4>1. rows[place[i]] = [Own(items[i]) EXCEPT !.length = Bytes(items[i]) + BytesOf(members)]
        BY <1>4, <1>14 DEF Structured
      <4> HIDE DEF members
      <4> QED
        BY <4>1 DEF Own, Structure
    <3> HIDE DEF members, end
    <3> QED
      BY <1>11, <2>1, <3>1
  <2>7. place[i] + l + 1 = place[i + 1]
    <3> HIDE DEF l
    <3> QED
      BY <2>1
  <2>8. BytesOf(members) = start[place[i + 1]] - start[place[i] + 1] /\ start[place[i + 1]] \in Nat
        /\ BytesOf(members) \in Int
    <3>1. BytesOf(members) \in Int
      BY MemberFacts, BytesInt
    <3>2. place[i + 1] \in 1 .. end + 1
      <4> HIDE DEF end, l
      <4> QED
        BY <1>2, <2>1
    <3>3. start[place[i + 1]] \in Nat
      <4> HIDE DEF row
      <4> QED
        BY <1>3, <3>2 DEF Starting
    <3> HIDE DEF members, l
    <3> QED
      BY <2>4, <2>5, <2>7, <3>1, <3>3
  <2> HIDE DEF members, l
  <2> QED
    BY <2>4, <2>6, <2>8
<1>15. LayoutOf(w, place, start)
  <2>1. Flat(w.items) = row /\ Len(Flat(w.items)) = end /\ w.layout = layout /\ w.items = items
    BY <1>6
  <2>2. Placed(items, place) /\ Rowed(items, place) /\ Starting(row, start)
    BY <1>1, <1>3
  <2>3. layout = "nested" => \A i \in 1 .. Len(items) :
           start[place[i]] + w.at[start[place[i]]].length = start[place[i + 1]]
    BY <1>14
  <2> HIDE DEF row, end
  <2> QED
    BY <1>10, <1>12, <1>13, <2>1, <2>2, <2>3 DEF LayoutOf
<1> QED
  BY <1>15

\* A message whose unharmed items stand where they stood in one that is whole.
LEMMA PartLaidOut ==
  ASSUME NEW items, Sayable(items), NEW w, w.items = items, w.layout \in {"following", "nested"},
         NEW place, NEW start, LayoutOf(w, place, start),
         NEW m, m.items = items, m.layout = w.layout, m.header = HeaderSize,
         NEW n \in Nat, n = Len(items), NEW g \in 0 .. n, m.good = g,
         \A r \in 1 .. place[g + 1] - 1 :
            start[r] \in DOMAIN m.at /\ m.at[start[r]] = w.at[start[r]],
         g = n => m.len = w.len,
         NEW end, end = start[place[g + 1]],
         g < n /\ m.len >= HeaderSize /\ ~HasGroups(m) =>
           end <= m.len /\ (At(m, end).length < 1 \/ end + At(m, end).length > m.len)
  PROVE  LaidOut(m)
<1> DEFINE all == Flat(items)
           row == Row(m)
<1>1. /\ Placed(items, place) /\ Rowed(items, place) /\ Starting(all, start)
      /\ w.len = start[Len(all) + 1]
  BY DEF LayoutOf
<1>2. /\ IsSequence(items) /\ DOMAIN items = 1 .. n
      /\ IsSequence(all) /\ Len(all) = place[n + 1] - 1 /\ Len(all) \in Nat
  BY <1>1 DEF Sayable, Rowed, IsSequence
<1>3. /\ IsSequence(row) /\ Len(row) = place[g + 1] - 1
      /\ \A x \in 1 .. place[g + 1] - 1 : row[x] = all[x]
  BY <1>1 DEF Rowed, Row
<1>4. /\ place[g + 1] \in Nat /\ place[g + 1] >= 1 /\ place[g + 1] - 1 <= Len(all)
      /\ DOMAIN row = 1 .. place[g + 1] - 1
  <2>1. g + 1 \in 1 .. n + 1 /\ n + 1 \in 1 .. n + 1 /\ g + 1 <= n + 1
    BY <1>2
  <2>2. /\ place[g + 1] \in Nat /\ place[g + 1] >= 1 /\ place[n + 1] \in Nat
        /\ place[g + 1] <= place[n + 1]
    BY <1>1, <2>1, PlacedClimbs
  <2>3. DOMAIN row = 1 .. Len(row)
    BY <1>3 DEF IsSequence
  <2> HIDE DEF all, row
  <2> QED
    BY <1>2, <1>3, <2>2, <2>3
<1>5. ASSUME NEW r \in 1 .. place[g + 1] PROVE StartOf(m, r) = start[r]
  <2> DEFINE first == SubSeq(row, 1, r - 1)
  <2>1. r - 1 \in 0 .. Len(row) /\ r - 1 \in 0 .. Len(all) /\ (r - 1) + 1 = r
    <3> HIDE DEF row, all
    <3> QED
      BY <1>2, <1>3, <1>4
  <2>2. IsSequence(first) /\ Len(first) = r - 1 /\ \A x \in 1 .. r - 1 : first[x] = row[x]
    <3> HIDE DEF row
    <3> QED
      BY <1>3, <2>1, FirstPart
  <2>3. \A x \in 1 .. r - 1 : first[x] = all[x]
    <3>1. \A x \in 1 .. r - 1 : x \in 1 .. place[g + 1] - 1
      BY <1>4
    <3> HIDE DEF row, all, first
    <3> QED
      BY <1>3, <2>2, <3>1
  <2>4. HeaderSize + BytesOf(first) = start[r]
    <3> HIDE DEF first, all
    <3> QED
      BY <1>1, <2>1, <2>2, <2>3 DEF Starting
  <2> QED
    BY <2>4 DEF StartOf
<1>6. ASSUME NEW i \in 1 .. g + 1 PROVE Place(m, i) = place[i]
  <2>1. i - 1 \in 0 .. n /\ (i - 1) + 1 = i /\ i \in 1 .. n + 1
    BY <1>2
  <2>2. Len(Flat(SubSeq(items, 1, i - 1))) = place[i] - 1
    BY <1>1, <2>1 DEF Rowed
  <2>3. place[i] \in Nat
    BY <1>1, <2>1, PlacedClimbs
  <2> QED
    BY <2>2, <2>3 DEF Place
<1>7. /\ StartOf(m, 1) = HeaderSize /\ Place(m, 1) = 1 /\ Place(m, m.good + 1) = Len(row) + 1
      /\ StartOf(m, Len(row) + 1) = end
  <2>1. 1 \in 1 .. place[g + 1] /\ 1 \in 1 .. g + 1 /\ g + 1 \in 1 .. g + 1
        /\ place[g + 1] \in 1 .. place[g + 1]
    BY <1>2, <1>4
  <2>2. start[1] = HeaderSize /\ place[1] = 1
    BY <1>1 DEF Starting, Placed
  <2>3. Len(row) + 1 = place[g + 1]
    <3> HIDE DEF row
    <3> QED
      BY <1>3, <1>4
  <2> HIDE DEF row
  <2> QED
    BY <1>5, <1>6, <2>1, <2>2, <2>3
<1>8. ASSUME NEW r \in DOMAIN row
      PROVE  /\ Bytes(row[r]) \in Nat /\ Bytes(row[r]) >= 16
             /\ row[r].type = MQCFT_STRING =>
                  Announced(row[r]) \in Nat /\ 20 + Announced(row[r]) <= Bytes(row[r])
             /\ StartOf(m, r + 1) = StartOf(m, r) + Bytes(row[r])
             /\ At(m, StartOf(m, r)) = [Own(row[r]) EXCEPT !.length = At(m, StartOf(m, r)).length]
             /\ row[r].type # MQCFT_GROUP \/ ~HasGroups(m) \/ m.layout = "following" =>
                  At(m, StartOf(m, r)) = Own(row[r])
  <2>1. /\ r \in 1 .. place[g + 1] - 1 /\ r \in 1 .. place[g + 1] /\ r + 1 \in 1 .. place[g + 1]
        /\ r \in 1 .. Len(all) /\ row[r] = all[r]
    <3> HIDE DEF row, all
    <3> QED
      BY <1>2, <1>3, <1>4
  <2>2. /\ Bytes(all[r]) \in Nat /\ Bytes(all[r]) >= 16
        /\ start[r + 1] = start[r] + Bytes(all[r])
    <3> HIDE DEF all
    <3> QED
      BY <1>1, <2>1 DEF Starting
  <2>3. StartOf(m, r) = start[r] /\ StartOf(m, r + 1) = start[r + 1]
    BY <1>5, <2>1
  <2>4. At(m, StartOf(m, r)) = w.at[start[r]]
    BY <2>1, <2>3 DEF At
  <2>5. /\ w.at[start[r]] = [Own(all[r]) EXCEPT !.length = w.at[start[r]].length]
        /\ all[r].type # MQCFT_GROUP \/ w.layout = "following" => w.at[start[r]] = Own(all[r])
    BY <2>1 DEF LayoutOf
  <2>6. ASSUME ~HasGroups(m) PROVE all[r].type # MQCFT_GROUP
    <3>1. \A i \in 1 .. n : /\ items[i].type # MQCFT_GROUP
                            /\ \A j \in 1 .. Len(items[i].members) :
                                 items[i].members[j].type # MQCFT_GROUP
      <4>1. \A i \in 1 .. n : DOMAIN items[i].members = 1 .. Len(items[i].members)
        BY MemberFacts
      <4> QED
        BY <1>2, <2>6, <4>1 DEF Sayable, HasGroups
    <3>2. \/ \E i \in 1 .. n : r = place[i] /\ all[r] = items[i]
          \/ \E i \in 1 .. n : \E j \in 1 .. Len(items[i].members) :
               r = place[i] + j /\ all[r] = items[i].members[j]
      BY <1>1, <2>1, RowItem
    <3> HIDE DEF all
    <3> QED
      BY <3>1, <3>2
  <2>7. all[r].type = MQCFT_STRING =>
          Announced(all[r]) \in Nat /\ 20 + Announced(all[r]) <= Bytes(all[r])
    <3>1. Writable(all[r])
      BY <1>1, <2>1, RowWritable
    <3> QED
      BY <3>1, TextFits
  <2> HIDE DEF row, all
  <2> QED
    BY <2>1, <2>2, <2>3, <2>4, <2>5, <2>6, <2>7
<1>9. ASSUME NEW i \in 1 .. g, NEW item, item = items[i]
      PROVE  /\ IsSequence(item.members) /\ Place(m, i + 1) = Place(m, i) + 1 + Len(item.members)
             /\ row[Place(m, i)] = item
             /\ \A j \in DOMAIN item.members :
                  item.members[j].type # MQCFT_GROUP /\ row[Place(m, i) + j] = item.members[j]
             /\ item.type # MQCFT_GROUP => item.members = <<>>
             /\ m.layout = "nested" =>
                  StartOf(m, Place(m, i)) + At(m, StartOf(m, Place(m, i))).length =
                    StartOf(m, Place(m, i + 1))
  <2> DEFINE l == Len(item.members)
  <2>1. /\ i \in 1 .. n /\ i \in 1 .. g + 1 /\ i + 1 \in 1 .. g + 1 /\ i + 1 <= g + 1
        /\ i \in 1 .. n + 1 /\ i + 1 \in 1 .. n + 1 /\ g + 1 \in 1 .. n + 1
    BY <1>2
  <2>2. IsSequence(item.members) /\ l \in Nat /\ DOMAIN item.members = 1 .. l
    BY <1>9, <2>1, MemberFacts
  <2>3. /\ place[i + 1] = place[i] + 1 + l
        /\ all[place[i]] = item /\ \A j \in 1 .. l : all[place[i] + j] = item.members[j]
    BY <1>1, <1>9, <2>1 DEF Placed, Rowed
  <2>4. place[i] \in Nat /\ place[i] >= 1 /\ place[i + 1] <= place[g + 1]
    BY <1>1, <2>1, PlacedClimbs
  <2>5. Place(m, i) = place[i] /\ Place(m, i + 1) = place[i + 1]
    BY <1>6, <2>1
  <2>6. /\ place[i] \in 1 .. place[g + 1] - 1 /\ place[i] \in 1 .. place[g + 1]
        /\ place[i + 1] \in 1 .. place[g + 1]
        /\ \A j \in 1 .. l : place[i] + j \in 1 .. place[g + 1] - 1
    <3> HIDE DEF l
    <3>1. ASSUME NEW p, p = place[i], NEW q, q = place[i + 1], NEW e, e = place[g + 1]
          PROVE  p \in 1 .. e - 1 /\ q \in 1 .. e /\ \A j \in 1 .. l : p + j \in 1 .. e - 1
      <4>1. p \in Nat /\ p >= 1 /\ q = p + 1 + l /\ q <= e /\ e \in Nat /\ l \in Nat
        BY <1>4, <2>2, <2>3, <2>4, <3>1
      <4> QED
        BY <4>1
    <3>2. place[i] \in 1 .. place[g + 1]
      <4>1. ASSUME NEW p, p = place[i], NEW e, e = place[g + 1] PROVE p \in 1 .. e
        BY <1>4, <2>4, <3>1, <4>1
      <4> QED
        BY <4>1
    <3> QED
      BY <3>1, <3>2
  <2>7. row[place[i]] = item /\ \A j \in 1 .. l : row[place[i] + j] = item.members[j]
    <3> HIDE DEF row, all, l
    <3> QED
      BY <1>3, <2>3, <2>6
  <2>8. /\ item.type # MQCFT_GROUP => item.members = <<>>
        /\ \A j \in DOMAIN item.members : item.members[j].type # MQCFT_GROUP
    BY <1>2, <1>9, <2>1 DEF Sayable
  <2>9. ASSUME m.layout = "nested"
        PROVE  StartOf(m, place[i]) + At(m, StartOf(m, place[i])).length = StartOf(m, place[i + 1])
    <3>1. StartOf(m, place[i]) = start[place[i]] /\ StartOf(m, place[i + 1]) = start[place[i + 1]]
      BY <1>5, <2>6
    <3>2. At(m, start[place[i]]) = w.at[start[place[i]]]
      BY <2>6 DEF At
    <3>3. start[place[i]] + w.at[start[place[i]]].length = start[place[i + 1]]
      BY <2>1, <2>9 DEF LayoutOf
    <3> QED
      BY <3>1, <3>2, <3>3
  <2> HIDE DEF row, all
  <2> QED
    BY <2>2, <2>3, <2>5, <2>7, <2>8, <2>9
<1>10. m.good = Len(m.items) => end = m.len
  <2>1. Len(all) + 1 = place[n + 1]
    <3>1. place[n + 1] \in Nat
      BY <1>1, <1>2, PlacedClimbs
    <3> HIDE DEF all
    <3> QED
      BY <1>2, <3>1
  <2> HIDE DEF all
  <2> QED
    BY <1>1, <2>1
<1>11. m.good < Len(m.items) /\ m.len >= HeaderSize /\ ~HasGroups(m) =>
         end <= m.len /\ (At(m, end).length < 1 \/ end + At(m, end).length > m.len)
  OBVIOUS
<1>12. IsSequence(m.items) /\ m.good \in 0 .. Len(m.items) /\ m.layout \in {"following", "nested"}
  BY <1>2
<1>13. \A r \in DOMAIN Row(m) :
         /\ Bytes(Row(m)[r]) \in Nat /\ Bytes(Row(m)[r]) >= 16
         /\ Row(m)[r].type = MQCFT_STRING =>
              Announced(Row(m)[r]) \in Nat /\ 20 + Announced(Row(m)[r]) <= Bytes(Row(m)[r])
         /\ StartOf(m, r + 1) = StartOf(m, r) + Bytes(Row(m)[r])
         /\ At(m, StartOf(m, r)) = [Own(Row(m)[r]) EXCEPT !.length = At(m, StartOf(m, r)).length]
         /\ Row(m)[r].type # MQCFT_GROUP \/ ~HasGroups(m) \/ m.layout = "following" =>
              At(m, StartOf(m, r)) = Own(Row(m)[r])
  BY <1>8, Zenon
<1>14. \A i \in 1 .. m.good :
         LET item == m.items[i] IN
         /\ IsSequence(item.members)
         /\ Place(m, i + 1) = Place(m, i) + 1 + Len(item.members)
         /\ Row(m)[Place(m, i)] = item
         /\ \A j \in DOMAIN item.members :
              /\ item.members[j].type # MQCFT_GROUP
              /\ Row(m)[Place(m, i) + j] = item.members[j]
         /\ item.type # MQCFT_GROUP => item.members = <<>>
         /\ m.layout = "nested" =>
              StartOf(m, Place(m, i)) + At(m, StartOf(m, Place(m, i))).length =
                StartOf(m, Place(m, i + 1))
  <2> SUFFICES ASSUME NEW i \in 1 .. g, NEW item, item = items[i]
               PROVE  /\ IsSequence(item.members)
                      /\ Place(m, i + 1) = Place(m, i) + 1 + Len(item.members)
                      /\ Row(m)[Place(m, i)] = item
                      /\ \A j \in DOMAIN item.members :
                           /\ item.members[j].type # MQCFT_GROUP
                           /\ Row(m)[Place(m, i) + j] = item.members[j]
                      /\ item.type # MQCFT_GROUP => item.members = <<>>
                      /\ m.layout = "nested" =>
                           StartOf(m, Place(m, i)) + At(m, StartOf(m, Place(m, i))).length =
                             StartOf(m, Place(m, i + 1))
    BY Zenon
  <2>1. IsSequence(item.members) /\ Place(m, i + 1) = Place(m, i) + 1 + Len(item.members)
    BY <1>9
  <2>2. Row(m)[Place(m, i)] = item
    BY <1>9
  <2>3. \A j \in DOMAIN item.members :
          item.members[j].type # MQCFT_GROUP /\ Row(m)[Place(m, i) + j] = item.members[j]
    BY <1>9
  <2>4. /\ item.type # MQCFT_GROUP => item.members = <<>>
        /\ m.layout = "nested" =>
             StartOf(m, Place(m, i)) + At(m, StartOf(m, Place(m, i))).length =
               StartOf(m, Place(m, i + 1))
    BY <1>9
  <2> QED
    BY <2>1, <2>2, <2>3, <2>4, Zenon
<1>15. /\ IsSequence(Row(m)) /\ Place(m, m.good + 1) = Len(Row(m)) + 1
       /\ StartOf(m, Len(Row(m)) + 1) = end
  BY <1>3, <1>7, Zenon
<1> QED
  BY <1>7, <1>10, <1>11, <1>12, <1>13, <1>14, <1>15, Zenon DEF LaidOut

\* How many items lie before an offset: those of which the last structure ends there
\* or before.
Before(w, place, start, o, g) ==
    /\ g \in 0 .. Len(w.items) /\ ItemsBefore(w, o) = g
    /\ \A i \in 1 .. Len(w.items) : start[place[i + 1]] <= o <=> i <= g

\* ItemsBefore counts them.
LEMMA ItemsUpTo ==
  ASSUME NEW w, NEW items, w.items = items, Sayable(items), NEW place, NEW start,
         LayoutOf(w, place, start), NEW n \in Nat, n = Len(items), NEW o \in Int
  PROVE  \E g : Before(w, place, start, o, g)
<1> DEFINE all == Flat(items)
<1>1. /\ Placed(items, place) /\ Rowed(items, place) /\ Starting(all, start)
      /\ DOMAIN items = 1 .. n /\ IsSequence(items) /\ Len(all) = place[n + 1] - 1
      /\ IsSequence(all) /\ Len(all) \in Nat
  <2>1. Placed(items, place) /\ Rowed(items, place) /\ Starting(all, start)
    BY DEF LayoutOf
  <2>2. DOMAIN items = 1 .. n /\ IsSequence(items)
    BY DEF Sayable, IsSequence
  <2>3. Len(all) = place[n + 1] - 1 /\ IsSequence(all)
    BY <2>1 DEF Rowed
  <2>4. Len(all) \in Nat
    BY <2>3 DEF IsSequence
  <2> QED
    BY <2>1, <2>2, <2>3, <2>4
<1>2. ASSUME NEW i \in 0 .. n
      PROVE  /\ place[i + 1] \in 1 .. Len(all) + 1
             /\ HeaderSize + BytesOf(Flat(SubSeq(items, 1, i))) = start[place[i + 1]]
  <2>1. /\ IsSequence(Flat(SubSeq(items, 1, i))) /\ Len(Flat(SubSeq(items, 1, i))) = place[i + 1] - 1
        /\ \A x \in 1 .. place[i + 1] - 1 : Flat(SubSeq(items, 1, i))[x] = all[x]
    BY <1>1 DEF Rowed
  <2>2. /\ place[i + 1] \in Nat /\ place[i + 1] >= 1 /\ place[i + 1] <= place[n + 1]
        /\ place[n + 1] \in Nat
    <3>1. i + 1 \in 1 .. n + 1 /\ n + 1 \in 1 .. n + 1 /\ i + 1 <= n + 1
      OBVIOUS
    <3> QED
      BY <1>1, <3>1, PlacedClimbs
  <2> HIDE DEF all
  <2>3. /\ place[i + 1] - 1 \in 0 .. Len(all) /\ place[i + 1] \in 1 .. Len(all) + 1
        /\ (place[i + 1] - 1) + 1 = place[i + 1]
    BY <1>1, <2>2
  <2>4. HeaderSize + BytesOf(Flat(SubSeq(items, 1, i))) = start[(place[i + 1] - 1) + 1]
    BY <1>1, <2>1, <2>3 DEF Starting
  <2> QED
    BY <2>3, <2>4
<1>3. \A i, j \in 1 .. n : i <= j => start[place[i + 1]] <= start[place[j + 1]]
  <2>1. ASSUME NEW i \in 1 .. n, NEW j \in 1 .. n, i <= j
        PROVE  start[place[i + 1]] <= start[place[j + 1]]
    <3>1. i + 1 \in 1 .. n + 1 /\ j + 1 \in 1 .. n + 1 /\ i + 1 <= j + 1 /\ i \in 0 .. n /\ j \in 0 .. n
      BY <2>1
    <3>2. place[i + 1] <= place[j + 1]
      BY <1>1, <3>1, PlacedClimbs
    <3>3. place[i + 1] \in 1 .. Len(all) + 1 /\ place[j + 1] \in 1 .. Len(all) + 1
      BY <1>2, <3>1
    <3>4. ASSUME NEW e \in Nat, e = Len(all), NEW p \in 1 .. e + 1, NEW q \in 1 .. e + 1, p <= q
          PROVE  start[p] <= start[q]
      <4>1. start[p] \in Nat /\ start[q] \in Nat
        BY <1>1, <3>4 DEF Starting
      <4>2. CASE p = q
        BY <4>1, <4>2
      <4>3. CASE p < q
        <5>1. p \in 1 .. e /\ q \in p + 1 .. e + 1
          BY <4>3
        <5>2. start[p] + Bytes(all[p]) <= start[q]
          <6> HIDE DEF all
          <6> QED
            BY <1>1, <3>4, <5>1, StartsGrow
        <5>3. Bytes(all[p]) \in Nat
          BY <1>1, <3>4, <5>1 DEF Starting
        <5> HIDE DEF all
        <5> QED
          BY <4>1, <5>2, <5>3
      <4> QED
        BY <3>4, <4>2, <4>3
    <3> HIDE DEF all
    <3> QED
      BY <1>1, <3>2, <3>3, <3>4
  <2> QED
    BY <2>1
<1>4. \A i \in 1 .. n : start[place[i + 1]] \in Nat
  <2>1. ASSUME NEW i \in 1 .. n PROVE start[place[i + 1]] \in Nat
    <3>1. i \in 0 .. n
      OBVIOUS
    <3>2. place[i + 1] \in 1 .. Len(all) + 1
      BY <1>2, <3>1
    <3> HIDE DEF all
    <3> QED
      BY <1>1, <3>2 DEF Starting
  <2> QED
    BY <2>1
<1> HIDE DEF all
<1> DEFINE beyond == {i \in 1 .. n : start[place[i + 1]] > o} \cup {n + 1}
<1>5. PICK x \in beyond : \A y \in beyond : ~(y < x)
  <2>1. beyond \in SUBSET Nat /\ beyond # {}
    OBVIOUS
  <2> HIDE DEF beyond
  <2> QED
    BY <2>1, LeastOf
<1> DEFINE g == x - 1
<1>6. g \in 0 .. n
  OBVIOUS
<1>7. ASSUME NEW i \in 1 .. n PROVE start[place[i + 1]] <= o <=> i <= g
  <2>1. CASE i <= g
    <3>1. i < x
      BY <2>1
    <3>2. i \notin beyond
      BY <1>5, <3>1
    <3> QED
      BY <1>4, <2>1, <3>2
  <2>2. CASE ~(i <= g)
    <3>1. x <= i /\ x \in 1 .. n /\ x # n + 1
      BY <2>2
    <3>2. start[place[x + 1]] > o
      BY <3>1
    <3>3. start[place[x + 1]] <= start[place[i + 1]]
      BY <1>3, <3>1
    <3>4. start[place[x + 1]] \in Nat /\ start[place[i + 1]] \in Nat
      BY <1>4, <3>1
    <3>5. ~(start[place[i + 1]] <= o)
      BY <3>2, <3>3, <3>4
    <3> QED
      BY <2>2, <3>5
  <2> QED
    BY <2>1, <2>2
<1> HIDE DEF g, beyond
<1>8. {i \in DOMAIN w.items : HeaderSize + BytesOf(Flat(SubSeq(w.items, 1, i))) <= o} = 1 .. g
  <2>1. \A i \in 1 .. n : HeaderSize + BytesOf(Flat(SubSeq(w.items, 1, i))) <= o <=> i <= g
    BY <1>2, <1>7
  <2> QED
    BY <1>1, <1>6, <2>1
<1>9. Cardinality(1 .. g) = g
  BY <1>6, FS_Interval
<1>10. ItemsBefore(w, o) = g
  BY <1>8, <1>9 DEF ItemsBefore
<1> QED
  BY <1>6, <1>7, <1>10 DEF Before

\* Without groups each item is one structure.
LEMMA NoGroups ==
  ASSUME NEW items, Sayable(items), NEW place, Placed(items, place),
         \A i \in DOMAIN items : items[i].type # MQCFT_GROUP
  PROVE  \A i \in 1 .. Len(items) + 1 : place[i] = i
<1> DEFINE n == Len(items)
           A == {i \in 0 .. n : place[i + 1] = i + 1}
<1>1. n \in Nat /\ DOMAIN items = 1 .. n
  BY DEF Sayable, IsSequence
<1>2. 0 \in A
  BY <1>1 DEF Placed
<1>3. ASSUME NEW i \in 0 .. n - 1, i \in A PROVE i + 1 \in A
  <2>1. i + 1 \in 1 .. n /\ i + 1 \in 0 .. n
    BY <1>1
  <2>2. items[i + 1].members = <<>>
    BY <1>1, <2>1 DEF Sayable
  <2>3. place[(i + 1) + 1] = place[i + 1] + 1 + Len(items[i + 1].members)
    BY <2>1 DEF Placed
  <2> HIDE DEF n
  <2>4. place[(i + 1) + 1] = (i + 1) + 1
    BY <1>3, <2>2, <2>3
  <2> QED
    BY <2>1, <2>4
<1>4. 0 .. n \subseteq A
  <2> HIDE DEF n, A
  <2> QED
    BY <1>1, <1>2, <1>3, CountingUp
<1>5. ASSUME NEW i \in 1 .. n + 1 PROVE place[i] = i
  <2>1. i - 1 \in 0 .. n /\ (i - 1) + 1 = i
    BY <1>1
  <2>2. i - 1 \in A
    BY <1>4, <2>1
  <2> QED
    BY <2>1, <2>2
<1> QED
  BY <1>5

\* Where a message without groups ends, or where its harm is.
LEMMA SingleStructures ==
  ASSUME NEW w, NEW items, w.items = items, Sayable(items), ~HasGroups(w), NEW place, NEW start,
         LayoutOf(w, place, start), NEW n \in Nat, n = Len(items), NEW g \in 0 .. n - 1,
         NEW o \in Int, o >= HeaderSize, Before(w, place, start, o, g)
  PROVE  /\ place[g + 1] = g + 1 /\ Len(Flat(items)) = n
         /\ start[g + 1] \in Nat /\ start[g + 1] <= o /\ start[g + 2] \in Nat /\ start[g + 2] > o
         /\ start[g + 1] \in DOMAIN w.at
         /\ start[g + 1] + w.at[start[g + 1]].length = start[g + 2]
<1> DEFINE all == Flat(items)
<1>1. /\ Placed(items, place) /\ Rowed(items, place) /\ Starting(all, start)
  BY DEF LayoutOf
<1>2. DOMAIN items = 1 .. n
  BY DEF Sayable, IsSequence
<1>3. \A i \in 1 .. n : items[i].type # MQCFT_GROUP
  BY <1>2 DEF HasGroups
<1>4. \A i \in 1 .. n + 1 : place[i] = i
  BY <1>1, <1>2, <1>3, NoGroups
<1>5. Len(all) = n
  <2>1. Len(all) = place[n + 1] - 1 /\ n + 1 \in 1 .. n + 1
    BY <1>1 DEF Rowed
  <2> HIDE DEF all
  <2> QED
    BY <1>4, <2>1
<1>6. /\ place[g + 1] = g + 1 /\ g + 1 \in 1 .. n /\ (g + 1) + 1 = g + 2
      /\ g + 1 \in 1 .. n + 1 /\ g + 2 \in 1 .. n + 1 /\ place[(g + 1) + 1] = g + 2
  BY <1>4
<1>7. all[g + 1] = items[g + 1]
  <2>1. all[place[g + 1]] = items[g + 1]
    BY <1>1, <1>6 DEF Rowed
  <2> QED
    BY <1>6, <2>1
<1>8. /\ start[g + 1] \in Nat /\ start[g + 2] \in Nat /\ start[g + 2] = start[g + 1] + Bytes(all[g + 1])
  BY <1>1, <1>5, <1>6 DEF Starting
<1>9. start[g + 1] \in DOMAIN w.at /\ w.at[start[g + 1]] = Own(all[g + 1])
  BY <1>3, <1>5, <1>6, <1>7 DEF LayoutOf
<1>10. w.at[start[g + 1]].length = Bytes(all[g + 1])
  BY <1>9 DEF Own, Structure
<1>11. start[g + 2] > o
  <2>1. ~(start[place[(g + 1) + 1]] <= o)
    <3>1. ~(g + 1 <= g)
      OBVIOUS
    <3> QED
      BY <1>6, <3>1 DEF Before
  <2> QED
    BY <1>6, <1>8, <2>1
<1>12. start[g + 1] <= o
  <2>1. CASE g = 0
    BY <1>1, <2>1 DEF Starting
  <2>2. CASE g # 0
    <3>1. g \in 1 .. n /\ g <= g
      BY <2>2
    <3>2. start[place[g + 1]] <= o
      BY <3>1 DEF Before
    <3> QED
      BY <1>6, <3>2
  <2> QED
    BY <2>1, <2>2
<1> HIDE DEF all
<1>13. start[g + 1] + w.at[start[g + 1]].length = start[g + 2]
  BY <1>8, <1>10
<1> QED
  BY <1>5, <1>6, <1>8, <1>9, <1>11, <1>12, <1>13 DEF all

\* What the queue manager writes for items is laid out as the readers of pcf_inquiry.cpp
\* and pcf_parser.cpp expect it, whether the StrucLength of a group covers its members
\* or not.
THEOREM WholeLaidOut ==
  ASSUME NEW items, Sayable(items), NEW layout \in {"following", "nested"},
         NEW command, NEW code
  PROVE  LaidOut(Message(command, code, items, layout))
<1> DEFINE w == Message(command, code, items, layout)
           n == Len(items)
<1>1. PICK place, start : LayoutOf(w, place, start)
  BY MessageLayout
<1>2. /\ w.items = items /\ w.layout = layout /\ w.header = HeaderSize
      /\ w.good = n /\ n \in Nat /\ n \in 0 .. n
  BY DEF Message, Sayable, IsSequence
<1>3. \A r \in 1 .. place[n + 1] - 1 : start[r] \in DOMAIN w.at
  <2>1. DOMAIN w.at = {start[r] : r \in 1 .. Len(Flat(items))} /\ Rowed(items, place)
    BY <1>1, <1>2 DEF LayoutOf
  <2>2. Len(Flat(items)) = place[n + 1] - 1
    BY <2>1 DEF Rowed
  <2> HIDE DEF w, n
  <2> QED
    BY <2>1, <2>2
<1> HIDE DEF w
<1>4. LaidOut(w)
  <2>1. PICK m : m = w
    OBVIOUS
  <2>2. PICK end : end = start[place[n + 1]]
    OBVIOUS
  <2>3. PICK g \in 0 .. n : g = n
    BY <1>2
  <2>4. ~(g < n)
    BY <1>2, <2>3
  <2> QED
    BY <1>1, <1>2, <1>3, <2>1, <2>2, <2>3, <2>4, PartLaidOut
<1> QED
  BY <1>4 DEF w

\* The structures that begin before an offset are those of the items before it.
LEMMA StartsBefore ==
  ASSUME NEW w, NEW items, w.items = items, Sayable(items), NEW place, NEW start,
         LayoutOf(w, place, start), NEW n \in Nat, n = Len(items), NEW g \in 0 .. n
  PROVE  /\ place[g + 1] \in 1 .. Len(Flat(items)) + 1 /\ Len(Flat(items)) \in Nat
         /\ \A r \in 1 .. place[g + 1] - 1 :
              /\ start[r] \in DOMAIN w.at /\ start[r] \in Nat /\ start[place[g + 1]] \in Nat
              /\ start[r] < start[place[g + 1]]
<1> DEFINE all == Flat(items)
<1>1. /\ Placed(items, place) /\ Rowed(items, place) /\ Starting(all, start)
      /\ DOMAIN w.at = {start[r] : r \in 1 .. Len(all)}
  BY DEF LayoutOf
<1>2. Len(all) = place[n + 1] - 1 /\ IsSequence(all)
  BY <1>1 DEF Rowed
<1>3. Len(all) \in Nat
  BY <1>2 DEF IsSequence
<1>4. /\ place[g + 1] \in Nat /\ place[g + 1] >= 1 /\ place[g + 1] <= place[n + 1]
      /\ place[n + 1] \in Nat
  <2>1. g + 1 \in 1 .. n + 1 /\ n + 1 \in 1 .. n + 1 /\ g + 1 <= n + 1
    OBVIOUS
  <2> QED
    BY <1>1, <2>1, PlacedClimbs
<1> HIDE DEF all
<1>5. place[g + 1] \in 1 .. Len(all) + 1
  BY <1>2, <1>3, <1>4
<1>6. ASSUME NEW e \in Nat, e = Len(all), NEW p \in 1 .. e + 1, p = place[g + 1], NEW r \in 1 .. p - 1
      PROVE  start[r] \in DOMAIN w.at /\ start[r] \in Nat /\ start[p] \in Nat /\ start[r] < start[p]
  <2>1. r \in 1 .. e /\ p \in r + 1 .. e + 1 /\ r \in 1 .. e + 1
    OBVIOUS
  <2>2. start[r] + Bytes(all[r]) <= start[p] /\ start[r] \in Nat /\ start[p] \in Nat
    BY <1>1, <1>6, <2>1, StartsGrow
  <2>3. Bytes(all[r]) \in Nat /\ Bytes(all[r]) >= 16
    BY <1>1, <1>6, <2>1 DEF Starting
  <2>4. start[r] \in DOMAIN w.at
    BY <1>1, <1>6, <2>1
  <2> QED
    BY <2>2, <2>3, <2>4
<1> QED
  BY <1>3, <1>5, <1>6 DEF all

\* So is what is left of it for a reader that gets it cut: in the header, behind a structure
\* or in the midst of one.
THEOREM CutLaidOut ==
  ASSUME NEW items, Sayable(items), Len(items) > 0, NEW layout \in {"following", "nested"},
         NEW command, NEW code, NEW w, w = Message(command, code, items, layout),
         NEW o \in Nat, o <= w.len
  PROVE  LaidOut(CutAt(w, o))
<1>1. PICK place, start : LayoutOf(w, place, start)
  BY MessageLayout
<1>2. w.items = items /\ w.layout = layout
  BY DEF Message
<1>3. PICK n \in Nat : n = Len(items)
  BY DEF Sayable, IsSequence
<1>4. PICK g : Before(w, place, start, o, g)
  BY <1>1, <1>2, <1>3, ItemsUpTo
<1>5. g \in 0 .. n /\ ItemsBefore(w, o) = g
  BY <1>2, <1>3, <1>4 DEF Before
<1>6. PICK m : m = CutAt(w, o)
  OBVIOUS
<1>7. /\ m.items = items /\ m.layout = layout /\ m.header = HeaderSize /\ m.at = w.at
      /\ m.len = o /\ m.good = g
  BY <1>5, <1>6 DEF CutAt, Message
<1>8. \A r \in 1 .. place[g + 1] - 1 : start[r] \in DOMAIN m.at /\ m.at[start[r]] = w.at[start[r]]
  BY <1>1, <1>2, <1>3, <1>5, <1>7, StartsBefore
<1>9. w.len = start[place[n + 1]] /\ w.len \in Nat
  <2>1. w.len = start[Len(Flat(items)) + 1] /\ Rowed(items, place) /\ Starting(Flat(items), start)
    BY <1>1, <1>2 DEF LayoutOf
  <2>2. Len(Flat(items)) = place[n + 1] - 1
    BY <1>3, <2>1 DEF Rowed
  <2>3. place[n + 1] \in 1 .. Len(Flat(items)) + 1 /\ Len(Flat(items)) \in Nat
    BY <1>1, <1>2, <1>3, StartsBefore
  <2>4. Len(Flat(items)) + 1 = place[n + 1]
    BY <2>2, <2>3
  <2>5. start[place[n + 1]] \in Nat
    BY <2>1, <2>3 DEF Starting
  <2> QED
    BY <2>1, <2>4, <2>5
<1>10. g = n => m.len = w.len
  <2>1. ASSUME g = n PROVE start[place[n + 1]] <= o
    <3>1. n \in 1 .. Len(w.items) /\ n <= g
      BY <1>2, <1>3, <2>1
    <3> QED
      BY <1>4, <3>1 DEF Before
  <2> QED
    BY <1>7, <1>9, <2>1
<1>11. PICK end : end = start[place[g + 1]]
  OBVIOUS
<1>12. ASSUME g < n, m.len >= HeaderSize, ~HasGroups(m)
       PROVE  end <= m.len /\ (At(m, end).length < 1 \/ end + At(m, end).length > m.len)
  <2>1. ~HasGroups(w) /\ g \in 0 .. n - 1 /\ o >= HeaderSize
    BY <1>2, <1>5, <1>7, <1>12 DEF HasGroups
  <2>2. /\ place[g + 1] = g + 1
        /\ start[g + 1] <= o /\ start[g + 2] > o
        /\ start[g + 1] \in DOMAIN w.at
        /\ start[g + 1] + w.at[start[g + 1]].length = start[g + 2]
    BY <1>1, <1>2, <1>3, <1>4, <2>1, SingleStructures
  <2>3. end = start[g + 1] /\ At(m, end) = w.at[end]
    BY <1>7, <1>11, <2>2 DEF At
  <2> QED
    BY <1>7, <2>2, <2>3
<1>13. LaidOut(m)
  BY <1>1, <1>2, <1>3, <1>5, <1>7, <1>8, <1>10, <1>11, <1>12, PartLaidOut
<1> QED
  BY <1>6, <1>13

\* And so is a message with a StrucLength that is zero, negative, or does not fit, up to
\* the item that has it.
THEOREM DamagedLaidOut ==
  ASSUME NEW items, Sayable(items), NEW layout \in {"following", "nested"},
         NEW command, NEW code, NEW w, w = Message(command, code, items, layout),
         NEW o \in DOMAIN w.at, NEW x \in Int, x < 1 \/ o + x > w.len
  PROVE  LaidOut(WithLength(w, o, x))
<1>1. PICK place, start : LayoutOf(w, place, start)
  BY MessageLayout
<1>2. w.items = items /\ w.layout = layout
  BY DEF Message
<1>3. PICK n \in Nat : n = Len(items)
  BY DEF Sayable, IsSequence
<1>4. PICK e \in Nat : e = Len(Flat(items))
  <2>1. IsSequence(Flat(items))
    BY <1>1, <1>2 DEF LayoutOf, Rowed
  <2> QED
    BY <2>1 DEF IsSequence
<1>5. /\ Starting(Flat(items), start) /\ w.len = start[e + 1]
      /\ DOMAIN w.at = {start[r] : r \in 1 .. e}
      /\ \A r \in 1 .. e :
           w.at[start[r]] = [Own(Flat(items)[r]) EXCEPT !.length = w.at[start[r]].length]
  BY <1>1, <1>2, <1>4 DEF LayoutOf
<1>6. PICK s \in 1 .. e : o = start[s]
  BY <1>5
<1>7. \A r, q \in 1 .. e + 1 : r < q => start[r] \in Nat /\ start[q] \in Nat /\ start[r] < start[q]
  <2>1. ASSUME NEW r \in 1 .. e + 1, NEW q \in 1 .. e + 1, r < q
        PROVE  start[r] \in Nat /\ start[q] \in Nat /\ start[r] < start[q]
    <3>1. r \in 1 .. e /\ q \in r + 1 .. e + 1
      BY <2>1
    <3>2. start[r] + Bytes(Flat(items)[r]) <= start[q] /\ start[r] \in Nat /\ start[q] \in Nat
      BY <1>4, <1>5, <3>1, StartsGrow
    <3>3. Bytes(Flat(items)[r]) \in Nat /\ Bytes(Flat(items)[r]) >= 16
      BY <1>4, <1>5, <3>1 DEF Starting
    <3> QED
      BY <3>2, <3>3
  <2> QED
    BY <2>1
<1>8. o \in Nat /\ o >= HeaderSize /\ o < w.len
  <2>1. s < e + 1 /\ s \in 1 .. e + 1 /\ e + 1 \in 1 .. e + 1
    OBVIOUS
  <2>2. start[s] >= HeaderSize
    BY <1>4, <1>5, <2>1, StartsGrow
  <2> QED
    BY <1>5, <1>6, <1>7, <2>1, <2>2
<1>9. PICK g : Before(w, place, start, o, g)
  BY <1>1, <1>2, <1>3, <1>8, ItemsUpTo
<1>10. g \in 0 .. n /\ ItemsBefore(w, o) = g
  BY <1>2, <1>3, <1>9 DEF Before
<1>11. PICK m : m = WithLength(w, o, x)
  OBVIOUS
<1>12. /\ m.items = items /\ m.layout = layout /\ m.header = HeaderSize
       /\ m.len = w.len /\ m.good = g
       /\ m.at = [w.at EXCEPT ![o].length = x]
  BY <1>10, <1>11 DEF WithLength, Message
<1>13. /\ DOMAIN m.at = DOMAIN w.at /\ m.at[o].length = x
       /\ \A p \in DOMAIN w.at : p # o => m.at[p] = w.at[p]
  <2>1. \A p \in DOMAIN w.at : p # o => m.at[p] = w.at[p]
    BY <1>12
  <2>2. DOMAIN m.at = DOMAIN w.at /\ m.at[o] = [w.at[o] EXCEPT !.length = x]
    BY <1>12
  <2>3. w.at[o] = [Own(Flat(items)[s]) EXCEPT !.length = w.at[o].length]
    BY <1>5, <1>6
  <2>4. m.at[o].length = x
    BY <2>2, <2>3 DEF Own, Structure
  <2> QED
    BY <2>1, <2>2, <2>4
<1>14. ASSUME NEW r \in 1 .. place[g + 1] - 1
       PROVE  start[r] \in DOMAIN m.at /\ m.at[start[r]] = w.at[start[r]]
  <2>1. /\ start[r] \in DOMAIN w.at /\ start[r] \in Nat /\ start[place[g + 1]] \in Nat
        /\ start[r] < start[place[g + 1]] /\ place[g + 1] \in 1 .. e + 1
    BY <1>1, <1>2, <1>3, <1>4, <1>10, StartsBefore
  <2>2. g \in 1 .. n
    <3>1. ASSUME g = 0 PROVE FALSE
      <4>1. place[1] = 1
        BY <1>1, <1>2 DEF LayoutOf, Placed
      <4>2. 1 .. place[g + 1] - 1 = {}
        BY <3>1, <4>1
      <4> QED
        BY <4>2
    <3> QED
      BY <1>10, <3>1
  <2>3. start[place[g + 1]] <= o
    <3>1. g <= g
      BY <2>2
    <3> QED
      BY <1>2, <1>3, <1>9, <2>2, <3>1 DEF Before
  <2>4. start[r] # o
    BY <1>8, <2>1, <2>3
  <2> QED
    BY <1>13, <2>1, <2>4
<1>15. PICK end : end = start[place[g + 1]]
  OBVIOUS
<1>16. ASSUME g < n, m.len >= HeaderSize, ~HasGroups(m)
       PROVE  end <= m.len /\ (At(m, end).length < 1 \/ end + At(m, end).length > m.len)
  <2>1. ~HasGroups(w) /\ g \in 0 .. n - 1
    BY <1>2, <1>10, <1>12, <1>16 DEF HasGroups
  <2>2. /\ place[g + 1] = g + 1 /\ Len(Flat(items)) = n
        /\ start[g + 1] <= o /\ start[g + 2] > o
    BY <1>1, <1>2, <1>3, <1>8, <1>9, <2>1, SingleStructures
  <2>3. /\ e = n /\ g + 1 \in 1 .. e + 1 /\ g + 2 \in 1 .. e + 1 /\ s \in 1 .. e + 1
        /\ (s < g + 1 \/ s = g + 1 \/ s = g + 2 \/ g + 2 < s)
    BY <1>4, <2>1, <2>2
  <2>4. s = g + 1
    <3>1. CASE s < g + 1
      BY <1>6, <1>7, <2>2, <2>3, <3>1
    <3>2. CASE s = g + 2
      BY <1>6, <1>8, <2>2, <3>2
    <3>3. CASE g + 2 < s
      BY <1>6, <1>7, <2>2, <2>3, <3>3
    <3> QED
      BY <2>3, <3>1, <3>2, <3>3
  <2>5. end = o
    BY <1>6, <1>15, <2>2, <2>4
  <2>6. At(m, end).length = x
    BY <1>13, <2>5 DEF At
  <2>7. o <= w.len /\ w.len \in Nat
    <3>1. w.len \in Nat
      <4>1. e + 1 \in 1 .. e + 1
        OBVIOUS
      <4> QED
        BY <1>4, <1>5, <4>1 DEF Starting
    <3> QED
      BY <1>8, <3>1
  <2> QED
    BY <1>12, <2>5, <2>6, <2>7
<1>17. g = n => m.len = w.len
  BY <1>12
<1>18. LaidOut(m)
  BY <1>1, <1>2, <1>3, <1>10, <1>12, <1>14, <1>15, <1>16, <1>17, PartLaidOut
<1> QED
  BY <1>11, <1>18

\* The count in a command does not move its parameters.
LEMMA BuiltLaidOut ==
  ASSUME NEW items, Sayable(items), NEW command, NEW count
  PROVE  LaidOut(BuildPcfCmd(command, count, items))
<1> DEFINE w == Message(command, 0, items, "following")
           n == Len(items)
<1>1. PICK place, start : LayoutOf(w, place, start)
  BY MessageLayout
<1>2. w.items = items /\ w.layout = "following" /\ w.good = n /\ n \in Nat /\ n \in 0 .. n
  BY DEF Message, Sayable, IsSequence
<1>3. PICK m : m = BuildPcfCmd(command, count, items)
  OBVIOUS
<1>4. /\ m.items = w.items /\ m.layout = w.layout /\ m.good = w.good /\ m.len = w.len
      /\ m.at = w.at /\ m.header = HeaderSize
  BY <1>3 DEF BuildPcfCmd, Message
<1> HIDE DEF w
<1>5. \A r \in 1 .. place[n + 1] - 1 : start[r] \in DOMAIN m.at /\ m.at[start[r]] = w.at[start[r]]
  BY <1>1, <1>2, <1>4, StartsBefore
<1>6. PICK end : end = start[place[n + 1]]
  OBVIOUS
<1>7. PICK g \in 0 .. n : g = n
  BY <1>2
<1>8. ~(g < n)
  BY <1>2, <1>7
<1>9. w.layout \in {"following", "nested"} /\ m.items = items
  BY <1>2, <1>4
<1>10. LaidOut(m)
  BY <1>1, <1>2, <1>4, <1>5, <1>6, <1>7, <1>8, <1>9, PartLaidOut
<1> QED
  BY <1>3, <1>10

\* One or two parameters that hold a number or a text of some size.
LEMMA PlainItems ==
  ASSUME NEW t, Size(t) \in Nat, NEW id, NEW id2, NEW i
  PROVE  /\ Sayable(<<>>) /\ Sayable(<<Text(id, t)>>) /\ Sayable(<<Int32(id, i)>>)
         /\ Sayable(<<Text(id, t), Int32(id2, i)>>)
<1> DEFINE Plain(item) == Writable(item) /\ item.members = <<>>
<1>1. Plain(Text(id, t)) /\ Plain(Int32(id, i)) /\ Plain(Int32(id2, i))
  BY DEF Text, Int32, Item, Writable, MQCFT_STRING, MQCFT_INTEGER, MQCFT_INTEGER_LIST,
    MQCFT_INTEGER64_LIST, MQCFT_STRING_LIST, ListTypes
<1>2. IsSequence(<<>>)
  BY DEF IsSequence
<1>3. ASSUME NEW s, IsSequence(s), \A x \in DOMAIN s : Plain(s[x])
      PROVE  Sayable(s)
  BY <1>2, <1>3 DEF Sayable
<1>4. Sayable(<<>>)
  BY <1>2, <1>3
<1>5. ASSUME NEW a, Plain(a) PROVE Sayable(<<a>>)
  <2>1. IsSequence(<<a>>)
    BY OfOne
  <2>2. \A x \in DOMAIN <<a>> : <<a>>[x] = a
    OBVIOUS
  <2> HIDE DEF Plain
  <2>3. \A x \in DOMAIN <<a>> : Plain(<<a>>[x])
    BY <1>5, <2>2
  <2> QED
    BY <1>3, <2>1, <2>3
<1>6. ASSUME NEW a, Plain(a), NEW b, Plain(b) PROVE Sayable(<<a, b>>)
  <2>1. <<a, b>> \in Seq({a, b})
    OBVIOUS
  <2>2. IsSequence(<<a, b>>)
    BY <2>1, OverItself
  <2>3. \A x \in DOMAIN <<a, b>> : <<a, b>>[x] = a \/ <<a, b>>[x] = b
    OBVIOUS
  <2> HIDE DEF Plain
  <2>4. \A x \in DOMAIN <<a, b>> : Plain(<<a, b>>[x])
    BY <1>6, <2>3
  <2> QED
    BY <1>3, <2>2, <2>4
<1> HIDE DEF Plain
<1> QED
  BY <1>1, <1>4, <1>5, <1>6

\* Each command that the builders of pcf_inquiry.cpp write is laid out as the command
\* server reads it, for objects of every name.
THEOREM CommandsLaidOut ==
  ASSUME NEW name, Size(name) \in Nat, NEW m \in Commands(name)
  PROVE  LaidOut(m)
<1>1. \A command, count : LaidOut(BuildPcfCmd(command, count, <<>>))
  BY PlainItems, BuiltLaidOut
<1>2. ASSUME NEW command, NEW count, NEW id
      PROVE  LaidOut(BuildPcfCmd(command, count, <<Text(id, name)>>))
  BY PlainItems, BuiltLaidOut
<1>3. ASSUME NEW command, NEW count, NEW id, NEW i
      PROVE  LaidOut(BuildPcfCmd(command, count, <<Int32(id, i)>>))
  BY PlainItems, BuiltLaidOut
<1>4. ASSUME NEW command, NEW count, NEW id, NEW id2, NEW i
      PROVE  LaidOut(BuildPcfCmd(command, count, <<Text(id, name), Int32(id2, i)>>))
  BY PlainItems, BuiltLaidOut
<1>5. LaidOut(BuildInquireQ(name))
  BY <1>4 DEF BuildInquireQ
<1>6. LaidOut(BuildInquireQStatus(name)) /\ LaidOut(BuildInquireQStatusOnline(name))
  BY <1>4 DEF BuildInquireQStatus, BuildInquireQStatusOnline
<1>7. /\ LaidOut(BuildInquireChannelStatus(name)) /\ LaidOut(BuildInquireTopicStatus(name))
      /\ LaidOut(BuildInquireSubStatus(name)) /\ LaidOut(BuildInquireClusterQmgr(name))
      /\ LaidOut(BuildResetQStats(name))
  BY <1>2 DEF BuildInquireChannelStatus, BuildInquireTopicStatus,
    BuildInquireSubStatus, BuildInquireClusterQmgr, BuildResetQStats
<1>8. LaidOut(BuildInquireQmgrStatus)
  BY <1>1 DEF BuildInquireQmgrStatus
<1>9. LaidOut(BuildInquireUsage(1)) /\ LaidOut(BuildInquireUsage(2))
  BY <1>3 DEF BuildInquireUsage
<1> QED
  BY <1>5, <1>6, <1>7, <1>8, <1>9 DEF Commands
=============================================================================
