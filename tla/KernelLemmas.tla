--------------------------- MODULE KernelLemmas ---------------------------
(***************************************************************************)
(* What the inputs of a batch hold and what the kernels make of them, and  *)
(* what the parallel layers compute with parameters that are loaded:       *)
(* lemmas about the operators of InputMetadata, for batches of any size,   *)
(* and of ParallelLayers, for models of any size over any number of ranks. *)
(***************************************************************************)
EXTENDS InputMetadata, ParallelLayers, TLAPS, SequenceTheorems, FiniteSetTheorems

(***************************************************************************)
(* Induction over the natural numbers, and what is defined by recursion.   *)
(***************************************************************************)

\* A set that holds 0 and with every number the next holds all natural numbers.
LEMMA Induction ==
  ASSUME NEW T, 0 \in T, \A n \in Nat : n \in T => n + 1 \in T
  PROVE  \A n \in Nat : n \in T
<1> SUFFICES ASSUME NEW n \in Nat, n \notin T PROVE FALSE
  OBVIOUS
<1> DEFINE S == {i \in 0 .. n : i \in T}
           U == {i + 1 : i \in S}
           f == [i \in S |-> i + 1]
<1>1. IsFiniteSet(S)
  <2>1. S \subseteq 0 .. n /\ IsFiniteSet(0 .. n) BY FS_Interval
  <2> QED BY <2>1, FS_Subset
<1>2. U \subseteq S
  <2> SUFFICES ASSUME NEW i \in S PROVE i + 1 \in S
    OBVIOUS
  <2>1. i \in Nat /\ i <= n /\ i # n OBVIOUS
  <2> QED BY <2>1
<1>3. f \in Bijection(S, U)
  BY DEF Bijection, Injection, Surjection, IsInjective
<1>4. ExistsBijection(S, U) BY <1>3 DEF ExistsBijection
<1>5. IsFiniteSet(U) /\ Cardinality(U) = Cardinality(S) BY <1>1, <1>4, FS_Bijection
<1>6. U = S BY <1>1, <1>2, <1>5, FS_Subset
<1>7. 0 \in S /\ 0 \notin U OBVIOUS
<1> QED BY <1>6, <1>7

\* A function on 1 .. n is a sequence of length n.
LEMMA SequenceOfLength ==
  ASSUME NEW n \in Nat, NEW S, NEW s \in [1 .. n -> S]
  PROVE  s \in Seq(S) /\ Len(s) = n
OBVIOUS

\* Some number in a set of natural numbers is the smallest.
LEMMA Smallest ==
  ASSUME NEW S \in SUBSET Nat, S # {}
  PROVE  Min(S) \in S /\ \A x \in S : Min(S) <= x
<1> DEFINE T == {n \in Nat : (\E x \in S : x <= n) => \E x \in S : \A y \in S : x <= y}
<1>1. 0 \in T OBVIOUS
<1>2. ASSUME NEW n \in Nat, n \in T PROVE n + 1 \in T
  <2> SUFFICES ASSUME NEW x \in S, x <= n + 1
               PROVE  \E z \in S : \A y \in S : z <= y
    OBVIOUS
  <2>1. CASE \E y \in S : y <= n BY <1>2, <2>1
  <2>2. CASE ~\E y \in S : y <= n
    <3>1. \A y \in S : x <= y BY <2>2
    <3> QED BY <3>1
  <2> QED BY <2>1, <2>2
<1>3. \A n \in Nat : n \in T
  <2> HIDE DEF T
  <2> QED BY <1>1, <1>2, Induction
<1>4. \E x \in S : \A y \in S : x <= y
  <2>1. PICK x \in S : TRUE OBVIOUS
  <2>2. x \in T BY <1>3, <2>1
  <2> QED BY <2>1, <2>2
<1> QED BY <1>4 DEF Min

\* Some number in a bounded set of natural numbers is the largest.
LEMMA Largest ==
  ASSUME NEW S \in SUBSET Nat, S # {}, NEW b \in Nat, \A x \in S : x <= b
  PROVE  Max(S) \in S /\ \A x \in S : x <= Max(S)
<1> DEFINE U == {n \in Nat : \A x \in S : x <= n}
<1>1. U \in SUBSET Nat /\ U # {} OBVIOUS
<1>2. Min(U) \in U /\ \A x \in U : Min(U) <= x
  <2> HIDE DEF U
  <2> QED BY <1>1, Smallest
<1>3. Min(U) \in S
  <2> DEFINE m == Min(U)
  <2>1. m \in Nat /\ (\A x \in S : x <= m) /\ \A x \in U : m <= x BY <1>2
  <2> HIDE DEF m
  <2>2. m = 0 => m \in S
    <3>1. PICK x \in S : TRUE OBVIOUS
    <3>2. x \in Nat /\ x <= m BY <2>1, <3>1
    <3> QED BY <3>1, <3>2
  <2>3. ~(m > 0 /\ m \notin S)
    <3> SUFFICES ASSUME m > 0, m \notin S PROVE FALSE OBVIOUS
    <3>1. m - 1 \in U BY <2>1
    <3> QED BY <2>1, <3>1
  <2>4. m \in S BY <2>1, <2>2, <2>3
  <2> QED BY <2>4 DEF m
<1>4. \A x \in S : x <= Min(U) BY <1>2
<1>5. \E x \in S : \A y \in S : x >= y
  <2> HIDE DEF U
  <2> QED BY <1>3, <1>4
<1> QED BY <1>5 DEF Max

\* Running sums begin with 0, and each is the one before and the length it counts.
SumsOf(sums, lengths, n) ==
  /\ sums \in [1 .. n + 1 -> Nat]
  /\ Len(sums) = n + 1 /\ Last(sums) = sums[n + 1]
  /\ sums[1] = 0
  /\ \A k \in 1 .. n : sums[k + 1] = sums[k] + lengths[k]

\* Cumulated gives the running sums of lengths.
LEMMA RunningSums ==
  ASSUME NEW n \in Nat, NEW lengths \in [1 .. n -> Nat]
  PROVE  SumsOf(Cumulated(lengths), lengths, n)
<1> DEFINE Sum(m, f) == /\ f \in [0 .. m -> Nat]
                        /\ f[0] = 0
                        /\ \A k \in 1 .. m : f[k] = f[k - 1] + lengths[k]
           T == {m \in Nat : m <= n => \E f : Sum(m, f)}
<1>1. 0 \in T
  <2>1. Sum(0, [k \in 0 .. 0 |-> 0]) OBVIOUS
  <2> QED BY <2>1
<1>2. ASSUME NEW m \in Nat, m \in T PROVE m + 1 \in T
  <2> SUFFICES ASSUME m + 1 <= n PROVE \E f : Sum(m + 1, f)
    <3> HIDE DEF Sum
    <3> QED OBVIOUS
  <2>1. PICK f : Sum(m, f)
    <3> HIDE DEF Sum
    <3> QED BY <1>2
  <2> DEFINE g == [k \in 0 .. m + 1 |-> IF k = m + 1 THEN f[m] + lengths[m + 1] ELSE f[k]]
  <2>2. lengths[m + 1] \in Nat /\ f[m] \in Nat BY <2>1
  <2>3. Sum(m + 1, g)
    <3>1. g \in [0 .. m + 1 -> Nat] BY <2>1, <2>2
    <3>2. g[0] = 0 BY <2>1
    <3>3. ASSUME NEW k \in 1 .. m + 1 PROVE g[k] = g[k - 1] + lengths[k]
      <4>1. CASE k = m + 1 BY <4>1
      <4>2. CASE k # m + 1 BY <2>1, <4>2
      <4> QED BY <4>1, <4>2
    <3> QED BY <3>1, <3>2, <3>3
  <2> QED BY <2>3
<1>3. n \in T
  <2> HIDE DEF T
  <2> QED BY <1>1, <1>2, Induction
<1>4. PICK f : Sum(n, f)
  <2> HIDE DEF Sum
  <2> QED BY <1>3
<1> DEFINE sum[k \in 0 .. n] == IF k = 0 THEN 0 ELSE sum[k - 1] + lengths[k]
<1>5. f = [k \in 0 .. n |-> IF k = 0 THEN 0 ELSE f[k - 1] + lengths[k]]
  BY <1>4
<1>6. sum = [k \in 0 .. n |-> IF k = 0 THEN 0 ELSE sum[k - 1] + lengths[k]]
  BY <1>5
<1>7. \A m \in Nat : m <= n => sum[m] \in Nat
  <2> DEFINE R == {m \in Nat : m <= n => sum[m] \in Nat}
  <2> HIDE DEF sum
  <2>1. 0 \in R BY <1>6
  <2>2. ASSUME NEW m \in Nat, m \in R PROVE m + 1 \in R
    <3> SUFFICES ASSUME m + 1 <= n PROVE sum[m + 1] \in Nat OBVIOUS
    <3>1. sum[m + 1] = sum[m] + lengths[m + 1] BY <1>6
    <3>2. sum[m] \in Nat /\ lengths[m + 1] \in Nat BY <2>2
    <3> QED BY <3>1, <3>2
  <2>3. \A m \in Nat : m \in R
    <3> HIDE DEF R
    <3> QED BY <2>1, <2>2, Induction
  <2> QED BY <2>3
<1>8. Len(lengths) = n OBVIOUS
<1>9. Cumulated(lengths) = [k \in 1 .. n + 1 |-> sum[k - 1]] BY <1>8 DEF Cumulated
<1> HIDE DEF sum
<1>10. Cumulated(lengths) \in [1 .. n + 1 -> Nat] BY <1>7, <1>9
<1>11. Len(Cumulated(lengths)) = n + 1 BY <1>10
<1>12. \A k \in 1 .. n : Cumulated(lengths)[k + 1] = Cumulated(lengths)[k] + lengths[k]
  BY <1>6, <1>9
<1>13. Cumulated(lengths)[1] = 0 BY <1>6, <1>9
<1>14. Last(Cumulated(lengths)) = Cumulated(lengths)[n + 1] BY <1>11 DEF Last
<1> QED BY <1>10, <1>11, <1>12, <1>13, <1>14 DEF SumsOf

\* The running sums grow, and every number up to the last falls between two of them.
LEMMA SumsGrow ==
  ASSUME NEW n \in Nat, NEW sums \in [1 .. n + 1 -> Nat], sums[1] = 0,
         \A k \in 1 .. n : sums[k] <= sums[k + 1]
  PROVE  /\ \A j, k \in 1 .. n + 1 : j <= k => sums[j] <= sums[k]
         /\ \A x \in 1 .. sums[n + 1] : \E k \in 1 .. n : sums[k] < x /\ x <= sums[k + 1]
<1> DEFINE T == {d \in Nat : \A j \in 1 .. n + 1 : j + d <= n + 1 => sums[j] <= sums[j + d]}
           U == {m \in Nat : m <= n => \A x \in 1 .. sums[m + 1] :
                               \E k \in 1 .. n : sums[k] < x /\ x <= sums[k + 1]}
<1>1. 0 \in T OBVIOUS
<1>2. ASSUME NEW d \in Nat, d \in T PROVE d + 1 \in T
  <2> SUFFICES ASSUME NEW j \in 1 .. n + 1, j + (d + 1) <= n + 1
               PROVE  sums[j] <= sums[j + (d + 1)]
    OBVIOUS
  <2>1. sums[j] <= sums[j + d] BY <1>2
  <2>2. j + d \in 1 .. n /\ (j + d) + 1 = j + (d + 1) OBVIOUS
  <2>3. sums[j + d] <= sums[(j + d) + 1] BY <2>2
  <2>4. sums[j] \in Nat /\ sums[j + d] \in Nat /\ sums[j + (d + 1)] \in Nat BY <2>2
  <2> QED BY <2>1, <2>2, <2>3, <2>4
<1>3. \A d \in Nat : d \in T
  <2> HIDE DEF T
  <2> QED BY <1>1, <1>2, Induction
<1>4. ASSUME NEW j \in 1 .. n + 1, NEW k \in 1 .. n + 1, j <= k PROVE sums[j] <= sums[k]
  <2>1. k - j \in Nat /\ j + (k - j) = k BY <1>4
  <2>2. k - j \in T BY <1>3, <2>1
  <2> QED BY <2>1, <2>2
<1>5. 0 \in U OBVIOUS
<1>6. ASSUME NEW m \in Nat, m \in U PROVE m + 1 \in U
  <2> SUFFICES ASSUME m + 1 <= n, NEW x \in 1 .. sums[(m + 1) + 1]
               PROVE  \E k \in 1 .. n : sums[k] < x /\ x <= sums[k + 1]
    OBVIOUS
  <2>1. CASE x <= sums[m + 1] BY <1>6, <2>1
  <2>2. CASE sums[m + 1] < x BY <2>2
  <2> QED BY <2>1, <2>2
<1>7. \A m \in Nat : m \in U
  <2> HIDE DEF U
  <2> QED BY <1>5, <1>6, Induction
<1>8. n \in U BY <1>7
<1> QED BY <1>4, <1>8

\* The running sums of longer lengths are larger; equal at the end, the lengths are equal.
LEMMA SumsCompared ==
  ASSUME NEW n \in Nat, NEW a \in [1 .. n -> Nat], NEW b \in [1 .. n -> Nat],
         \A k \in 1 .. n : a[k] <= b[k]
  PROVE  /\ Cumulated(a)[n + 1] <= Cumulated(b)[n + 1]
         /\ Cumulated(a)[n + 1] = Cumulated(b)[n + 1] => a = b
<1> DEFINE s == Cumulated(a)
           t == Cumulated(b)
<1>1. SumsOf(s, a, n) BY RunningSums
<1>2. SumsOf(t, b, n) BY RunningSums
<1> HIDE DEF s, t
<1> USE DEF SumsOf
<1> DEFINE gap == [k \in 1 .. n + 1 |-> t[k] - s[k]]
<1>3. \A k \in 1 .. n : gap[k + 1] = gap[k] + (b[k] - a[k]) BY <1>1, <1>2
<1>4. \A k \in 1 .. n + 1 : gap[k] \in Int BY <1>1, <1>2
<1>5. gap[1] = 0 BY <1>1, <1>2
<1> HIDE DEF gap
<1> DEFINE T == {m \in Nat : m <= n => gap[m + 1] >= 0}
<1>6. 0 \in T BY <1>5
<1>7. ASSUME NEW m \in Nat, m \in T PROVE m + 1 \in T
  <2> SUFFICES ASSUME m + 1 <= n PROVE gap[(m + 1) + 1] >= 0 OBVIOUS
  <2>1. gap[m + 1] >= 0 /\ gap[m + 1] \in Int BY <1>4, <1>7
  <2>2. b[m + 1] >= a[m + 1] /\ b[m + 1] \in Nat /\ a[m + 1] \in Nat OBVIOUS
  <2>3. gap[(m + 1) + 1] = gap[m + 1] + (b[m + 1] - a[m + 1]) BY <1>3
  <2> QED BY <2>1, <2>2, <2>3
<1>8. \A m \in Nat : m \in T
  <2> HIDE DEF T
  <2> QED BY <1>6, <1>7, Induction
<1>9. \A k \in 1 .. n + 1 : gap[k] \in Nat
  <2> TAKE k \in 1 .. n + 1
  <2>1. k - 1 \in Nat /\ k - 1 <= n /\ (k - 1) + 1 = k OBVIOUS
  <2>2. k - 1 \in T BY <1>8, <2>1
  <2>3. gap[(k - 1) + 1] >= 0 BY <2>1, <2>2
  <2> QED BY <1>4, <2>1, <2>3
<1> HIDE DEF T
<1>10. s[n + 1] <= t[n + 1]
  <2>1. gap[n + 1] \in Nat BY <1>9
  <2> QED BY <1>1, <1>2, <2>1 DEF gap
<1>11. ASSUME s[n + 1] = t[n + 1] PROVE a = b
  <2>1. gap[n + 1] = 0 BY <1>1, <1>2, <1>11 DEF gap
  <2>2. \A k \in 1 .. n : gap[k] <= gap[k + 1]
    <3> TAKE k \in 1 .. n
    <3>1. a[k] <= b[k] /\ a[k] \in Nat /\ b[k] \in Nat OBVIOUS
    <3>2. gap[k] \in Nat /\ gap[k + 1] = gap[k] + (b[k] - a[k]) BY <1>3, <1>9
    <3> QED BY <3>1, <3>2
  <2>3. gap \in [1 .. n + 1 -> Nat]
    <3>1. gap = [k \in 1 .. n + 1 |-> gap[k]] BY DEF gap
    <3> QED BY <1>9, <3>1
  <2>4. \A j, k \in 1 .. n + 1 : j <= k => gap[j] <= gap[k]
    BY <1>5, <2>2, <2>3, SumsGrow
  <2>5. \A k \in 1 .. n + 1 : gap[k] = 0
    <3> TAKE k \in 1 .. n + 1
    <3>1. gap[k] <= gap[n + 1] BY <2>4
    <3> QED BY <1>9, <2>1, <3>1
  <2>6. \A k \in 1 .. n : a[k] = b[k]
    <3> TAKE k \in 1 .. n
    <3>1. a[k] \in Nat /\ b[k] \in Nat OBVIOUS
    <3>2. gap[k] = 0 /\ gap[k + 1] = 0 BY <2>5
    <3>3. gap[k + 1] = gap[k] + (b[k] - a[k]) BY <1>3
    <3> QED BY <3>1, <3>2, <3>3
  <2> QED BY <2>6
<1> QED BY <1>10, <1>11 DEF s, t

(***************************************************************************)
(* Lists of lists.                                                         *)
(***************************************************************************)
\* A list of n entries.
IsList(s, n) == s = [i \in 1 .. n |-> s[i]]

\* s holds the entries of all of lists, those of lists[k] behind the first sums[k].
Joins(s, lists, lengths, n) ==
  LET sums == Cumulated(lengths)
  IN  /\ IsList(s, sums[n + 1])
      /\ \A k \in 1 .. n : \A i \in 1 .. lengths[k] : s[sums[k] + i] = lists[k][i]

\* FlattenSeq joins lists of the given lengths.
LEMMA FlattenJoins ==
  ASSUME NEW n \in Nat, NEW lengths \in [1 .. n -> Nat], NEW lists,
         IsList(lists, n), \A k \in 1 .. n : IsList(lists[k], lengths[k])
  PROVE  Joins(FlattenSeq(lists), lists, lengths, n)
<1> DEFINE S == UNION {{lists[k][i] : i \in 1 .. lengths[k]} : k \in 1 .. n}
           sums == Cumulated(lengths)
<1>1. SumsOf(sums, lengths, n) BY RunningSums
<1> HIDE DEF sums
<1>2. ASSUME NEW k \in 1 .. n PROVE lists[k] \in Seq(S) /\ Len(lists[k]) = lengths[k]
  <2>1. lengths[k] \in Nat OBVIOUS
  <2>2. lists[k] \in [1 .. lengths[k] -> S] BY DEF IsList
  <2> HIDE DEF S
  <2> QED BY <2>1, <2>2, SequenceOfLength
<1>3. lists \in Seq(Seq(S)) /\ Len(lists) = n
  <2>1. lists \in [1 .. n -> Seq(S)] BY <1>2 DEF IsList
  <2> HIDE DEF S
  <2> QED BY <2>1, SequenceOfLength
<1> HIDE DEF S
<1> DEFINE Starts(s, m) ==
             /\ s \in Seq(S) /\ Len(s) = sums[m + 1]
             /\ \A k \in 1 .. m : \A i \in 1 .. lengths[k] : s[sums[k] + i] = lists[k][i]
<1>4. ASSUME NEW m \in 1 .. n, NEW s, Starts(s, m - 1) PROVE Starts(s \o lists[m], m)
  <2>1. /\ s \in Seq(S) /\ lists[m] \in Seq(S) /\ Len(lists[m]) = lengths[m]
        /\ lengths[m] \in Nat /\ Len(s) = sums[m] /\ sums[m] \in Nat
    BY <1>1, <1>2, <1>4 DEF SumsOf
  <2>2. /\ s \o lists[m] \in Seq(S) /\ Len(s \o lists[m]) = sums[m] + lengths[m]
        /\ \A i \in 1 .. sums[m] + lengths[m] :
             (s \o lists[m])[i] = IF i <= sums[m] THEN s[i] ELSE lists[m][i - sums[m]]
    <3> DEFINE u == lists[m]
    <3>1. s \in Seq(S) /\ u \in Seq(S) /\ Len(u) = lengths[m] /\ Len(s) = sums[m] BY <2>1
    <3> HIDE DEF u
    <3>2. /\ s \o u \in Seq(S) /\ Len(s \o u) = Len(s) + Len(u)
          /\ \A i \in 1 .. Len(s) + Len(u) :
               (s \o u)[i] = IF i <= Len(s) THEN s[i] ELSE u[i - Len(s)]
      BY <3>1, ConcatProperties
    <3> QED BY <3>1, <3>2 DEF u
  <2>3. sums[m + 1] = sums[m] + lengths[m] BY <1>1 DEF SumsOf
  <2>4. ASSUME NEW k \in 1 .. m, NEW i \in 1 .. lengths[k]
        PROVE  (s \o lists[m])[sums[k] + i] = lists[k][i]
    <3>1. CASE k = m
      <4>1. sums[m] + i \in 1 .. sums[m] + lengths[m] /\ ~(sums[m] + i <= sums[m])
            /\ (sums[m] + i) - sums[m] = i
        BY <2>1, <3>1
      <4> QED BY <2>2, <3>1, <4>1
    <3>2. CASE k # m
      <4>1. k \in 1 .. m - 1 /\ k \in 1 .. n BY <3>2
      <4>2. sums[k + 1] = sums[k] + lengths[k] /\ sums[k] \in Nat /\ lengths[k] \in Nat
        BY <1>1, <4>1 DEF SumsOf
      <4>3. sums[k + 1] <= sums[m]
        <5>1. \A j \in 1 .. n : sums[j] <= sums[j + 1]
          <6> TAKE j \in 1 .. n
          <6>1. sums[j + 1] = sums[j] + lengths[j] /\ sums[j] \in Nat /\ lengths[j] \in Nat
            BY <1>1, SMTT(30) DEF SumsOf
          <6> QED BY <6>1
        <5>2. \A j, l \in 1 .. n + 1 : j <= l => sums[j] <= sums[l]
          BY <1>1, <5>1, SumsGrow DEF SumsOf
        <5> QED BY <4>1, <5>2
      <4>4. sums[k] + i \in 1 .. sums[m]
        <5>1. sums[m] \in Nat /\ i \in Nat /\ 1 <= i /\ i <= lengths[k] BY <2>1, <4>2
        <5> QED BY <4>2, <4>3, <5>1, SMTT(30)
      <4>5. (s \o lists[m])[sums[k] + i] = s[sums[k] + i] BY <2>1, <2>2, <4>4
      <4> QED BY <1>4, <4>1, <4>5
    <3> QED BY <3>1, <3>2
  <2> QED BY <2>2, <2>3, <2>4
<1> HIDE DEF Starts
<1>5. Starts(FlattenSeq(lists), n)
  <2>1. CASE n = 0
    <3>1. FlattenSeq(lists) = << >> BY <1>3, <2>1 DEF FlattenSeq
    <3>2. sums[1] = 0 BY <1>1 DEF SumsOf
    <3> QED BY <2>1, <3>1, <3>2 DEF Starts
  <2>2. CASE n # 0
    <3>1. n \in Nat \ {0} /\ 1 \in 1 .. n BY <2>2
    <3> DEFINE flatten[i \in 1 .. n] ==
                 IF i = 1 THEN lists[i] ELSE flatten[i - 1] \o lists[i]
               Parts(f, m) == /\ f = [i \in 1 .. m |-> f[i]]
                              /\ f[1] = lists[1]
                              /\ \A i \in 2 .. m : f[i] = f[i - 1] \o lists[i]
               T == {m \in Nat : 1 <= m /\ m <= n => \E f : Parts(f, m)}
    <3>2. 0 \in T OBVIOUS
    <3>3. ASSUME NEW m \in Nat, m \in T PROVE m + 1 \in T
      <4> SUFFICES ASSUME m + 1 <= n PROVE \E f : Parts(f, m + 1)
        <5> HIDE DEF Parts
        <5> QED OBVIOUS
      <4>1. CASE m = 0
        <5> DEFINE g == [i \in 1 .. 1 |-> lists[1]]
        <5>1. g = [i \in 1 .. 1 |-> g[i]] /\ g[1] = lists[1] /\ 2 .. 1 = {} OBVIOUS
        <5>2. Parts(g, 1) BY <5>1
        <5>3. \E f : Parts(f, 1)
          <6> HIDE DEF Parts
          <6> QED BY <5>2
        <5> QED BY <4>1, <5>3
      <4>2. CASE m # 0
        <5>1. PICK f : Parts(f, m)
          <6> HIDE DEF Parts
          <6> QED BY <3>3, <4>2
        <5> DEFINE g == [i \in 1 .. m + 1 |-> IF i = m + 1 THEN f[m] \o lists[m + 1] ELSE f[i]]
        <5>2. Parts(g, m + 1)
          <6>1. g = [i \in 1 .. m + 1 |-> g[i]] OBVIOUS
          <6>2. g[1] = lists[1] BY <4>2, <5>1
          <6>3. ASSUME NEW i \in 2 .. m + 1 PROVE g[i] = g[i - 1] \o lists[i]
            <7>1. i - 1 \in 1 .. m + 1 /\ i - 1 # m + 1 /\ g[i - 1] = f[i - 1] OBVIOUS
            <7>2. CASE i = m + 1
              <8>1. m + 1 \in 1 .. m + 1 /\ i - 1 = m BY <7>2
              <8>2. g[m + 1] = f[m] \o lists[m + 1] BY <8>1
              <8> HIDE DEF g
              <8> QED BY <7>1, <7>2, <8>1, <8>2
            <7>3. CASE i # m + 1
              <8>1. i \in 2 .. m /\ g[i] = f[i] BY <7>3
              <8>2. f[i] = f[i - 1] \o lists[i] BY <5>1, <8>1
              <8> HIDE DEF g
              <8> QED BY <7>1, <8>1, <8>2
            <7> HIDE DEF g
            <7> QED BY <7>2, <7>3
          <6> QED BY <6>1, <6>2, <6>3
        <5> QED BY <5>2
      <4> QED BY <4>1, <4>2
    <3>4. n \in T
      <4> HIDE DEF T
      <4> QED BY <3>2, <3>3, Induction
    <3>5. PICK f : Parts(f, n)
      <4> HIDE DEF Parts
      <4> QED BY <3>1, <3>4
    <3>6. f = [i \in 1 .. n |-> IF i = 1 THEN lists[i] ELSE f[i - 1] \o lists[i]]
      <4>1. \A i \in 1 .. n : f[i] = IF i = 1 THEN lists[i] ELSE f[i - 1] \o lists[i]
        <5> TAKE i \in 1 .. n
        <5>1. i = 1 \/ i \in 2 .. n OBVIOUS
        <5> QED BY <3>5, <5>1
      <4>2. f = [i \in 1 .. n |-> f[i]] BY <3>5
      <4> HIDE DEF Parts
      <4> QED BY <4>1, <4>2
    <3>7. flatten = [i \in 1 .. n |-> IF i = 1 THEN lists[i] ELSE flatten[i - 1] \o lists[i]]
      BY <3>6
    <3>8. FlattenSeq(lists) = flatten[n] BY <1>3, <2>2 DEF FlattenSeq
    <3> HIDE DEF flatten
    <3> DEFINE U == {m \in Nat : 1 <= m /\ m <= n => Starts(flatten[m], m)}
    <3>9. 0 \in U OBVIOUS
    <3>10. ASSUME NEW m \in Nat, m \in U PROVE m + 1 \in U
      <4> SUFFICES ASSUME m + 1 <= n PROVE Starts(flatten[m + 1], m + 1) OBVIOUS
      <4>1. CASE m = 0
        <5>1. flatten[1] = lists[1] BY <3>1, <3>7
        <5>2. lists[1] \in Seq(S) /\ Len(lists[1]) = lengths[1] /\ lengths[1] \in Nat
          BY <1>2, <3>1
        <5>3. sums[1] = 0 /\ sums[1 + 1] = sums[1] + lengths[1] BY <1>1, <3>1 DEF SumsOf
        <5>4. \A i \in 1 .. lengths[1] : 0 + i = i OBVIOUS
        <5>5. Starts(flatten[1], 1) BY <5>1, <5>2, <5>3, <5>4 DEF Starts
        <5> QED BY <4>1, <5>5
      <4>2. CASE m # 0
        <5>1. m + 1 \in 1 .. n /\ m + 1 # 1 /\ (m + 1) - 1 = m BY <4>2
        <5>2. flatten[m + 1] = flatten[m] \o lists[m + 1] BY <3>7, <4>2, <5>1
        <5>3. Starts(flatten[m], (m + 1) - 1) BY <3>10, <4>2, <5>1
        <5> QED BY <1>4, <5>1, <5>2, <5>3
      <4> QED BY <4>1, <4>2
    <3>11. n \in U
      <4> HIDE DEF U
      <4> QED BY <3>9, <3>10, Induction
    <3> QED BY <3>1, <3>8, <3>11
  <2> QED BY <2>1, <2>2
<1>6. IsList(FlattenSeq(lists), sums[n + 1])
  <2>1. FlattenSeq(lists) \in Seq(S) /\ Len(FlattenSeq(lists)) = sums[n + 1] BY <1>5 DEF Starts
  <2> QED BY <2>1 DEF IsList
<1> QED BY <1>5, <1>6 DEF Joins, Starts, sums

\* Every entry of a joined list belongs to one of its parts, and the other way around.
LEMMA Located ==
  ASSUME NEW n \in Nat, NEW lengths \in [1 .. n -> Nat]
  PROVE  /\ \A j \in 1 .. Cumulated(lengths)[n + 1] :
              \E k \in 1 .. n : \E i \in 1 .. lengths[k] : j = Cumulated(lengths)[k] + i
         /\ \A k \in 1 .. n : \A i \in 1 .. lengths[k] :
              Cumulated(lengths)[k] + i \in 1 .. Cumulated(lengths)[n + 1]
<1> DEFINE sums == Cumulated(lengths)
<1>1. SumsOf(sums, lengths, n) BY RunningSums
<1> HIDE DEF sums
<1>2. \A k \in 1 .. n : /\ sums[k + 1] = sums[k] + lengths[k] /\ sums[k] \in Nat
                        /\ lengths[k] \in Nat
  BY <1>1 DEF SumsOf
<1>3. /\ \A j, k \in 1 .. n + 1 : j <= k => sums[j] <= sums[k]
      /\ \A x \in 1 .. sums[n + 1] : \E k \in 1 .. n : sums[k] < x /\ x <= sums[k + 1]
  <2>1. \A k \in 1 .. n : sums[k] <= sums[k + 1]
    <3> TAKE k \in 1 .. n
    <3> QED BY <1>2
  <2> QED BY <1>1, <2>1, SumsGrow DEF SumsOf
<1>4. ASSUME NEW j \in 1 .. sums[n + 1]
      PROVE  \E k \in 1 .. n : \E i \in 1 .. lengths[k] : j = sums[k] + i
  <2>1. PICK k \in 1 .. n : sums[k] < j /\ j <= sums[k + 1] BY <1>3
  <2>2. /\ sums[k + 1] = sums[k] + lengths[k] /\ sums[k] \in Nat /\ lengths[k] \in Nat
    BY <1>2
  <2>3. j \in Nat BY <1>1 DEF SumsOf
  <2>4. j - sums[k] \in 1 .. lengths[k] /\ j = sums[k] + (j - sums[k]) BY <2>1, <2>2, <2>3
  <2> QED BY <2>4
<1>5. ASSUME NEW k \in 1 .. n, NEW i \in 1 .. lengths[k]
      PROVE  sums[k] + i \in 1 .. sums[n + 1]
  <2>1. sums[k + 1] = sums[k] + lengths[k] /\ sums[k] \in Nat /\ lengths[k] \in Nat
    BY <1>2
  <2>2. sums[k + 1] <= sums[n + 1] BY <1>3
  <2>3. sums[n + 1] \in Nat BY <1>1 DEF SumsOf
  <2> QED BY <2>1, <2>2, <2>3
<1> QED BY <1>4, <1>5 DEF sums

\* What joins the same lists is the same.
LEMMA JoinsUnique ==
  ASSUME NEW n \in Nat, NEW lengths \in [1 .. n -> Nat], NEW lists, NEW s, NEW t,
         Joins(s, lists, lengths, n), Joins(t, lists, lengths, n)
  PROVE  s = t
<1> DEFINE sums == Cumulated(lengths)
<1>1. \A j \in 1 .. sums[n + 1] :
        \E k \in 1 .. n : \E i \in 1 .. lengths[k] : j = sums[k] + i
  BY Located
<1> HIDE DEF sums
<1>2. /\ IsList(s, sums[n + 1]) /\ IsList(t, sums[n + 1])
      /\ \A k \in 1 .. n : \A i \in 1 .. lengths[k] : s[sums[k] + i] = t[sums[k] + i]
  BY DEF Joins, sums
<1>3. \A j \in 1 .. sums[n + 1] : s[j] = t[j] BY <1>1, <1>2
<1> QED BY <1>2, <1>3 DEF IsList

\* Lists of one entry each are joined by the list of the entries.
LEMMA JoinsSingles ==
  ASSUME NEW n \in Nat, NEW lengths, lengths = [k \in 1 .. n |-> 1], NEW lists, NEW s,
         IsList(s, n), \A k \in 1 .. n : s[k] = lists[k][1]
  PROVE  Joins(s, lists, lengths, n)
<1> DEFINE sums == Cumulated(lengths)
<1>1. SumsOf(sums, lengths, n)
  <2>1. lengths \in [1 .. n -> Nat] OBVIOUS
  <2> QED BY <2>1, RunningSums
<1> HIDE DEF sums
<1> DEFINE T == {m \in Nat : m <= n => sums[m + 1] = m}
<1>2. 0 \in T BY <1>1 DEF SumsOf
<1>3. ASSUME NEW m \in Nat, m \in T PROVE m + 1 \in T
  <2> SUFFICES ASSUME m + 1 <= n PROVE sums[(m + 1) + 1] = m + 1 OBVIOUS
  <2>1. sums[m + 1] = m BY <1>3
  <2>2. m + 1 \in 1 .. n OBVIOUS
  <2>3. sums[(m + 1) + 1] = sums[m + 1] + lengths[m + 1] BY <1>1, <2>2 DEF SumsOf
  <2> QED BY <2>1, <2>2, <2>3
<1>4. \A m \in Nat : m \in T
  <2> HIDE DEF T
  <2> QED BY <1>2, <1>3, Induction
<1>5. sums[n + 1] = n BY <1>4
<1>6. \A k \in 1 .. n : \A i \in 1 .. lengths[k] : s[sums[k] + i] = lists[k][i]
  <2> TAKE k \in 1 .. n
  <2>1. k - 1 \in T /\ (k - 1) + 1 = k BY <1>4
  <2>2. k - 1 \in Nat /\ k - 1 <= n OBVIOUS
  <2>3. sums[(k - 1) + 1] = k - 1 BY <2>1, <2>2
  <2>4. sums[k] = k - 1 BY <2>1, <2>3
  <2> TAKE i \in 1 .. lengths[k]
  <2>5. i = 1 OBVIOUS
  <2> QED BY <2>4, <2>5
<1> QED BY <1>5, <1>6 DEF Joins, sums

(***************************************************************************)
(* Slots.                                                                  *)
(***************************************************************************)
\* A quotient by the block size rounds down, by less than a block.
LEMMA DivBounds ==
  ASSUME NEW n \in Nat
  PROVE  /\ n \div BlockSize \in Nat
         /\ n % BlockSize \in 0 .. BlockSize - 1
         /\ n = (n \div BlockSize) * BlockSize + (n % BlockSize)
  BY BlockSizeAssumption

\* A number is the quotient and the remainder of what it makes up with blocks.
LEMMA DivUnique ==
  ASSUME NEW q \in Nat, NEW m \in 0 .. BlockSize - 1
  PROVE  (q * BlockSize + m) \div BlockSize = q /\ (q * BlockSize + m) % BlockSize = m
  BY BlockSizeAssumption

\* The positions of n tokens are in the blocks that n tokens need, the last in the last.
LEMMA PositionInBlocks ==
  ASSUME NEW n \in Nat \ {0}
  PROVE  /\ BlocksFor(n, BlockSize) \in Nat \ {0}
         /\ (n - 1) \div BlockSize + 1 = BlocksFor(n, BlockSize)
         /\ n - (BlocksFor(n, BlockSize) - 1) * BlockSize - 1 = (n - 1) % BlockSize
         /\ \A p \in 0 .. n - 1 : p \div BlockSize + 1 \in 1 .. BlocksFor(n, BlockSize)
<1> DEFINE q == (n - 1) \div BlockSize
           m == (n - 1) % BlockSize
<1>1. n - 1 \in Nat OBVIOUS
<1>2. q \in Nat /\ m \in 0 .. BlockSize - 1 /\ n - 1 = q * BlockSize + m
  BY <1>1, DivBounds
<1>3. BlockSize \in Nat \ {0} BY BlockSizeAssumption
<1> HIDE DEF q, m
<1>4. n + BlockSize - 1 = (q + 1) * BlockSize + m /\ q + 1 \in Nat BY <1>2, <1>3
<1>5. BlocksFor(n, BlockSize) = q + 1
  BY <1>2, <1>4, DivUnique DEF BlocksFor
<1>6. n - ((q + 1) - 1) * BlockSize - 1 = m
  <2>1. (q + 1) - 1 = q /\ q * BlockSize \in Nat BY <1>2, <1>3
  <2> QED BY <1>2, <2>1
<1>7. ASSUME NEW p \in 0 .. n - 1 PROVE p \div BlockSize + 1 \in 1 .. q + 1
  <2>1. p \div BlockSize \in Nat BY DivBounds
  <2>2. p \div BlockSize <= q BY <1>3 DEF q
  <2> QED BY <1>2, <2>1, <2>2
<1> QED BY <1>2, <1>5, <1>6, <1>7 DEF q, m

\* A slot lies in the block that its table has for its position, at the offset of that.
LEMMA SlotLies ==
  ASSUME NEW table, NEW p \in Nat, table[p \div BlockSize + 1] \in Nat
  PROVE  /\ SlotOf(table, p, BlockSize) \in Nat
         /\ SlotOf(table, p, BlockSize) \div BlockSize = table[p \div BlockSize + 1]
         /\ SlotOf(table, p, BlockSize) % BlockSize = p % BlockSize
<1> DEFINE block == table[p \div BlockSize + 1]
           m == p % BlockSize
<1>1. m \in 0 .. BlockSize - 1 BY DivBounds
<1>2. block \in Nat OBVIOUS
<1>3. SlotOf(table, p, BlockSize) = block * BlockSize + m BY DEF SlotOf
<1> HIDE DEF block, m
<1>4. BlockSize \in Nat BY BlockSizeAssumption
<1>5. block * BlockSize \in Nat BY <1>2, <1>4
<1>6. block * BlockSize + m \in Nat BY <1>1, <1>5
<1> QED BY <1>1, <1>2, <1>3, <1>6, DivUnique DEF block, m

\* The slots of the first num_blocks blocks are the first num_blocks * block_size.
LEMMA SlotsOfBlocks ==
  ASSUME NEW n \in Nat, NEW slot \in Nat
  PROVE  slot \in 0 .. n * BlockSize - 1 <=> slot \div BlockSize \in 0 .. n - 1
<1> DEFINE q == slot \div BlockSize
           m == slot % BlockSize
<1>1. q \in Nat /\ m \in 0 .. BlockSize - 1 /\ slot = q * BlockSize + m BY DivBounds
<1>2. BlockSize \in Nat \ {0} BY BlockSizeAssumption
<1> HIDE DEF q, m
<1>3. ASSUME q < n PROVE slot < n * BlockSize
  <2>1. (q + 1) * BlockSize <= n * BlockSize BY <1>1, <1>2, <1>3
  <2>2. (q + 1) * BlockSize = q * BlockSize + BlockSize BY <1>1, <1>2
  <2>3. q * BlockSize \in Nat /\ n * BlockSize \in Nat BY <1>1, <1>2
  <2> QED BY <1>1, <1>2, <2>1, <2>2, <2>3
<1>4. ASSUME n <= q PROVE n * BlockSize <= slot
  <2>1. n * BlockSize <= q * BlockSize BY <1>1, <1>2, <1>4
  <2>2. q * BlockSize \in Nat /\ n * BlockSize \in Nat BY <1>1, <1>2
  <2> QED BY <1>1, <2>1, <2>2
<1>5. n * BlockSize \in Nat BY <1>2
<1> QED BY <1>1, <1>3, <1>4, <1>5 DEF q

\* Of a request in decode, the slot of the newest token.
LEMMA DecodeSlot ==
  ASSUME NEW seq, seq.numTokens \in Nat \ {0}, seq.blockSize = BlockSize,
         Len(seq.blockTable) = BlocksFor(seq.numTokens, BlockSize),
         \A i \in 1 .. Len(seq.blockTable) : seq.blockTable[i] \in Nat
  PROVE  Last(seq.blockTable) * BlockSize
           + (seq.numTokens - (BlocksFor(seq.numTokens, seq.blockSize) - 1) * seq.blockSize) - 1
         = SlotOf(seq.blockTable, seq.numTokens - 1, BlockSize)
<1> DEFINE n == seq.numTokens
           num == BlocksFor(n, BlockSize)
<1>1. /\ num \in Nat \ {0} /\ (n - 1) \div BlockSize + 1 = num
      /\ n - (num - 1) * BlockSize - 1 = (n - 1) % BlockSize
  BY PositionInBlocks
<1>2. Last(seq.blockTable) = seq.blockTable[num] BY DEF Last
<1>3. seq.blockTable[num] \in Nat
  <2> HIDE DEF num
  <2>1. num \in 1 .. num BY <1>1
  <2> QED BY <2>1 DEF num
<1>4. BlocksFor(seq.numTokens, seq.blockSize) = num OBVIOUS
<1> DEFINE last == seq.blockTable[num] * BlockSize
           before == (num - 1) * BlockSize
<1>5. last \in Nat
  <2> HIDE DEF num
  <2> QED BY <1>3, BlockSizeAssumption
<1>6. before \in Int
  <2> HIDE DEF num
  <2> QED BY <1>1, BlockSizeAssumption
<1>7. SlotOf(seq.blockTable, n - 1, BlockSize) = last + ((n - 1) % BlockSize)
  BY <1>1 DEF SlotOf
<1>8. n - before - 1 = (n - 1) % BlockSize BY <1>1
<1>9. n \in Nat OBVIOUS
<1>10. last + (n - before) - 1 = last + (n - before - 1)
  <2> HIDE DEF last, before, n
  <2> QED BY <1>5, <1>6, <1>9
<1> QED BY <1>2, <1>4, <1>7, <1>8, <1>10

(***************************************************************************)
(* The inputs of a prefill.                                                *)
(***************************************************************************)
\* The smaller of two numbers.
LEMMA MinOfTwo ==
  ASSUME NEW m \in Nat, NEW n \in Nat
  PROVE  Min({m, n}) = IF m < n THEN m ELSE n
<1>1. {m, n} \in SUBSET Nat /\ {m, n} # {} OBVIOUS
<1>2. Min({m, n}) \in {m, n} /\ \A y \in {m, n} : Min({m, n}) <= y
  BY <1>1, Smallest
<1> QED BY <1>2

\* The entries of a subsequence.
LEMMA SubSeqIs ==
  ASSUME NEW s, NEW m \in Int, NEW n \in Int
  PROVE  SubSeq(s, m, n) = [i \in 1 .. (1 + n - m) |-> s[i + m - 1]]
OBVIOUS

\* The row of position p of a request, and the rows of its first n positions.
RowAt(seq, p) == [token |-> seq.tokenIds[p + 1], pos |-> p]
PrefixRows(seq, n) == [i \in 1 .. n |-> RowAt(seq, i - 1)]
ScheduledRows(seq) == [i \in 1 .. seq.numScheduled |-> RowAt(seq, seq.numCached + i - 1)]

\* What the inputs of a batch are computed from.
Computable(seq) ==
  /\ Len(seq.tokenIds) \in Nat /\ seq.numCached \in Nat /\ seq.numScheduled \in Nat \ {0}
  /\ seq.blockSize = BlockSize
Ends(seqs) == [k \in DOMAIN seqs |-> seqs[k].numCached + seqs[k].numScheduled]
Lengths(seqs) == [k \in DOMAIN seqs |-> seqs[k].numScheduled]

\* The slice of the scheduled tokens is as long as they are many exactly when it is
\* not cut off.
SliceLen(seq) ==
  LET end == seq.numCached + seq.numScheduled
  IN  IF end <= Len(seq.tokenIds) THEN seq.numScheduled
      ELSE IF seq.numCached < Len(seq.tokenIds) THEN Len(seq.tokenIds) - seq.numCached ELSE 0

\* What a slice of the scheduled tokens holds.
LEMMA SliceIs ==
  ASSUME NEW seq, Computable(seq)
  PROVE  LET slice == Slice(seq, seq.numCached, seq.numCached + seq.numScheduled)
         IN  /\ SliceLen(seq) \in 0 .. seq.numScheduled
             /\ SliceLen(seq) = seq.numScheduled =>
                  seq.numCached + seq.numScheduled <= Len(seq.tokenIds)
             /\ IsList(slice, SliceLen(seq))
             /\ \A i \in 1 .. SliceLen(seq) : slice[i] = seq.tokenIds[seq.numCached + i]
<1> DEFINE len == Len(seq.tokenIds)
           start == seq.numCached
           num == seq.numScheduled
           cut == Min({start + num, len})
           slice == Slice(seq, start, start + num)
<1>1. len \in Nat /\ start \in Nat /\ num \in Nat \ {0} BY DEF Computable
<1> DEFINE from == start + 1
<1>2. slice = [i \in 1 .. (1 + cut - from) |-> seq.tokenIds[i + from - 1]]
  <2>1. cut \in Int /\ from \in Int
    <3> HIDE DEF len, start, num
    <3> QED BY <1>1, MinOfTwo
  <2>2. slice = SubSeq(seq.tokenIds, from, cut) BY DEF Slice
  <2> HIDE DEF cut, slice, from
  <2> QED BY <2>1, <2>2, SubSeqIs
<1>3. SliceLen(seq) = IF start + num <= len THEN num
                      ELSE IF start < len THEN len - start ELSE 0
  BY DEF SliceLen
<1> HIDE DEF len, start, num, slice
<1>4. cut = IF start + num < len THEN start + num ELSE len BY <1>1, MinOfTwo
<1> HIDE DEF cut
<1>5. 1 .. (1 + cut - from) = 1 .. SliceLen(seq) BY <1>1, <1>3, <1>4
<1>6. \A i \in 1 .. SliceLen(seq) : i + from - 1 = start + i BY <1>1
<1>7. SliceLen(seq) \in 0 .. num /\ (SliceLen(seq) = num => start + num <= len)
  BY <1>1, <1>3
<1> HIDE DEF from
<1>8. slice = [i \in 1 .. SliceLen(seq) |-> seq.tokenIds[start + i]]
  BY <1>2, <1>5, <1>6
<1>9. IsList(slice, SliceLen(seq)) BY <1>8 DEF IsList
<1> QED BY <1>7, <1>8, <1>9 DEF slice, start, num, len

\* The parts of BuildPrefillMetadata.
LEMMA PrefillParts ==
  ASSUME NEW n \in Nat, NEW seqs, IsList(seqs, n), \A k \in 1 .. n : Computable(seqs[k])
  PROVE  LET meta == BuildPrefillMetadata(seqs)
             slices == [k \in 1 .. n |->
               Slice(seqs[k], seqs[k].numCached, seqs[k].numCached + seqs[k].numScheduled)]
             sliceLens == [k \in 1 .. n |-> SliceLen(seqs[k])]
         IN  /\ Lengths(seqs) \in [1 .. n -> Nat] /\ sliceLens \in [1 .. n -> Nat]
             /\ Ends(seqs) \in [1 .. n -> Nat]
             /\ Joins(meta.inputIds, slices, sliceLens, n)
             /\ Joins(meta.positions, [k \in 1 .. n |-> Scheduled(seqs[k])], Lengths(seqs), n)
             /\ meta.cuSeqlensQ = Cumulated(Lengths(seqs))
             /\ meta.cuSeqlensK = Cumulated(Ends(seqs))
             /\ meta.needBlockTables
                  <=> Cumulated(Lengths(seqs))[n + 1] < Cumulated(Ends(seqs))[n + 1]
<1> DEFINE meta == BuildPrefillMetadata(seqs)
           slices == [k \in 1 .. n |->
             Slice(seqs[k], seqs[k].numCached, seqs[k].numCached + seqs[k].numScheduled)]
           sliceLens == [k \in 1 .. n |-> SliceLen(seqs[k])]
           poss == [k \in 1 .. n |-> Scheduled(seqs[k])]
<1>1. DOMAIN seqs = 1 .. n BY DEF IsList
<1>2. Lengths(seqs) \in [1 .. n -> Nat] /\ Ends(seqs) \in [1 .. n -> Nat]
  BY <1>1 DEF Lengths, Ends, Computable
<1>3. sliceLens \in [1 .. n -> Nat]
  <2>1. \A k \in 1 .. n : SliceLen(seqs[k]) \in Nat
    <3> TAKE k \in 1 .. n
    <3>1. SliceLen(seqs[k]) \in 0 .. seqs[k].numScheduled BY SliceIs
    <3> QED BY <3>1
  <2> QED BY <2>1
<1>4. /\ meta.inputIds = FlattenSeq(slices)
      /\ meta.positions = FlattenSeq(poss)
      /\ meta.cuSeqlensQ = Cumulated(Lengths(seqs))
      /\ meta.cuSeqlensK = Cumulated(Ends(seqs))
      /\ meta.needBlockTables = (Last(Cumulated(Lengths(seqs))) < Last(Cumulated(Ends(seqs))))
  BY <1>1 DEF BuildPrefillMetadata, Lengths, Ends
<1>5. Joins(FlattenSeq(slices), slices, sliceLens, n)
  <2>1. IsList(slices, n) BY DEF IsList
  <2>2. \A k \in 1 .. n : IsList(slices[k], sliceLens[k])
    <3> TAKE k \in 1 .. n
    <3>1. IsList(Slice(seqs[k], seqs[k].numCached, seqs[k].numCached + seqs[k].numScheduled),
                 SliceLen(seqs[k]))
      BY SliceIs
    <3> QED BY <3>1
  <2> HIDE DEF slices, sliceLens
  <2> QED BY <1>3, <2>1, <2>2, FlattenJoins
<1>6. Joins(FlattenSeq(poss), poss, Lengths(seqs), n)
  <2>1. IsList(poss, n) BY DEF IsList
  <2>2. \A k \in 1 .. n : IsList(poss[k], Lengths(seqs)[k])
    BY <1>1 DEF IsList, Scheduled, Lengths
  <2> HIDE DEF poss
  <2> QED BY <1>2, <2>1, <2>2, FlattenJoins
<1>7. /\ Last(Cumulated(Lengths(seqs))) = Cumulated(Lengths(seqs))[n + 1]
      /\ Last(Cumulated(Ends(seqs))) = Cumulated(Ends(seqs))[n + 1]
  <2>1. SumsOf(Cumulated(Lengths(seqs)), Lengths(seqs), n) BY <1>2, RunningSums
  <2>2. SumsOf(Cumulated(Ends(seqs)), Ends(seqs), n) BY <1>2, RunningSums
  <2> QED BY <2>1, <2>2 DEF SumsOf
<1> HIDE DEF meta, slices, sliceLens, poss
<1> QED BY <1>2, <1>3, <1>4, <1>5, <1>6, <1>7 DEF meta, slices, sliceLens, poss

\* The length of a list.
LEMMA ListLen ==
  ASSUME NEW m \in Nat, NEW s, IsList(s, m)
  PROVE  Len(s) = m /\ DOMAIN s = 1 .. m
BY DEF IsList

\* A joined list is as long as its parts together.
LEMMA JoinsLen ==
  ASSUME NEW n \in Nat, NEW lengths \in [1 .. n -> Nat], NEW lists, NEW s,
         Joins(s, lists, lengths, n)
  PROVE  /\ Cumulated(lengths)[n + 1] \in Nat
         /\ Len(s) = Cumulated(lengths)[n + 1] /\ DOMAIN s = 1 .. Cumulated(lengths)[n + 1]
<1>1. SumsOf(Cumulated(lengths), lengths, n) BY RunningSums
<1>2. Cumulated(lengths)[n + 1] \in Nat BY <1>1 DEF SumsOf
<1>3. IsList(s, Cumulated(lengths)[n + 1]) BY DEF Joins
<1> QED BY <1>2, <1>3, ListLen

\* If there are as many input ids as positions, no slice was cut off, and the input rows
\* are those of the scheduled positions of every request.
LEMMA PrefillRows ==
  ASSUME NEW n \in Nat, NEW seqs, IsList(seqs, n), \A k \in 1 .. n : Computable(seqs[k]),
         NEW meta, meta = BuildPrefillMetadata(seqs),
         Len(meta.inputIds) = Len(meta.positions)
  PROVE  /\ \A k \in 1 .. n : seqs[k].numCached + seqs[k].numScheduled <= Len(seqs[k].tokenIds)
         /\ Joins(InputRows(meta.inputIds, meta.positions),
                  [k \in 1 .. n |-> ScheduledRows(seqs[k])], Lengths(seqs), n)
<1> DEFINE slices == [k \in 1 .. n |->
             Slice(seqs[k], seqs[k].numCached, seqs[k].numCached + seqs[k].numScheduled)]
           sliceLens == [k \in 1 .. n |-> SliceLen(seqs[k])]
           poss == [k \in 1 .. n |-> Scheduled(seqs[k])]
           sums == Cumulated(Lengths(seqs))
           rows == InputRows(meta.inputIds, meta.positions)
<1>1. /\ Lengths(seqs) \in [1 .. n -> Nat] /\ sliceLens \in [1 .. n -> Nat]
      /\ Joins(meta.inputIds, slices, sliceLens, n)
      /\ Joins(meta.positions, poss, Lengths(seqs), n)
  BY PrefillParts
<1>2. \A k \in 1 .. n : Lengths(seqs)[k] = seqs[k].numScheduled
  BY DEF Lengths, IsList
<1>3. \A k \in 1 .. n : /\ SliceLen(seqs[k]) \in 0 .. seqs[k].numScheduled
                        /\ SliceLen(seqs[k]) = seqs[k].numScheduled =>
                             seqs[k].numCached + seqs[k].numScheduled <= Len(seqs[k].tokenIds)
                        /\ \A i \in 1 .. SliceLen(seqs[k]) :
                             slices[k][i] = seqs[k].tokenIds[seqs[k].numCached + i]
  <2> TAKE k \in 1 .. n
  <2>1. Computable(seqs[k]) OBVIOUS
  <2> QED BY <2>1, SliceIs
<1>4. \A k \in 1 .. n : sliceLens[k] = SliceLen(seqs[k]) OBVIOUS
<1>5. \A k \in 1 .. n : sliceLens[k] <= Lengths(seqs)[k]
  BY <1>2, <1>3, <1>4 DEF Computable
<1> HIDE DEF sliceLens, slices
<1>6. sliceLens = Lengths(seqs)
  <2>1. Cumulated(sliceLens)[n + 1] = sums[n + 1]
    <3>1. Len(meta.inputIds) = Cumulated(sliceLens)[n + 1] BY <1>1, JoinsLen
    <3>2. Len(meta.positions) = sums[n + 1]
      <4> HIDE DEF poss
      <4> QED BY <1>1, JoinsLen
    <3> QED BY <3>1, <3>2
  <2> QED BY <1>1, <1>5, <2>1, SumsCompared
<1>7. \A k \in 1 .. n : SliceLen(seqs[k]) = seqs[k].numScheduled BY <1>2, <1>4, <1>6
<1>8. IsList(rows, sums[n + 1])
  <2>1. DOMAIN meta.inputIds = 1 .. sums[n + 1] BY <1>1, <1>6, JoinsLen
  <2> QED BY <2>1 DEF IsList, InputRows
<1>9. ASSUME NEW k \in 1 .. n, NEW i \in 1 .. Lengths(seqs)[k]
      PROVE  rows[sums[k] + i] = ScheduledRows(seqs[k])[i]
  <2>1. DOMAIN meta.inputIds = 1 .. sums[n + 1] BY <1>1, <1>6, JoinsLen
  <2>2. sums[k] + i \in 1 .. sums[n + 1] BY <1>1, Located
  <2>3. rows[sums[k] + i] =
          [token |-> meta.inputIds[sums[k] + i], pos |-> meta.positions[sums[k] + i]]
    <3> HIDE DEF sums
    <3> QED BY <2>1, <2>2 DEF InputRows
  <2>4. i \in 1 .. seqs[k].numScheduled /\ i \in 1 .. SliceLen(seqs[k]) BY <1>2, <1>7
  <2>5. meta.inputIds[sums[k] + i] = seqs[k].tokenIds[seqs[k].numCached + i]
    BY <1>1, <1>3, <1>6, <2>4 DEF Joins
  <2>6. meta.positions[sums[k] + i] = seqs[k].numCached + i - 1
    <3>1. meta.positions[sums[k] + i] = poss[k][i] BY <1>1 DEF Joins
    <3> QED BY <2>4, <3>1 DEF Scheduled
  <2>7. ScheduledRows(seqs[k])[i] =
          [token |-> seqs[k].tokenIds[(seqs[k].numCached + i - 1) + 1],
           pos |-> seqs[k].numCached + i - 1]
    BY <2>4 DEF ScheduledRows, RowAt
  <2>8. (seqs[k].numCached + i - 1) + 1 = seqs[k].numCached + i
    BY <1>2 DEF Computable
  <2> HIDE DEF rows, sums
  <2> QED BY <2>3, <2>5, <2>6, <2>7, <2>8
<1>10. \A k \in 1 .. n : \A i \in 1 .. Lengths(seqs)[k] :
         rows[sums[k] + i] = [l \in 1 .. n |-> ScheduledRows(seqs[l])][k][i]
  BY <1>9
<1> HIDE DEF rows
<1>11. Joins(rows, [k \in 1 .. n |-> ScheduledRows(seqs[k])], Lengths(seqs), n)
  BY <1>8, <1>10 DEF Joins
<1>12. \A k \in 1 .. n : seqs[k].numCached + seqs[k].numScheduled <= Len(seqs[k].tokenIds)
  BY <1>3, <1>7
<1> QED BY <1>11, <1>12 DEF rows

\* The slots of a prefill of requests that have blocks.
SlotsOf(seq) ==
  [i \in 1 .. seq.numScheduled |-> SlotOf(seq.blockTable, seq.numCached + i - 1, BlockSize)]

\* The slot mapping of a prefill joins the slots of its requests.
LEMMA PrefillSlots ==
  ASSUME NEW n \in Nat, NEW seqs, IsList(seqs, n), \A k \in 1 .. n : Computable(seqs[k]),
         \A k \in 1 .. n : seqs[k].blockTable # << >>
  PROVE  Joins(BuildPrefillMetadata(seqs).slotMapping, [k \in 1 .. n |-> SlotsOf(seqs[k])],
               Lengths(seqs), n)
<1> DEFINE slots == [k \in 1 .. n |-> SlotsOf(seqs[k])]
<1>1. DOMAIN seqs = 1 .. n BY DEF IsList
<1>2. \A k \in 1 .. n : ScheduledSlots(seqs[k]) = SlotsOf(seqs[k])
  BY DEF ScheduledSlots, SlotsOf, Computable
<1>3. BuildPrefillMetadata(seqs).slotMapping = FlattenSeq(slots)
  <2>1. [k \in DOMAIN seqs |-> ScheduledSlots(seqs[k])] = slots BY <1>1, <1>2
  <2> QED BY <2>1 DEF BuildPrefillMetadata
<1>4. Lengths(seqs) \in [1 .. n -> Nat] BY PrefillParts
<1>5. IsList(slots, n) BY DEF IsList
<1>6. \A k \in 1 .. n : IsList(slots[k], Lengths(seqs)[k])
  BY <1>1 DEF IsList, SlotsOf, Lengths
<1> HIDE DEF slots
<1> QED BY <1>3, <1>4, <1>5, <1>6, FlattenJoins DEF slots

\* What every scheduled row of a request attends to.
ScheduledReads(seq) == [q \in 1 .. seq.numScheduled |-> PrefixRows(seq, seq.numCached + q)]

\* The first n positions as the cache holds them behind a table.
Held(cache, table, seq, n) ==
  \A p \in 0 .. n - 1 : cache[SlotOf(table, p, BlockSize)] = RowAt(seq, p)

\* What is held behind a table is what is read through it.
LEMMA HeldIsRead ==
  ASSUME NEW cache, NEW table, NEW seq, NEW n \in Nat, Held(cache, table, seq, n)
  PROVE  CachedRows(cache, table, n) = PrefixRows(seq, n)
<1>1. \A i \in 1 .. n : cache[SlotOf(table, i - 1, BlockSize)] = RowAt(seq, i - 1)
  <2> TAKE i \in 1 .. n
  <2>1. i - 1 \in 0 .. n - 1 OBVIOUS
  <2> QED BY <2>1 DEF Held
<1> QED BY <1>1 DEF CachedRows, PrefixRows

\* Every row of a prefill attends to its own request up to itself: to the rows of the
\* batch if no request in it has anything cached, else to what the cache holds.
LEMMA VarlenReads ==
  ASSUME NEW n \in Nat, NEW seqs, IsList(seqs, n), \A k \in 1 .. n : Computable(seqs[k]),
         NEW meta, meta = BuildPrefillMetadata(seqs), NEW rows, NEW cache, NEW tables,
         Joins(rows, [k \in 1 .. n |-> ScheduledRows(seqs[k])], Lengths(seqs), n),
         meta.needBlockTables => \A k \in 1 .. n :
           Held(cache, tables[k], seqs[k], seqs[k].numCached + seqs[k].numScheduled)
  PROVE  Joins(VarlenAttention(meta, rows, cache, tables),
               [k \in 1 .. n |-> ScheduledReads(seqs[k])], Lengths(seqs), n)
<1> DEFINE cuQ == Cumulated(Lengths(seqs))
           cuK == Cumulated(Ends(seqs))
           reads == [k \in 1 .. n |-> ScheduledReads(seqs[k])]
<1>1. /\ Lengths(seqs) \in [1 .. n -> Nat] /\ Ends(seqs) \in [1 .. n -> Nat]
      /\ meta.cuSeqlensQ = cuQ /\ meta.cuSeqlensK = cuK
      /\ meta.needBlockTables <=> cuQ[n + 1] < cuK[n + 1]
  BY PrefillParts
<1>2. SumsOf(cuQ, Lengths(seqs), n) /\ SumsOf(cuK, Ends(seqs), n) BY <1>1, RunningSums
<1> HIDE DEF cuQ, cuK, reads
<1>3. \A k \in 1 .. n :
        /\ cuQ[k + 1] - cuQ[k] = seqs[k].numScheduled
        /\ cuK[k + 1] - cuK[k] = seqs[k].numCached + seqs[k].numScheduled
        /\ seqs[k].numCached \in Nat /\ seqs[k].numScheduled \in Nat
        /\ cuQ[k] \in Nat /\ cuK[k] \in Nat
        /\ Lengths(seqs)[k] = seqs[k].numScheduled
        /\ Ends(seqs)[k] = seqs[k].numCached + seqs[k].numScheduled
  <2> TAKE k \in 1 .. n
  <2>1. /\ Lengths(seqs)[k] = seqs[k].numScheduled
        /\ Ends(seqs)[k] = seqs[k].numCached + seqs[k].numScheduled
        /\ seqs[k].numCached \in Nat /\ seqs[k].numScheduled \in Nat
    BY DEF Lengths, Ends, IsList, Computable
  <2>2. /\ cuQ[k + 1] = cuQ[k] + Lengths(seqs)[k] /\ cuQ[k] \in Nat
        /\ cuK[k + 1] = cuK[k] + Ends(seqs)[k] /\ cuK[k] \in Nat
    BY <1>2 DEF SumsOf
  <2> QED BY <2>1, <2>2
<1> DEFINE Keys(k, q) == IF meta.needBlockTables
                         THEN CachedRows(cache, tables[k], seqs[k].numCached + q)
                         ELSE SubSeq(rows, cuK[k] + 1, cuK[k] + (seqs[k].numCached + q))
           lists == [k \in 1 .. n |-> [q \in 1 .. seqs[k].numScheduled |-> Keys(k, q)]]
<1>4. VarlenAttention(meta, rows, cache, tables) = FlattenSeq(lists)
  <2>1. Len(meta.cuSeqlensQ) - 1 = n BY <1>1, <1>2 DEF SumsOf
  <2>2. \A k \in 1 .. n : \A q \in 1 .. seqs[k].numScheduled :
          VarlenMask(cuQ[k + 1] - cuQ[k], cuK[k + 1] - cuK[k], q) = seqs[k].numCached + q
    <3> TAKE k \in 1 .. n
    <3> TAKE q \in 1 .. seqs[k].numScheduled
    <3>1. cuK[k + 1] - cuK[k] - (cuQ[k + 1] - cuQ[k]) + q = seqs[k].numCached + q
      BY <1>3, SMTT(30)
    <3> QED BY <3>1 DEF VarlenMask
  <2> DEFINE List(k) ==
        LET numQ == meta.cuSeqlensQ[k + 1] - meta.cuSeqlensQ[k]
            numK == meta.cuSeqlensK[k + 1] - meta.cuSeqlensK[k]
        IN  [q \in 1 .. numQ |->
               LET m == VarlenMask(numQ, numK, q)
               IN  IF meta.needBlockTables THEN CachedRows(cache, tables[k], m)
                   ELSE SubSeq(rows, meta.cuSeqlensK[k] + 1, meta.cuSeqlensK[k] + m)]
  <2>3. VarlenAttention(meta, rows, cache, tables) = FlattenSeq([k \in 1 .. n |-> List(k)])
    BY <2>1 DEF VarlenAttention
  <2>4. ASSUME NEW k \in 1 .. n PROVE List(k) = lists[k]
    <3>1. List(k) = [q \in 1 .. cuQ[k + 1] - cuQ[k] |->
                       IF meta.needBlockTables
                       THEN CachedRows(cache, tables[k],
                              VarlenMask(cuQ[k + 1] - cuQ[k], cuK[k + 1] - cuK[k], q))
                       ELSE SubSeq(rows, cuK[k] + 1, cuK[k] +
                              VarlenMask(cuQ[k + 1] - cuQ[k], cuK[k + 1] - cuK[k], q))]
      BY <1>1
    <3>2. cuQ[k + 1] - cuQ[k] = seqs[k].numScheduled BY <1>3
    <3>3. lists[k] = [q \in 1 .. seqs[k].numScheduled |-> Keys(k, q)] OBVIOUS
    <3> HIDE DEF List, lists
    <3> QED BY <2>2, <3>1, <3>2, <3>3
  <2> HIDE DEF List
  <2>5. [k \in 1 .. n |-> List(k)] = lists BY <2>4
  <2> QED BY <2>3, <2>5
<1>5. ASSUME NEW k \in 1 .. n, NEW q \in 1 .. seqs[k].numScheduled
      PROVE  Keys(k, q) = PrefixRows(seqs[k], seqs[k].numCached + q)
  <2>1. seqs[k].numCached + q \in 1 .. seqs[k].numCached + seqs[k].numScheduled BY <1>3
  <2>2. CASE meta.needBlockTables
    <3>1. Held(cache, tables[k], seqs[k], seqs[k].numCached + q)
      <4>1. Held(cache, tables[k], seqs[k], seqs[k].numCached + seqs[k].numScheduled) BY <2>2
      <4>2. 0 .. (seqs[k].numCached + q) - 1
              \subseteq 0 .. (seqs[k].numCached + seqs[k].numScheduled) - 1
        BY <1>3, <2>1, SMTT(30)
      <4> QED BY <4>1, <4>2 DEF Held
    <3>2. seqs[k].numCached + q \in Nat BY <1>3, <2>1
    <3> QED BY <2>2, <3>1, <3>2, HeldIsRead
  <2>3. CASE ~meta.needBlockTables
    <3>1. \A l \in 1 .. n : Lengths(seqs)[l] <= Ends(seqs)[l]
      <4> TAKE l \in 1 .. n
      <4>1. /\ seqs[l].numCached \in Nat /\ seqs[l].numScheduled \in Nat
            /\ Lengths(seqs)[l] = seqs[l].numScheduled
            /\ Ends(seqs)[l] = seqs[l].numCached + seqs[l].numScheduled
        BY <1>3
      <4> QED BY <4>1
    <3>2. cuQ[n + 1] <= cuK[n + 1] BY <1>1, <3>1, SumsCompared DEF cuQ, cuK
    <3>3. cuQ[n + 1] = cuK[n + 1] BY <1>1, <1>2, <2>3, <3>2 DEF SumsOf
    <3>4. Lengths(seqs) = Ends(seqs) BY <1>1, <3>1, <3>3, SumsCompared DEF cuQ, cuK
    <3>5. cuQ = cuK BY <3>4 DEF cuQ, cuK
    <3>6. seqs[k].numCached = 0
      <4>1. Lengths(seqs)[k] = Ends(seqs)[k] BY <3>4
      <4> QED BY <1>3, <4>1
    <3>7. q \in Nat /\ cuQ[k] \in Nat /\ q <= seqs[k].numScheduled BY <1>3
    <3> DEFINE a == cuQ[k] + 1
               b == cuQ[k] + q
    <3>8. a \in Int /\ b \in Int /\ 1 .. (1 + b - a) = 1 .. q BY <3>7
    <3>9. \A i \in 1 .. q : rows[i + a - 1] = RowAt(seqs[k], i - 1)
      <4> TAKE i \in 1 .. q
      <4>1. i \in 1 .. seqs[k].numScheduled /\ i \in 1 .. Lengths(seqs)[k] BY <1>3, <3>7
      <4>2. rows[cuQ[k] + i] = ScheduledRows(seqs[k])[i]
        <5>1. rows[cuQ[k] + i] = [l \in 1 .. n |-> ScheduledRows(seqs[l])][k][i]
          BY <4>1 DEF Joins, cuQ
        <5> QED BY <5>1
      <4>3. ScheduledRows(seqs[k])[i] = RowAt(seqs[k], 0 + i - 1)
        BY <3>6, <4>1 DEF ScheduledRows
      <4>4. i + a - 1 = cuQ[k] + i /\ 0 + i - 1 = i - 1 BY <3>7
      <4> QED BY <4>2, <4>3, <4>4
    <3> HIDE DEF a, b
    <3>10. SubSeq(rows, a, b) = [i \in 1 .. (1 + b - a) |-> rows[i + a - 1]]
      BY <3>8, SubSeqIs
    <3>11. SubSeq(rows, a, b) = PrefixRows(seqs[k], q)
      BY <3>8, <3>9, <3>10 DEF PrefixRows
    <3>12. Keys(k, q) = SubSeq(rows, a, b) /\ seqs[k].numCached + q = q
      <4>1. seqs[k].numCached + q = q BY <3>6, <3>7
      <4> QED BY <2>3, <3>5, <4>1 DEF a, b
    <3> HIDE DEF Keys
    <3> QED BY <3>11, <3>12
  <2> QED BY <2>2, <2>3
<1> HIDE DEF Keys
<1>6. lists = reads BY <1>5 DEF reads, ScheduledReads
<1>7. IsList(reads, n) BY DEF IsList, reads
<1>8. \A k \in 1 .. n : IsList(reads[k], Lengths(seqs)[k])
  BY <1>3 DEF IsList, reads, ScheduledReads
<1> HIDE DEF lists
<1>9. Joins(FlattenSeq(reads), reads, Lengths(seqs), n) BY <1>1, <1>7, <1>8, FlattenJoins
<1> QED BY <1>4, <1>6, <1>9 DEF reads

(***************************************************************************)
(* The inputs of a decode.                                                 *)
(***************************************************************************)
\* A request in decode: all but its newest token are cached, and it has all blocks.
Decodes(seq) ==
  /\ Computable(seq) /\ seq.numScheduled = 1
  /\ seq.numTokens = seq.numCached + 1
  /\ Len(seq.blockTable) = BlocksFor(seq.numTokens, BlockSize)
  /\ \A i \in 1 .. Len(seq.blockTable) : seq.blockTable[i] \in Nat

\* The rows and slots of a decode are those of the newest tokens.
LEMMA DecodeParts ==
  ASSUME NEW n \in Nat, NEW seqs, IsList(seqs, n), \A k \in 1 .. n : Decodes(seqs[k]),
         NEW meta, meta = BuildDecodeMetadata(seqs)
  PROVE  /\ IsList(meta.inputIds, n) /\ IsList(meta.positions, n)
         /\ IsList(meta.slotMapping, n) /\ IsList(meta.contextLens, n)
         /\ \A k \in 1 .. n :
              /\ meta.inputIds[k] = seqs[k].lastToken
              /\ meta.positions[k] = seqs[k].numCached
              /\ meta.contextLens[k] = seqs[k].numCached + 1
              /\ meta.slotMapping[k] = SlotOf(seqs[k].blockTable, seqs[k].numCached, BlockSize)
<1>1. DOMAIN seqs = 1 .. n BY DEF IsList
<1>2. ASSUME NEW k \in 1 .. n
      PROVE  Last(seqs[k].blockTable) * BlockSize
               + (seqs[k].numTokens - (BlocksFor(seqs[k].numTokens, seqs[k].blockSize) - 1)
                                        * seqs[k].blockSize) - 1
             = SlotOf(seqs[k].blockTable, seqs[k].numCached, BlockSize)
  <2>1. /\ seqs[k].numTokens \in Nat \ {0} /\ seqs[k].numTokens - 1 = seqs[k].numCached
        /\ seqs[k].blockSize = BlockSize
    BY DEF Decodes, Computable
  <2>2. /\ Len(seqs[k].blockTable) = BlocksFor(seqs[k].numTokens, BlockSize)
        /\ \A i \in 1 .. Len(seqs[k].blockTable) : seqs[k].blockTable[i] \in Nat
    BY DEF Decodes
  <2>3. Last(seqs[k].blockTable) * BlockSize
          + (seqs[k].numTokens - (BlocksFor(seqs[k].numTokens, seqs[k].blockSize) - 1)
                                   * seqs[k].blockSize) - 1
        = SlotOf(seqs[k].blockTable, seqs[k].numTokens - 1, BlockSize)
    BY <2>1, <2>2, DecodeSlot
  <2> QED BY <2>1, <2>3
<1>3. \A k \in 1 .. n : seqs[k].numTokens - 1 = seqs[k].numCached
  BY DEF Decodes, Computable
<1>4. \A k \in 1 .. n :
         /\ meta.inputIds[k] = seqs[k].lastToken
         /\ meta.positions[k] = seqs[k].numTokens - 1
         /\ meta.contextLens[k] = seqs[k].numTokens
         /\ meta.slotMapping[k] = Last(seqs[k].blockTable) * BlockSize
               + (seqs[k].numTokens - (BlocksFor(seqs[k].numTokens, seqs[k].blockSize) - 1)
                                        * seqs[k].blockSize) - 1
  BY <1>1 DEF BuildDecodeMetadata
<1>5. \A k \in 1 .. n : seqs[k].numTokens = seqs[k].numCached + 1 BY DEF Decodes
<1>6. /\ IsList(meta.inputIds, n) /\ IsList(meta.positions, n)
      /\ IsList(meta.slotMapping, n) /\ IsList(meta.contextLens, n)
  BY <1>1 DEF BuildDecodeMetadata, IsList
<1> QED BY <1>2, <1>3, <1>4, <1>5, <1>6

\* Block tables, filled up at their ends to the same width.
PaddedTo(tables, seqs, n, width) ==
  /\ IsList(tables, n)
  /\ \A k \in 1 .. n :
       /\ IsList(tables[k], width)
       /\ Len(seqs[k].blockTable) <= width
       /\ \A c \in 1 .. Len(seqs[k].blockTable) : tables[k][c] = seqs[k].blockTable[c]

\* The table of a request is padded at its end.
LEMMA PaddedTables ==
  ASSUME NEW n \in Nat \ {0}, NEW seqs, IsList(seqs, n),
         \A k \in 1 .. n : Len(seqs[k].blockTable) \in Nat
  PROVE  \E width \in Nat : PaddedTo(BuildBlockTables(seqs), seqs, n, width)
<1> DEFINE S == {Len(seqs[k].blockTable) : k \in DOMAIN seqs}
           width == Max(S)
<1>1. DOMAIN seqs = 1 .. n BY DEF IsList
<1>2. S \in SUBSET Nat /\ S # {}
  <2>1. 1 \in 1 .. n OBVIOUS
  <2> QED BY <1>1, <2>1
<1>3. \E b \in Nat : \A x \in S : x <= b
  <2> DEFINE T == {m \in Nat : m <= n =>
               \E b \in Nat : \A k \in 1 .. m : Len(seqs[k].blockTable) <= b}
  <2>1. 0 \in T OBVIOUS
  <2>2. ASSUME NEW m \in Nat, m \in T PROVE m + 1 \in T
    <3> SUFFICES ASSUME m + 1 <= n
                 PROVE  \E b \in Nat : \A k \in 1 .. m + 1 : Len(seqs[k].blockTable) <= b
      OBVIOUS
    <3>1. PICK b \in Nat : \A k \in 1 .. m : Len(seqs[k].blockTable) <= b BY <2>2
    <3> DEFINE l == Len(seqs[m + 1].blockTable)
    <3>2. l \in Nat OBVIOUS
    <3>3. \A k \in 1 .. m + 1 : Len(seqs[k].blockTable) <= b + l
      <4> TAKE k \in 1 .. m + 1
      <4>1. CASE k = m + 1 BY <3>2, <4>1
      <4>2. CASE k # m + 1
        <5>1. Len(seqs[k].blockTable) \in Nat /\ Len(seqs[k].blockTable) <= b BY <3>1, <4>2
        <5> HIDE DEF l
        <5> QED BY <3>2, <5>1
      <4> QED BY <4>1, <4>2
    <3>4. b + l \in Nat BY <3>2
    <3> HIDE DEF l
    <3> QED BY <3>3, <3>4
  <2>3. n \in T
    <3> HIDE DEF T
    <3> QED BY <2>1, <2>2, Induction
  <2>4. PICK b \in Nat : \A k \in 1 .. n : Len(seqs[k].blockTable) <= b BY <2>3
  <2> QED BY <1>1, <2>4
<1>4. width \in S /\ \A x \in S : x <= width
  <2>1. PICK b \in Nat : \A x \in S : x <= b BY <1>3
  <2> HIDE DEF S
  <2> QED BY <1>2, <2>1, Largest
<1>5. width \in Nat BY <1>2, <1>4
<1>6. BuildBlockTables(seqs) =
        [k \in DOMAIN seqs |->
           [c \in 1 .. width |-> IF c <= Len(seqs[k].blockTable)
                                 THEN seqs[k].blockTable[c] ELSE Unused]]
  BY DEF BuildBlockTables
<1>7. \A k \in 1 .. n : Len(seqs[k].blockTable) <= width BY <1>1, <1>4
<1> HIDE DEF width
<1>8. IsList(BuildBlockTables(seqs), n) BY <1>1, <1>6 DEF IsList
<1>9. ASSUME NEW k \in 1 .. n
      PROVE  /\ IsList(BuildBlockTables(seqs)[k], width)
             /\ \A c \in 1 .. Len(seqs[k].blockTable) :
                  BuildBlockTables(seqs)[k][c] = seqs[k].blockTable[c]
  <2>1. BuildBlockTables(seqs)[k] =
          [c \in 1 .. width |-> IF c <= Len(seqs[k].blockTable)
                                THEN seqs[k].blockTable[c] ELSE Unused]
    BY <1>1, <1>6
  <2>2. IsList(BuildBlockTables(seqs)[k], width) BY <2>1 DEF IsList
  <2>3. ASSUME NEW c \in 1 .. Len(seqs[k].blockTable)
        PROVE  BuildBlockTables(seqs)[k][c] = seqs[k].blockTable[c]
    <3>1. Len(seqs[k].blockTable) \in Nat /\ Len(seqs[k].blockTable) <= width BY <1>7
    <3>2. c \in 1 .. width /\ c <= Len(seqs[k].blockTable) BY <1>5, <3>1
    <3> QED BY <2>1, <3>2
  <2> QED BY <2>2, <2>3
<1> QED BY <1>5, <1>7, <1>8, <1>9 DEF PaddedTo

\* store_kvcache leaves a slot alone that no row has.
LEMMA StoreLeaves ==
  ASSUME NEW m \in Nat, NEW slots, IsList(slots, m), NEW rows, NEW cache,
         NEW slot \in DOMAIN cache, \A j \in 1 .. m : slots[j] # slot
  PROVE  StoreKvCache(cache, rows, slots)[slot] = cache[slot]
<1>1. DOMAIN slots = 1 .. m BY ListLen
<1>2. ~Contains(slots, slot) BY <1>1 DEF Contains
<1> QED BY <1>2 DEF StoreKvCache

\* Some row has a slot, and every row that has it is the same.
HasSlot(row, rows, slots, slot, m) ==
  /\ \E j \in 1 .. m : slots[j] = slot
  /\ \A j \in 1 .. m : slots[j] = slot => rows[j] = row

\* store_kvcache puts into a slot the row that has it.
LEMMA StorePuts ==
  ASSUME NEW m \in Nat, NEW slots, IsList(slots, m), NEW rows, NEW cache,
         NEW slot \in DOMAIN cache, NEW row, HasSlot(row, rows, slots, slot, m)
  PROVE  StoreKvCache(cache, rows, slots)[slot] = row
<1>1. DOMAIN slots = 1 .. m BY ListLen
<1>2. Contains(slots, slot) BY <1>1 DEF Contains, HasSlot
<1> DEFINE i == CHOOSE i \in DOMAIN slots : slots[i] = slot
<1>3. i \in 1 .. m /\ slots[i] = slot BY <1>1 DEF HasSlot
<1>4. StoreKvCache(cache, rows, slots)[slot] = rows[i] BY <1>2 DEF StoreKvCache
<1> HIDE DEF i
<1> QED BY <1>3, <1>4 DEF HasSlot

(***************************************************************************)
(* Loading and parallel layers: sums of terms.                             *)
(***************************************************************************)
\* A list that holds nothing twice is the bag of the set of its entries.
LEMMA ListToBag ==
  ASSUME NEW n \in Nat, NEW s, IsList(s, n),
         \A i, j \in 1 .. n : s[i] = s[j] => i = j
  PROVE  ToBag(s) = SetToBag({s[i] : i \in 1 .. n})
<1>1. DOMAIN s = 1 .. n BY ListLen
<1>2. Range(s) = {s[i] : i \in 1 .. n} BY <1>1 DEF Range
<1>3. ASSUME NEW x \in Range(s) PROVE Cardinality({i \in DOMAIN s : s[i] = x}) = 1
  <2>1. PICK i \in 1 .. n : s[i] = x BY <1>2
  <2>2. {k \in DOMAIN s : s[k] = x} = {i} BY <1>1, <2>1
  <2> QED BY <2>2, FS_Singleton
<1> QED BY <1>2, <1>3 DEF ToBag, SetToBag

\* The sets of terms of two ranks have nothing in common.
Apart(sets, tp) == \A m, n \in 0 .. tp - 1 : m # n => sets[m] \cap sets[n] = {}

\* The sum over the ranks of terms that no two of them share is the bag of all terms.
LEMMA AllReduceIs ==
  ASSUME NEW tp \in Nat, NEW sets, Apart(sets, tp),
         NEW partial, \A n \in 0 .. tp - 1 : partial[n] = SetToBag(sets[n])
  PROVE  AllReduce(partial, tp) = SetToBag(UNION {sets[n] : n \in 0 .. tp - 1})
<1> DEFINE Upto(n) == UNION {sets[m] : m \in 0 .. n - 1}
           f == [n \in 0 .. tp |-> SetToBag(Upto(n))]
<1>1. ASSUME NEW n \in 1 .. tp
      PROVE  SetToBag(Upto(n)) = SetToBag(Upto(n - 1)) (+) partial[n - 1]
  <2>1. n - 1 \in 0 .. tp - 1 OBVIOUS
  <2>2. Upto(n) = Upto(n - 1) \cup sets[n - 1]
    <3>1. 0 .. n - 1 = (0 .. (n - 1) - 1) \cup {n - 1} BY <2>1
    <3> QED BY <3>1
  <2>3. Upto(n - 1) \cap sets[n - 1] = {}
    <3>1. ASSUME NEW m \in 0 .. (n - 1) - 1 PROVE sets[m] \cap sets[n - 1] = {}
      <4>1. m \in 0 .. tp - 1 /\ m # n - 1 BY <2>1
      <4> QED BY <2>1, <4>1 DEF Apart
    <3> QED BY <3>1
  <2> HIDE DEF Upto
  <2>4. partial[n - 1] = SetToBag(sets[n - 1]) BY <2>1
  <2> DEFINE A == Upto(n - 1)
             B == sets[n - 1]
  <2>5. A \cap B = {} => SetToBag(A \cup B) = SetToBag(A) (+) SetToBag(B)
    <3> HIDE DEF A, B
    <3> QED BY DEF SetToBag, (+)
  <2> QED BY <2>2, <2>3, <2>4, <2>5
<1>2. Upto(0) = {} OBVIOUS
<1> HIDE DEF Upto
<1>3. f = [n \in 0 .. tp |-> IF n = 0 THEN EmptyBag ELSE f[n - 1] (+) partial[n - 1]]
  <2>1. ASSUME NEW n \in 0 .. tp
        PROVE  f[n] = IF n = 0 THEN EmptyBag ELSE f[n - 1] (+) partial[n - 1]
    <3>1. CASE n = 0 BY <1>2, <3>1 DEF EmptyBag
    <3>2. CASE n # 0 BY <1>1, <3>2
    <3> QED BY <3>1, <3>2
  <2> QED BY <2>1
<1> DEFINE sum[n \in 0 .. tp] == IF n = 0 THEN EmptyBag ELSE sum[n - 1] (+) partial[n - 1]
<1>4. sum = [n \in 0 .. tp |-> IF n = 0 THEN EmptyBag ELSE sum[n - 1] (+) partial[n - 1]]
  <2> HIDE DEF f
  <2> QED BY <1>3
<1>5. AllReduce(partial, tp) = sum[tp] BY DEF AllReduce
<1> HIDE DEF sum
<1> DEFINE T == {n \in Nat : n <= tp => sum[n] = f[n]}
<1>6. 0 \in T
  <2> HIDE DEF f
  <2>1. 0 \in 0 .. tp OBVIOUS
  <2>2. sum[0] = EmptyBag /\ f[0] = EmptyBag BY <1>3, <1>4, <2>1
  <2> QED BY <2>2
<1>7. ASSUME NEW n \in Nat, n \in T PROVE n + 1 \in T
  <2> SUFFICES ASSUME n + 1 <= tp PROVE sum[n + 1] = f[n + 1] OBVIOUS
  <2>1. sum[n] = f[n] BY <1>7
  <2> HIDE DEF f
  <2>2. n + 1 \in 0 .. tp /\ n + 1 # 0 /\ (n + 1) - 1 = n OBVIOUS
  <2>3. sum[n + 1] = sum[n] (+) partial[n] BY <1>4, <2>2
  <2>4. f[n + 1] = f[n] (+) partial[n] BY <1>3, <2>2
  <2> QED BY <2>1, <2>3, <2>4
<1>8. tp \in T
  <2> HIDE DEF T
  <2> QED BY <1>6, <1>7, Induction
<1>9. f[tp] = SetToBag(Upto(tp)) OBVIOUS
<1> QED BY <1>5, <1>8, <1>9 DEF Upto

\* A number up to m * n lies in one of m parts of size n, and each part in it.
LEMMA InParts ==
  ASSUME NEW m \in Nat, NEW n \in Nat
  PROVE  /\ m * n \in Nat
         /\ \A j \in 1 .. m * n : \E k \in 0 .. m - 1 : \E i \in 1 .. n : j = k * n + i
         /\ \A k \in 0 .. m - 1 : \A i \in 1 .. n : k * n + i \in 1 .. m * n
         /\ \A k, l \in 0 .. m - 1 : \A i, j \in 1 .. n : k * n + i = l * n + j => k = l /\ i = j
<1>1. m * n \in Nat OBVIOUS
<1>2. ASSUME NEW j \in 1 .. m * n PROVE \E k \in 0 .. m - 1 : \E i \in 1 .. n : j = k * n + i
  <2>1. n # 0
    <3>1. n = 0 => m * n = 0 OBVIOUS
    <3> QED BY <3>1
  <2> DEFINE k == (j - 1) \div n
             r == (j - 1) % n
  <2>2. k \in Nat /\ r \in 0 .. n - 1 /\ j - 1 = k * n + r BY <2>1
  <2> HIDE DEF k, r
  <2>3. k < m
    <3> SUFFICES ASSUME k >= m PROVE FALSE BY <2>2
    <3>1. PICK d \in Nat : k = m + d BY <2>2
    <3>2. k * n = m * n + d * n BY <3>1
    <3>3. d * n \in Nat BY <3>1
    <3> QED BY <1>1, <2>2, <3>2, <3>3
  <2>4. r + 1 \in 1 .. n /\ j = k * n + (r + 1) BY <1>1, <2>2
  <2> QED BY <2>2, <2>3, <2>4
<1>3. ASSUME NEW k \in 0 .. m - 1, NEW i \in 1 .. n PROVE k * n + i \in 1 .. m * n
  <2>1. PICK d \in Nat : m = k + 1 + d
    <3>1. m - k - 1 \in Nat /\ m = k + 1 + (m - k - 1) OBVIOUS
    <3> QED BY <3>1
  <2>2. m * n = k * n + n + d * n BY <2>1
  <2>3. d * n \in Nat /\ k * n \in Nat OBVIOUS
  <2> QED BY <2>2, <2>3
<1>4. ASSUME NEW k \in 0 .. m - 1, NEW l \in 0 .. m - 1, NEW i \in 1 .. n, NEW j \in 1 .. n,
             k * n + i = l * n + j
      PROVE  k = l /\ i = j
  <2>1. ASSUME NEW a \in Nat, NEW b \in Nat, a < b, NEW x \in 1 .. n, NEW y \in 1 .. n
        PROVE  a * n + x # b * n + y
    <3>1. PICK d \in Nat : b = a + 1 + d
      <4>1. b - a - 1 \in Nat /\ b = a + 1 + (b - a - 1) BY <2>1
      <4> QED BY <4>1
    <3>2. b * n = a * n + n + d * n BY <3>1
    <3>3. d * n \in Nat /\ a * n \in Nat OBVIOUS
    <3> QED BY <3>2, <3>3
  <2>2. k \in Nat /\ l \in Nat OBVIOUS
  <2>3. ~(k < l) /\ ~(l < k) BY <1>4, <2>1, <2>2
  <2>4. k = l BY <2>2, <2>3
  <2>5. k * n \in Nat /\ k * n = l * n BY <2>4
  <2> QED BY <1>4, <2>4, <2>5
<1> QED BY <1>1, <1>2, <1>3, <1>4

\* Lists of equal length are joined one behind the other.
LEMMA FlattenEqual ==
  ASSUME NEW n \in Nat, NEW m \in Nat, NEW lists, IsList(lists, n),
         \A k \in 1 .. n : IsList(lists[k], m)
  PROVE  /\ IsList(FlattenSeq(lists), n * m)
         /\ \A k \in 1 .. n : \A i \in 1 .. m : FlattenSeq(lists)[(k - 1) * m + i] = lists[k][i]
<1> DEFINE lengths == [k \in 1 .. n |-> m]
           sums == Cumulated(lengths)
           flat == FlattenSeq(lists)
<1>1. lengths \in [1 .. n -> Nat] /\ \A k \in 1 .. n : lengths[k] = m OBVIOUS
<1> HIDE DEF lengths
<1>2. SumsOf(sums, lengths, n) BY <1>1, RunningSums
<1>3. Joins(flat, lists, lengths, n) BY <1>1, FlattenJoins
<1> HIDE DEF flat
<1>4. /\ IsList(flat, sums[n + 1])
      /\ \A k \in 1 .. n : \A i \in 1 .. m : flat[sums[k] + i] = lists[k][i]
  BY <1>1, <1>3 DEF Joins
<1> HIDE DEF sums
<1> DEFINE T == {k \in Nat : k <= n => sums[k + 1] = k * m}
<1>5. 0 \in T BY <1>2 DEF SumsOf
<1>6. ASSUME NEW k \in Nat, k \in T PROVE k + 1 \in T
  <2> SUFFICES ASSUME k + 1 <= n PROVE sums[(k + 1) + 1] = (k + 1) * m OBVIOUS
  <2>1. k + 1 \in 1 .. n OBVIOUS
  <2>2. sums[(k + 1) + 1] = sums[k + 1] + m BY <1>1, <1>2, <2>1 DEF SumsOf
  <2>3. sums[k + 1] = k * m BY <1>6
  <2>4. (k + 1) * m = k * m + m OBVIOUS
  <2> QED BY <2>2, <2>3, <2>4
<1>7. \A k \in Nat : k \in T
  <2> HIDE DEF T
  <2> QED BY <1>5, <1>6, Induction
<1>8. sums[n + 1] = n * m BY <1>7
<1>9. ASSUME NEW k \in 1 .. n PROVE sums[k] = (k - 1) * m
  <2>1. k - 1 \in Nat /\ k - 1 <= n /\ (k - 1) + 1 = k OBVIOUS
  <2> QED BY <1>7, <2>1
<1> QED BY <1>4, <1>8, <1>9 DEF flat

\* A list that is joined from lists of equal length, every entry where it belongs.
LEMMA FlattenIs ==
  ASSUME NEW n \in Nat, NEW m \in Nat, NEW lists, IsList(lists, n),
         \A k \in 1 .. n : IsList(lists[k], m), NEW s, IsList(s, n * m),
         \A k \in 0 .. n - 1 : \A i \in 1 .. m : s[k * m + i] = lists[k + 1][i]
  PROVE  FlattenSeq(lists) = s
<1> DEFINE flat == FlattenSeq(lists)
<1>1. IsList(flat, n * m) /\ \A k \in 1 .. n : \A i \in 1 .. m : flat[(k - 1) * m + i] = lists[k][i]
  BY FlattenEqual
<1> HIDE DEF flat
<1>2. ASSUME NEW j \in 1 .. n * m PROVE flat[j] = s[j]
  <2>1. PICK k \in 0 .. n - 1 : \E i \in 1 .. m : j = k * m + i
    <3>1. \A l \in 1 .. n * m : \E k \in 0 .. n - 1 : \E i \in 1 .. m : l = k * m + i
      BY InParts
    <3> QED BY <3>1
  <2>2. PICK i \in 1 .. m : j = k * m + i BY <2>1
  <2>3. k + 1 \in 1 .. n /\ (k + 1) - 1 = k OBVIOUS
  <2>4. flat[k * m + i] = lists[k + 1][i] BY <1>1, <2>3
  <2> QED BY <2>2, <2>4
<1> QED BY <1>1, <1>2 DEF IsList, flat

\* Every rank has its parts of the columns of w and of the inputs y, m of each.
PartsOf(weights, xs, w, y, tp, m) ==
  \A rank \in 0 .. tp - 1 :
    /\ IsList(xs[rank], m)
    /\ \A i \in 1 .. m : /\ weights[rank][i] = Line(w, rank * m + i)
                        /\ xs[rank][i] = y[rank * m + i]

\* The products of n columns of w and their inputs, each once.
Products(w, y, n) == SetToBag({[col |-> Line(w, j), x |-> y[j]] : j \in 1 .. n})

\* The ranks of a row-parallel layer add up every product once.
LEMMA RowParallelIs ==
  ASSUME NEW tp \in Nat, NEW m \in Nat, NEW w, NEW y, NEW weights, NEW xs,
         PartsOf(weights, xs, w, y, tp, m)
  PROVE  RowParallel(weights, xs, tp) = Products(w, y, tp * m)
<1> DEFINE Term(j) == [col |-> Line(w, j), x |-> y[j]]
           sets == [rank \in 0 .. tp - 1 |-> {Term(rank * m + i) : i \in 1 .. m}]
           partial == [rank \in Ranks(tp) |-> PartialSum(weights[rank], xs[rank])]
<1>1. \A i, j \in Nat : Term(i) = Term(j) => i = j BY DEF Line
<1>2. \A rank \in 0 .. tp - 1 :
        /\ IsList(xs[rank], m)
        /\ \A i \in 1 .. m : /\ weights[rank][i] = Line(w, rank * m + i)
                            /\ xs[rank][i] = y[rank * m + i]
  BY DEF PartsOf
<1> HIDE DEF Term
<1>3. ASSUME NEW rank \in 0 .. tp - 1 PROVE partial[rank] = SetToBag(sets[rank])
  <2> DEFINE s == [i \in DOMAIN xs[rank] |-> [col |-> weights[rank][i], x |-> xs[rank][i]]]
  <2>1. DOMAIN xs[rank] = 1 .. m BY <1>2, ListLen
  <2>2. s = [i \in 1 .. m |-> Term(rank * m + i)] BY <1>2, <2>1 DEF Term
  <2>3. PartialSum(weights[rank], xs[rank]) = ToBag(s) BY DEF PartialSum
  <2> HIDE DEF s
  <2>4. IsList(s, m) BY <2>2 DEF IsList
  <2>5. ASSUME NEW i \in 1 .. m, NEW j \in 1 .. m, s[i] = s[j] PROVE i = j
    <3>1. rank * m \in Nat OBVIOUS
    <3>2. rank * m + i \in Nat /\ rank * m + j \in Nat BY <3>1
    <3>3. Term(rank * m + i) = Term(rank * m + j) BY <2>2, <2>5
    <3>4. rank * m + i = rank * m + j BY <1>1, <3>2, <3>3
    <3> QED BY <3>1, <3>4
  <2>6. ToBag(s) = SetToBag({s[i] : i \in 1 .. m}) BY <2>4, <2>5, ListToBag
  <2>7. {s[i] : i \in 1 .. m} = sets[rank] BY <2>2
  <2> QED BY <2>3, <2>6, <2>7 DEF Ranks
<1>4. Apart(sets, tp)
  <2> SUFFICES ASSUME NEW k \in 0 .. tp - 1, NEW l \in 0 .. tp - 1, k # l,
                      NEW i \in 1 .. m, NEW j \in 1 .. m, Term(k * m + i) = Term(l * m + j)
               PROVE  FALSE
    BY DEF Apart
  <2>1. k * m + i \in Nat /\ l * m + j \in Nat OBVIOUS
  <2>2. k * m + i = l * m + j BY <1>1, <2>1
  <2> QED BY <2>2, InParts
<1>5. RowParallel(weights, xs, tp) = AllReduce(partial, tp) BY DEF RowParallel
<1>6. UNION {sets[n] : n \in 0 .. tp - 1} = {Term(j) : j \in 1 .. tp * m}
  <2>1. ASSUME NEW j \in 1 .. tp * m PROVE \E n \in 0 .. tp - 1 : Term(j) \in sets[n]
    <3>1. \A l \in 1 .. tp * m : \E n \in 0 .. tp - 1 : \E i \in 1 .. m : l = n * m + i
      BY InParts
    <3>2. PICK n \in 0 .. tp - 1 : \E i \in 1 .. m : j = n * m + i BY <3>1
    <3> QED BY <3>2
  <2>2. ASSUME NEW n \in 0 .. tp - 1, NEW i \in 1 .. m PROVE n * m + i \in 1 .. tp * m
    BY InParts
  <2> QED BY <2>1, <2>2
<1> HIDE DEF sets, partial
<1>7. \A n \in 0 .. tp - 1 : partial[n] = SetToBag(sets[n]) BY <1>3
<1>8. AllReduce(partial, tp) = SetToBag(UNION {sets[n] : n \in 0 .. tp - 1})
  BY <1>4, <1>7, AllReduceIs
<1> QED BY <1>5, <1>6, <1>8 DEF Term, Products

(***************************************************************************)
(* Loading and parallel layers: sizes.                                     *)
(***************************************************************************)
\* What is divided evenly: a quotient times the divisor.
LEMMA Divided ==
  ASSUME NEW n \in Nat \ {0}, NEW m \in Nat \ {0}, n % m = 0
  PROVE  n \div m \in Nat \ {0} /\ n = m * (n \div m)
<1>1. n \div m \in Nat /\ n = m * (n \div m) + (n % m) OBVIOUS
<1>2. n \div m = 0 => m * (n \div m) = 0 OBVIOUS
<1> QED BY <1>1, <1>2

\* A multiple divided by its factor.
LEMMA Quotient ==
  ASSUME NEW k \in Nat, NEW m \in Nat \ {0}
  PROVE  (m * k) \div m = k
OBVIOUS

\* Heads, intermediate size and vocabulary are divided evenly among tp ranks, query heads
\* among key heads.
EvenlyDivided(hf, tp) ==
  /\ tp \in Nat \ {0}
  /\ {hf.numLayers, hf.headDim, hf.numHeads, hf.numKvHeads, hf.intermediate, hf.vocab}
       \subseteq Nat \ {0}
  /\ hf.numKvHeads % tp = 0 /\ hf.numHeads % hf.numKvHeads = 0
  /\ hf.intermediate % tp = 0 /\ hf.vocab % tp = 0

KeyHeads(hf, tp) == hf.numKvHeads \div tp
Group(hf) == hf.numHeads \div hf.numKvHeads
QueryHeads(hf, tp) == KeyHeads(hf, tp) * Group(hf)

\* The sizes of a rank's parts, and of the whole.
LEMMA Sizes ==
  ASSUME NEW hf, NEW tp, EvenlyDivided(hf, tp)
  PROVE  /\ KeyHeads(hf, tp) \in Nat \ {0} /\ Group(hf) \in Nat \ {0}
         /\ QueryHeads(hf, tp) \in Nat \ {0} /\ hf.headDim \in Nat \ {0}
         /\ hf.numKvHeads = tp * KeyHeads(hf, tp)
         /\ hf.numHeads = tp * QueryHeads(hf, tp)
         /\ QSize(hf) = tp * (QueryHeads(hf, tp) * hf.headDim)
         /\ KvSize(hf) = tp * (KeyHeads(hf, tp) * hf.headDim)
         /\ QSize(hf) \div tp = QueryHeads(hf, tp) * hf.headDim
         /\ KvSize(hf) \div tp = KeyHeads(hf, tp) * hf.headDim
         /\ (QSize(hf) + 2 * KvSize(hf)) \div tp
              = QueryHeads(hf, tp) * hf.headDim + 2 * (KeyHeads(hf, tp) * hf.headDim)
         /\ hf.intermediate = tp * (hf.intermediate \div tp)
         /\ (2 * hf.intermediate) \div tp = 2 * (hf.intermediate \div tp)
         /\ hf.intermediate \div tp \in Nat \ {0}
         /\ hf.vocab = tp * (hf.vocab \div tp) /\ hf.vocab \div tp \in Nat \ {0}
<1> DEFINE K == KeyHeads(hf, tp)
           G == Group(hf)
           H == QueryHeads(hf, tp)
           D == hf.headDim
           I == hf.intermediate \div tp
<1>1. tp \in Nat \ {0} /\ D \in Nat \ {0} BY DEF EvenlyDivided
<1>2. K \in Nat \ {0} /\ hf.numKvHeads = tp * K BY Divided DEF EvenlyDivided, KeyHeads
<1>3. G \in Nat \ {0} /\ hf.numHeads = hf.numKvHeads * G BY Divided DEF EvenlyDivided, Group
<1>4. H = K * G BY DEF QueryHeads
<1>5. I \in Nat \ {0} /\ hf.intermediate = tp * I BY Divided DEF EvenlyDivided
<1>6. hf.vocab \div tp \in Nat \ {0} /\ hf.vocab = tp * (hf.vocab \div tp)
  BY Divided DEF EvenlyDivided
<1> HIDE DEF K, G, H, D, I
<1>7. H \in Nat \ {0}
  <2>1. ASSUME NEW k \in Nat \ {0}, NEW g \in Nat \ {0} PROVE k * g \in Nat \ {0} OBVIOUS
  <2> QED BY <1>2, <1>3, <1>4, <2>1
<1>8. hf.numHeads = tp * H
  <2>1. ASSUME NEW t \in Nat, NEW k \in Nat, NEW g \in Nat PROVE (t * k) * g = t * (k * g)
    OBVIOUS
  <2> QED BY <1>1, <1>2, <1>3, <1>4, <2>1
<1>9. ASSUME NEW h \in Nat PROVE (tp * h) * D = tp * (h * D) /\ h * D \in Nat BY <1>1
<1>10. QSize(hf) = tp * (H * D) /\ H * D \in Nat BY <1>7, <1>8, <1>9 DEF QSize, D
<1>11. KvSize(hf) = tp * (K * D) /\ K * D \in Nat BY <1>2, <1>9 DEF KvSize, D
<1>12. QSize(hf) \div tp = H * D /\ KvSize(hf) \div tp = K * D
  BY <1>1, <1>10, <1>11, Quotient
<1>13. (QSize(hf) + 2 * KvSize(hf)) \div tp = H * D + 2 * (K * D)
  <2>1. ASSUME NEW x \in Nat, NEW y \in Nat PROVE tp * x + 2 * (tp * y) = tp * (x + 2 * y)
    BY <1>1
  <2>2. QSize(hf) + 2 * KvSize(hf) = tp * (H * D + 2 * (K * D)) BY <1>10, <1>11, <2>1
  <2>3. H * D + 2 * (K * D) \in Nat BY <1>10, <1>11
  <2> QED BY <1>1, <2>2, <2>3, Quotient
<1>14. (2 * hf.intermediate) \div tp = 2 * I
  <2>1. 2 * hf.intermediate = tp * (2 * I) /\ 2 * I \in Nat BY <1>1, <1>5
  <2> QED BY <1>1, <2>1, Quotient
<1> QED BY <1>1, <1>2, <1>3, <1>5, <1>6, <1>7, <1>8, <1>10, <1>11, <1>12, <1>13, <1>14
        DEF K, G, H, D, I

Biases == {"q_bias", "k_bias", "v_bias"}
Tensors == {"q_proj", "k_proj", "v_proj", "o_proj", "gate_proj", "up_proj", "down_proj",
            "embed_tokens", "lm_head"} \cup Biases

\* Which tensors there are, and how large they are.
LEMMA CheckpointIs ==
  ASSUME NEW hf
  PROVE  /\ DOMAIN Checkpoint(hf) = Tensors \ ((IF QkvBias(hf) THEN {} ELSE Biases)
                                     \cup (IF hf.tieWordEmbeddings THEN {"lm_head"} ELSE {}))
         /\ \A w \in DOMAIN Checkpoint(hf) :
              /\ w \in {"q_proj", "q_bias", "o_proj"} => Checkpoint(hf)[w] = QSize(hf)
              /\ w \in {"k_proj", "v_proj", "k_bias", "v_bias"} => Checkpoint(hf)[w] = KvSize(hf)
              /\ w \in {"gate_proj", "up_proj", "down_proj"} => Checkpoint(hf)[w] = hf.intermediate
              /\ w \in {"embed_tokens", "lm_head"} => Checkpoint(hf)[w] = hf.vocab
<1> DEFINE size == [q_proj |-> QSize(hf), k_proj |-> KvSize(hf), v_proj |-> KvSize(hf),
               q_bias |-> QSize(hf), k_bias |-> KvSize(hf), v_bias |-> KvSize(hf),
               o_proj |-> QSize(hf), gate_proj |-> hf.intermediate,
               up_proj |-> hf.intermediate, down_proj |-> hf.intermediate,
               embed_tokens |-> hf.vocab, lm_head |-> hf.vocab]
           absent == (IF QkvBias(hf) THEN {} ELSE {"q_bias", "k_bias", "v_bias"})
                \cup (IF hf.tieWordEmbeddings THEN {"lm_head"} ELSE {})
<1>1. Checkpoint(hf) = [w \in DOMAIN size \ absent |-> size[w]] BY DEF Checkpoint
<1>2. DOMAIN size = Tensors BY DEF Tensors, Biases
<1>3. /\ size["q_proj"] = QSize(hf) /\ size["q_bias"] = QSize(hf) /\ size["o_proj"] = QSize(hf)
      /\ size["k_proj"] = KvSize(hf) /\ size["v_proj"] = KvSize(hf)
      /\ size["k_bias"] = KvSize(hf) /\ size["v_bias"] = KvSize(hf)
      /\ size["gate_proj"] = hf.intermediate /\ size["up_proj"] = hf.intermediate
      /\ size["down_proj"] = hf.intermediate
      /\ size["embed_tokens"] = hf.vocab /\ size["lm_head"] = hf.vocab
  OBVIOUS
<1>4. absent = (IF QkvBias(hf) THEN {} ELSE Biases)
                 \cup (IF hf.tieWordEmbeddings THEN {"lm_head"} ELSE {})
  BY DEF Biases
<1> HIDE DEF size, absent
<1>5. DOMAIN Checkpoint(hf) = Tensors \ absent
  <2>1. DOMAIN [w \in DOMAIN size \ absent |-> size[w]] = DOMAIN size \ absent OBVIOUS
  <2> QED BY <1>1, <1>2, <2>1
<1>6. \A w \in DOMAIN Checkpoint(hf) : Checkpoint(hf)[w] = size[w] BY <1>1, <1>2, <1>5
<1> QED BY <1>3, <1>4, <1>5, <1>6

\* Into which parameter a tensor is loaded.
LEMMA ParameterNameIs ==
  /\ \A w \in {"q_proj", "k_proj", "v_proj"} : ParameterName(w) = "qkv_proj"
  /\ \A w \in Biases : ParameterName(w) = "qkv_bias"
  /\ \A w \in {"gate_proj", "up_proj"} : ParameterName(w) = "gate_up_proj"
  /\ \A w \in {"o_proj", "down_proj", "embed_tokens", "lm_head"} : ParameterName(w) = w
<1>1. DOMAIN PackedModulesMapping =
        {"q_proj", "k_proj", "v_proj", "gate_proj", "up_proj"} \cup Biases
  BY DEF PackedModulesMapping, Biases
<1>2. /\ PackedModulesMapping["q_proj"] = "qkv_proj" /\ PackedModulesMapping["k_proj"] = "qkv_proj"
      /\ PackedModulesMapping["v_proj"] = "qkv_proj"
      /\ PackedModulesMapping["q_bias"] = "qkv_bias" /\ PackedModulesMapping["k_bias"] = "qkv_bias"
      /\ PackedModulesMapping["v_bias"] = "qkv_bias"
      /\ PackedModulesMapping["gate_proj"] = "gate_up_proj"
      /\ PackedModulesMapping["up_proj"] = "gate_up_proj"
  BY DEF PackedModulesMapping
<1> QED BY <1>1, <1>2 DEF ParameterName, Biases

\* The size of a rank's part of a tensor.
ShardSize(hf, tp, w) == Checkpoint(hf)[w] \div tp

\* A rank's part of a tensor fits into its parameter at the offset it is written to.
LEMMA ShardsFit ==
  ASSUME NEW hf, NEW tp, EvenlyDivided(hf, tp), NEW w \in DOMAIN Checkpoint(hf)
  PROVE  /\ ShardSize(hf, tp, w) \in Nat /\ ShardOffset(hf, tp, w) \in Nat
         /\ ParameterSize(hf, tp, ParameterName(w)) \in Nat
         /\ ShardOffset(hf, tp, w) + ShardSize(hf, tp, w)
              <= ParameterSize(hf, tp, ParameterName(w))
<1> DEFINE K == KeyHeads(hf, tp) * hf.headDim
           H == QueryHeads(hf, tp) * hf.headDim
           I == hf.intermediate \div tp
           V == hf.vocab \div tp
           p == ParameterName(w)
<1>1. /\ K \in Nat /\ H \in Nat /\ I \in Nat /\ V \in Nat
      /\ QSize(hf) \div tp = H /\ KvSize(hf) \div tp = K
      /\ (QSize(hf) + 2 * KvSize(hf)) \div tp = H + 2 * K
      /\ (2 * hf.intermediate) \div tp = 2 * I
  BY Sizes
<1> HIDE DEF K, H
<1>2. w \in Tensors BY CheckpointIs
<1>3. CASE w \in {"q_proj", "q_bias"}
  <2>1. ShardSize(hf, tp, w) = H BY <1>1, <1>3, CheckpointIs DEF ShardSize
  <2>2. ShardOffset(hf, tp, w) = 0 BY <1>3 DEF ShardOffset
  <2>3. p \in {"qkv_proj", "qkv_bias"} BY <1>3, ParameterNameIs DEF Biases
  <2>4. ParameterSize(hf, tp, p) = H + 2 * K BY <1>1, <2>3 DEF ParameterSize
  <2> QED BY <1>1, <2>1, <2>2, <2>4
<1>4. CASE w \in {"k_proj", "k_bias"}
  <2>1. ShardSize(hf, tp, w) = K BY <1>1, <1>4, CheckpointIs DEF ShardSize
  <2>2. ShardOffset(hf, tp, w) = H BY <1>1, <1>4 DEF ShardOffset
  <2>3. p \in {"qkv_proj", "qkv_bias"} BY <1>4, ParameterNameIs DEF Biases
  <2>4. ParameterSize(hf, tp, p) = H + 2 * K BY <1>1, <2>3 DEF ParameterSize
  <2> QED BY <1>1, <2>1, <2>2, <2>4
<1>5. CASE w \in {"v_proj", "v_bias"}
  <2>1. ShardSize(hf, tp, w) = K BY <1>1, <1>5, CheckpointIs DEF ShardSize
  <2>2. ShardOffset(hf, tp, w) = H + K BY <1>1, <1>5 DEF ShardOffset
  <2>3. p \in {"qkv_proj", "qkv_bias"} BY <1>5, ParameterNameIs DEF Biases
  <2>4. ParameterSize(hf, tp, p) = H + 2 * K BY <1>1, <2>3 DEF ParameterSize
  <2> QED BY <1>1, <2>1, <2>2, <2>4
<1>6. CASE w \in {"gate_proj", "up_proj"}
  <2>1. ShardSize(hf, tp, w) = I BY <1>6, CheckpointIs DEF ShardSize
  <2>2. ShardOffset(hf, tp, w) \in {0, I} BY <1>6 DEF ShardOffset
  <2>3. p = "gate_up_proj" BY <1>6, ParameterNameIs
  <2>4. ParameterSize(hf, tp, p) = 2 * I BY <1>1, <2>3 DEF ParameterSize
  <2> QED BY <1>1, <2>1, <2>2, <2>4
<1>7. CASE w \in {"o_proj", "down_proj", "embed_tokens", "lm_head"}
  <2>1. p = w BY <1>7, ParameterNameIs
  <2>2. ShardOffset(hf, tp, w) = 0 BY <1>7 DEF ShardOffset
  <2>3. ParameterSize(hf, tp, p) = ShardSize(hf, tp, w)
    BY <1>7, <2>1 DEF ParameterSize, ShardSize
  <2>4. ShardSize(hf, tp, w) \in Nat
    <3>1. ShardSize(hf, tp, w) \in {H, I, V} BY <1>1, <1>7, CheckpointIs DEF ShardSize
    <3> QED BY <1>1, <3>1
  <2> QED BY <2>2, <2>3, <2>4
<1> QED BY <1>2, <1>3, <1>4, <1>5, <1>6, <1>7 DEF Tensors, Biases

\* Two tensors of one parameter go behind one another.
LEMMA ShardsApart ==
  ASSUME NEW hf, NEW tp, EvenlyDivided(hf, tp), NEW w \in DOMAIN Checkpoint(hf),
         NEW u \in DOMAIN Checkpoint(hf), w # u, ParameterName(w) = ParameterName(u)
  PROVE  \/ ShardOffset(hf, tp, w) + ShardSize(hf, tp, w) <= ShardOffset(hf, tp, u)
         \/ ShardOffset(hf, tp, u) + ShardSize(hf, tp, u) <= ShardOffset(hf, tp, w)
<1> DEFINE K == KeyHeads(hf, tp) * hf.headDim
           H == QueryHeads(hf, tp) * hf.headDim
           I == hf.intermediate \div tp
           S(t) == ShardSize(hf, tp, t)
           O(t) == ShardOffset(hf, tp, t)
<1>1. /\ K \in Nat /\ H \in Nat /\ I \in Nat
      /\ QSize(hf) \div tp = H /\ KvSize(hf) \div tp = K
  BY Sizes
<1> HIDE DEF K, H
<1>2. w \in Tensors /\ u \in Tensors BY CheckpointIs
<1>3. \A t \in DOMAIN Checkpoint(hf) :
        /\ t \in {"q_proj", "q_bias"} => S(t) = H /\ O(t) = 0
        /\ t \in {"k_proj", "k_bias"} => S(t) = K /\ O(t) = H
        /\ t \in {"v_proj", "v_bias"} => S(t) = K /\ O(t) = H + K
        /\ t = "gate_proj" => S(t) = I /\ O(t) = 0
        /\ t = "up_proj" => S(t) = I /\ O(t) = I
  <2> TAKE t \in DOMAIN Checkpoint(hf)
  <2>1. /\ t \in {"q_proj", "q_bias"} => S(t) = H
        /\ t \in {"k_proj", "k_bias", "v_proj", "v_bias"} => S(t) = K
        /\ t \in {"gate_proj", "up_proj"} => S(t) = I
    BY <1>1, CheckpointIs DEF ShardSize
  <2>2. /\ t \in {"q_proj", "q_bias", "gate_proj"} => O(t) = 0
        /\ t \in {"k_proj", "k_bias"} => O(t) = H
        /\ t \in {"v_proj", "v_bias"} => O(t) = H + K
        /\ t = "up_proj" => O(t) = I
    BY <1>1 DEF ShardOffset
  <2> QED BY <2>1, <2>2
<1> HIDE DEF S, O, I
<1>4. \/ w \in {"q_proj", "k_proj", "v_proj"} /\ u \in {"q_proj", "k_proj", "v_proj"}
      \/ w \in Biases /\ u \in Biases
      \/ w \in {"gate_proj", "up_proj"} /\ u \in {"gate_proj", "up_proj"}
  BY <1>2, ParameterNameIs DEF Tensors, Biases
<1>5. CASE w \in {"q_proj", "k_proj", "v_proj"} /\ u \in {"q_proj", "k_proj", "v_proj"}
  <2>1. O(w) + S(w) <= O(u) \/ O(u) + S(u) <= O(w) BY <1>1, <1>3, <1>5
  <2> QED BY <2>1 DEF O, S
<1>6. CASE w \in Biases /\ u \in Biases
  <2>1. O(w) + S(w) <= O(u) \/ O(u) + S(u) <= O(w) BY <1>1, <1>3, <1>6 DEF Biases
  <2> QED BY <2>1 DEF O, S
<1>7. CASE w \in {"gate_proj", "up_proj"} /\ u \in {"gate_proj", "up_proj"}
  <2>1. O(w) + S(w) <= O(u) \/ O(u) + S(u) <= O(w) BY <1>1, <1>3, <1>7
  <2> QED BY <2>1 DEF O, S
<1> QED BY <1>4, <1>5, <1>6, <1>7

(***************************************************************************)
(* What a loaded model computes.                                           *)
(***************************************************************************)
\* A rank's part of tensor w is in its place in its parameter.
TensorLoaded(param, hf, tp, rank, w) ==
  \A j \in 1 .. ShardSize(hf, tp, w) :
    param[ShardOffset(hf, tp, w) + j] = Line(w, rank * ShardSize(hf, tp, w) + j)

\* On every rank, every parameter has its size and every tensor is loaded.
FullyLoaded(params, hf, tp) ==
  \A rank \in 0 .. tp - 1 :
    /\ \A p \in ParameterNames(hf) : IsList(params[rank][p], ParameterSize(hf, tp, p))
    /\ \A w \in DOMAIN Checkpoint(hf) :
         TensorLoaded(params[rank][ParameterName(w)], hf, tp, rank, w)

\* The lines of a list from off on are n lines of w, a rank's part of them.
PartAt(list, off, w, rank, n) == \A j \in 1 .. n : list[off + j] = Line(w, rank * n + j)

\* The parameters of a rank, one by one.
LEMMA PartsAre ==
  ASSUME NEW hf, NEW tp, EvenlyDivided(hf, tp), NEW params, FullyLoaded(params, hf, tp),
         NEW rank \in 0 .. tp - 1, NEW P, P = params[rank],
         NEW H, H = QueryHeads(hf, tp) * hf.headDim, NEW K, K = KeyHeads(hf, tp) * hf.headDim,
         NEW I, I = hf.intermediate \div tp, NEW V, V = hf.vocab \div tp
  PROVE  /\ IsList(P.qkv_proj, H + 2 * K)
         /\ PartAt(P.qkv_proj, 0, "q_proj", rank, H)
         /\ PartAt(P.qkv_proj, H, "k_proj", rank, K)
         /\ PartAt(P.qkv_proj, H + K, "v_proj", rank, K)
         /\ QkvBias(hf) => /\ IsList(P.qkv_bias, H + 2 * K)
                           /\ PartAt(P.qkv_bias, 0, "q_bias", rank, H)
                           /\ PartAt(P.qkv_bias, H, "k_bias", rank, K)
                           /\ PartAt(P.qkv_bias, H + K, "v_bias", rank, K)
         /\ PartAt(P.o_proj, 0, "o_proj", rank, H)
         /\ IsList(P.gate_up_proj, 2 * I)
         /\ PartAt(P.gate_up_proj, 0, "gate_proj", rank, I)
         /\ PartAt(P.gate_up_proj, I, "up_proj", rank, I)
         /\ PartAt(P.down_proj, 0, "down_proj", rank, I)
         /\ PartAt(P.embed_tokens, 0, "embed_tokens", rank, V)
         /\ LET lmHead == Storage(hf, "lm_head")
            IN  IsList(P[lmHead], V) /\ PartAt(P[lmHead], 0, lmHead, rank, V)
<1>1. /\ QSize(hf) \div tp = H /\ KvSize(hf) \div tp = K
      /\ (QSize(hf) + 2 * KvSize(hf)) \div tp = H + 2 * K
      /\ (2 * hf.intermediate) \div tp = 2 * I
  BY Sizes
<1>2. ASSUME NEW w \in DOMAIN Checkpoint(hf)
      PROVE  /\ IsList(P[ParameterName(w)], ParameterSize(hf, tp, ParameterName(w)))
             /\ PartAt(P[ParameterName(w)], ShardOffset(hf, tp, w), w, rank, ShardSize(hf, tp, w))
  BY DEF FullyLoaded, TensorLoaded, PartAt, ParameterNames
<1>3. /\ {"q_proj", "k_proj", "v_proj", "o_proj", "gate_proj", "up_proj", "down_proj",
           "embed_tokens"} \subseteq DOMAIN Checkpoint(hf)
      /\ QkvBias(hf) => Biases \subseteq DOMAIN Checkpoint(hf)
      /\ ~hf.tieWordEmbeddings => "lm_head" \in DOMAIN Checkpoint(hf)
  BY CheckpointIs, ZenonT(40) DEF Tensors, Biases
<1>4. \A w \in DOMAIN Checkpoint(hf) :
        /\ w \in {"q_proj", "q_bias"} =>
             ShardSize(hf, tp, w) = H /\ ShardOffset(hf, tp, w) = 0
        /\ w \in {"k_proj", "k_bias"} =>
             ShardSize(hf, tp, w) = K /\ ShardOffset(hf, tp, w) = H
        /\ w \in {"v_proj", "v_bias"} =>
             ShardSize(hf, tp, w) = K /\ ShardOffset(hf, tp, w) = H + K
        /\ w = "gate_proj" => ShardSize(hf, tp, w) = I /\ ShardOffset(hf, tp, w) = 0
        /\ w = "up_proj" => ShardSize(hf, tp, w) = I /\ ShardOffset(hf, tp, w) = I
        /\ w = "o_proj" => ShardSize(hf, tp, w) = H /\ ShardOffset(hf, tp, w) = 0
        /\ w = "down_proj" => ShardSize(hf, tp, w) = I /\ ShardOffset(hf, tp, w) = 0
        /\ w \in {"embed_tokens", "lm_head"} =>
             ShardSize(hf, tp, w) = V /\ ShardOffset(hf, tp, w) = 0
  <2> TAKE w \in DOMAIN Checkpoint(hf)
  <2>1. /\ w \in {"q_proj", "q_bias", "o_proj"} => ShardSize(hf, tp, w) = H
        /\ w \in {"k_proj", "k_bias", "v_proj", "v_bias"} => ShardSize(hf, tp, w) = K
        /\ w \in {"gate_proj", "up_proj", "down_proj"} => ShardSize(hf, tp, w) = I
        /\ w \in {"embed_tokens", "lm_head"} => ShardSize(hf, tp, w) = V
    BY <1>1, CheckpointIs DEF ShardSize
  <2>2. /\ w \in {"q_proj", "q_bias", "gate_proj", "o_proj", "down_proj", "embed_tokens",
                  "lm_head"} => ShardOffset(hf, tp, w) = 0
        /\ w \in {"k_proj", "k_bias"} => ShardOffset(hf, tp, w) = H
        /\ w \in {"v_proj", "v_bias"} => ShardOffset(hf, tp, w) = H + K
        /\ w = "up_proj" => ShardOffset(hf, tp, w) = I
    BY <1>1 DEF ShardOffset
  <2> QED BY <2>1, <2>2
<1>5. /\ ParameterSize(hf, tp, "qkv_proj") = H + 2 * K
      /\ ParameterSize(hf, tp, "qkv_bias") = H + 2 * K
      /\ ParameterSize(hf, tp, "gate_up_proj") = 2 * I
      /\ \A w \in {"embed_tokens", "lm_head"} :
           ParameterSize(hf, tp, w) = ShardSize(hf, tp, w)
  BY <1>1 DEF ParameterSize, ShardSize
<1>6. /\ IsList(P.qkv_proj, H + 2 * K)
      /\ PartAt(P.qkv_proj, 0, "q_proj", rank, H)
      /\ PartAt(P.qkv_proj, H, "k_proj", rank, K)
      /\ PartAt(P.qkv_proj, H + K, "v_proj", rank, K)
  BY <1>2, <1>3, <1>4, <1>5, ParameterNameIs
<1>7. ASSUME QkvBias(hf)
      PROVE  /\ IsList(P.qkv_bias, H + 2 * K)
             /\ PartAt(P.qkv_bias, 0, "q_bias", rank, H)
             /\ PartAt(P.qkv_bias, H, "k_bias", rank, K)
             /\ PartAt(P.qkv_bias, H + K, "v_bias", rank, K)
  BY <1>2, <1>3, <1>4, <1>5, <1>7, ParameterNameIs DEF Biases
<1>8. /\ PartAt(P.o_proj, 0, "o_proj", rank, H)
      /\ PartAt(P.down_proj, 0, "down_proj", rank, I)
      /\ PartAt(P.embed_tokens, 0, "embed_tokens", rank, V)
  BY <1>2, <1>3, <1>4, ParameterNameIs
<1>9. /\ IsList(P.gate_up_proj, 2 * I)
      /\ PartAt(P.gate_up_proj, 0, "gate_proj", rank, I)
      /\ PartAt(P.gate_up_proj, I, "up_proj", rank, I)
  BY <1>2, <1>3, <1>4, <1>5, ParameterNameIs
<1>10. LET lmHead == Storage(hf, "lm_head")
       IN  IsList(P[lmHead], V) /\ PartAt(P[lmHead], 0, lmHead, rank, V)
  <2>1. Storage(hf, "lm_head") = IF hf.tieWordEmbeddings THEN "embed_tokens" ELSE "lm_head"
    BY DEF Storage
  <2>2. Storage(hf, "lm_head") \in DOMAIN Checkpoint(hf)
        /\ Storage(hf, "lm_head") \in {"embed_tokens", "lm_head"}
    BY <1>3, <2>1
  <2> QED BY <1>2, <1>4, <1>5, <2>2, ParameterNameIs
<1> QED BY <1>6, <1>7, <1>8, <1>9, <1>10

\* Every token has its embedding: the row of the rank that holds it, from nowhere else.
LEMMA EmbedIs ==
  ASSUME NEW hf, NEW tp, EvenlyDivided(hf, tp), NEW params, FullyLoaded(params, hf, tp),
         NEW token \in 0 .. hf.vocab - 1
  PROVE  Embed(params, hf, tp, token) = SetToBag({Line("embed_tokens", token + 1)})
<1> DEFINE V == hf.vocab \div tp
           Mask(n) == token >= n * V /\ token < (n + 1) * V
           Row(n) == params[n].embed_tokens[(IF Mask(n) THEN token - n * V ELSE 0) + 1]
           sets == [n \in 0 .. tp - 1 |-> IF tp = 1 \/ Mask(n) THEN {Row(n)} ELSE {}]
           partial == [n \in Ranks(tp) |->
                         IF tp = 1 \/ Mask(n) THEN SetToBag({Row(n)}) ELSE EmptyBag]
<1>1. tp \in Nat \ {0} /\ V \in Nat \ {0} /\ hf.vocab = tp * V BY Sizes DEF EvenlyDivided
<1>2. Embed(params, hf, tp, token) = AllReduce(partial, tp) BY DEF Embed
<1>3. ASSUME NEW n \in 0 .. tp - 1
      PROVE  PartAt(params[n].embed_tokens, 0, "embed_tokens", n, V)
  BY PartsAre
<1> HIDE DEF V
<1>4. token \in Nat /\ token + 1 \in 1 .. tp * V BY <1>1
<1>5. \A j \in 1 .. tp * V : \E k \in 0 .. tp - 1 : \E i \in 1 .. V : j = k * V + i
  BY <1>1, InParts
<1>6. PICK k \in 0 .. tp - 1 : \E i \in 1 .. V : token + 1 = k * V + i BY <1>4, <1>5
<1>7. PICK i \in 1 .. V : token + 1 = k * V + i BY <1>6
<1>8. ASSUME NEW n \in 0 .. tp - 1 PROVE Mask(n) <=> n = k
  <2>1. ASSUME NEW a \in Nat, NEW b \in Nat, a < b PROVE (a + 1) * V <= b * V
    <3>1. PICK d \in Nat : b = a + 1 + d
      <4>1. b - a - 1 \in Nat /\ b = a + 1 + (b - a - 1) BY <2>1
      <4> QED BY <4>1
    <3>2. b * V = (a + 1) * V + d * V BY <1>1, <3>1
    <3>3. d * V \in Nat /\ (a + 1) * V \in Nat BY <1>1
    <3> QED BY <3>2, <3>3
  <2>2. n * V \in Nat /\ k * V \in Nat /\ (n + 1) * V \in Nat BY <1>1
  <2>3. (k + 1) * V = k * V + V BY <1>1
  <2>4. CASE n = k BY <1>1, <1>4, <1>7, <2>2, <2>3, <2>4
  <2>5. CASE n < k
    <3>1. (n + 1) * V <= k * V BY <2>1, <2>5
    <3> QED BY <1>4, <1>7, <2>2, <2>5, <3>1
  <2>6. CASE n > k
    <3>1. (k + 1) * V <= n * V BY <2>1, <2>6
    <3> QED BY <1>1, <1>4, <1>7, <2>2, <2>3, <2>6, <3>1
  <2> QED BY <2>4, <2>5, <2>6
<1>9. Row(k) = Line("embed_tokens", token + 1)
  <2>1. Mask(k) BY <1>8
  <2>2. k * V \in Nat BY <1>1
  <2>3. token - k * V + 1 = i /\ 0 + i = i BY <1>4, <1>7, <2>2
  <2>4. Row(k) = params[k].embed_tokens[i] BY <2>1, <2>3
  <2>5. params[k].embed_tokens[0 + i] = Line("embed_tokens", k * V + i) BY <1>3 DEF PartAt
  <2> QED BY <1>7, <2>3, <2>4, <2>5
<1>10. \A n \in 0 .. tp - 1 : sets[n] = IF n = k THEN {Line("embed_tokens", token + 1)} ELSE {}
  <2> TAKE n \in 0 .. tp - 1
  <2>1. tp = 1 => n = k OBVIOUS
  <2>2. sets[n] = IF n = k THEN {Row(n)} ELSE {}
    <3> HIDE DEF Mask, Row
    <3> QED BY <1>8, <2>1
  <2> HIDE DEF Row, sets
  <2> QED BY <1>9, <2>2
<1>11. \A n \in 0 .. tp - 1 : partial[n] = SetToBag(sets[n])
  <2> HIDE DEF Mask, Row
  <2> QED BY DEF Ranks, EmptyBag
<1> HIDE DEF sets, partial
<1>12. Apart(sets, tp) BY <1>10 DEF Apart
<1>13. AllReduce(partial, tp) = SetToBag(UNION {sets[n] : n \in 0 .. tp - 1})
  BY <1>1, <1>11, <1>12, AllReduceIs
<1>14. UNION {sets[n] : n \in 0 .. tp - 1} = {Line("embed_tokens", token + 1)} BY <1>10
<1> QED BY <1>2, <1>13, <1>14

\* The gathered logits are those of the whole vocabulary, in its order.
LEMMA LmHeadIs ==
  ASSUME NEW hf, NEW tp, EvenlyDivided(hf, tp), NEW params, FullyLoaded(params, hf, tp), NEW x
  PROVE  LmHead(params, hf, tp, x)
           = [v \in 1 .. hf.vocab |-> WholeLinear(Storage(hf, "lm_head"), v, "none", x)]
<1> DEFINE V == hf.vocab \div tp
           name == Storage(hf, "lm_head")
           Logits(rank) == ColumnParallel(params[rank][name], NoBias(params[rank][name]), x)
           lists == [i \in 1 .. tp |-> Logits(i - 1)]
           whole == [v \in 1 .. tp * V |-> WholeLinear(name, v, "none", x)]
<1>1. tp \in Nat \ {0} /\ V \in Nat \ {0} /\ hf.vocab = tp * V BY Sizes DEF EvenlyDivided
<1>2. ASSUME NEW rank \in 0 .. tp - 1
      PROVE  IsList(params[rank][name], V) /\ PartAt(params[rank][name], 0, name, rank, V)
  BY PartsAre
<1>3. LmHead(params, hf, tp, x) = FlattenSeq(lists) BY DEF LmHead
<1> HIDE DEF V, name
<1>4. ASSUME NEW rank \in 0 .. tp - 1
      PROVE  Logits(rank) = [i \in 1 .. V |-> WholeLinear(name, rank * V + i, "none", x)]
  <2>1. DOMAIN params[rank][name] = 1 .. V BY <1>1, <1>2, ListLen
  <2>2. \A i \in 1 .. V : params[rank][name][i] = Line(name, rank * V + i)
    <3> TAKE i \in 1 .. V
    <3>1. 0 + i = i BY <1>1
    <3> QED BY <1>2, <3>1 DEF PartAt
  <2> QED BY <2>1, <2>2 DEF ColumnParallel, NoBias, WholeLinear
<1> HIDE DEF Logits
<1>5. \A k \in 1 .. tp : IsList(lists[k], V)
  <2> TAKE k \in 1 .. tp
  <2>1. k - 1 \in 0 .. tp - 1 BY <1>1
  <2>2. lists[k] = [i \in 1 .. V |-> WholeLinear(name, (k - 1) * V + i, "none", x)]
    BY <1>4, <2>1
  <2> QED BY <2>2 DEF IsList
<1>6. \A k \in 0 .. tp - 1 : \A i \in 1 .. V : whole[k * V + i] = lists[k + 1][i]
  <2> TAKE k \in 0 .. tp - 1
  <2> TAKE i \in 1 .. V
  <2>1. k + 1 \in 1 .. tp /\ (k + 1) - 1 = k BY <1>1
  <2>2. lists[k + 1][i] = WholeLinear(name, k * V + i, "none", x) BY <1>4, <2>1
  <2>3. k * V + i \in 1 .. tp * V BY <1>1, InParts
  <2> QED BY <2>2, <2>3
<1>7. IsList(lists, tp) /\ IsList(whole, tp * V) BY DEF IsList
<1> HIDE DEF lists, whole
<1>8. FlattenSeq(lists) = whole BY <1>1, <1>5, <1>6, <1>7, FlattenIs
<1> QED BY <1>1, <1>3, <1>8 DEF whole, name

\* The products of the MLP: every gate with its own factor and its own column, once.
LEMMA MlpIs ==
  ASSUME NEW hf, NEW tp, EvenlyDivided(hf, tp), NEW params, FullyLoaded(params, hf, tp), NEW x
  PROVE  Mlp(params, hf, tp, x) = WholeMlp(hf, x)
<1> DEFINE I == hf.intermediate \div tp
           y == [i \in 1 .. tp * I |-> [silu |-> WholeLinear("gate_proj", i, "none", x),
                                        times |-> WholeLinear("up_proj", i, "none", x)]]
           weights == [rank \in Ranks(tp) |-> params[rank].down_proj]
           xs == [rank \in Ranks(tp) |->
                    SiluAndMul(ColumnParallel(params[rank].gate_up_proj,
                                              NoBias(params[rank].gate_up_proj), x))]
<1>1. tp \in Nat \ {0} /\ I \in Nat \ {0} /\ hf.intermediate = tp * I
  BY Sizes DEF EvenlyDivided
<1>2. ASSUME NEW rank \in 0 .. tp - 1
      PROVE  /\ IsList(params[rank].gate_up_proj, 2 * I)
             /\ PartAt(params[rank].gate_up_proj, 0, "gate_proj", rank, I)
             /\ PartAt(params[rank].gate_up_proj, I, "up_proj", rank, I)
             /\ PartAt(params[rank].down_proj, 0, "down_proj", rank, I)
  BY PartsAre
<1>3. Mlp(params, hf, tp, x) = RowParallel(weights, xs, tp) BY DEF Mlp
<1>4. WholeMlp(hf, x) = Products("down_proj", y, tp * I) BY <1>1 DEF WholeMlp, Products
<1> HIDE DEF I
<1>5. ASSUME NEW rank \in 0 .. tp - 1
      PROVE  /\ IsList(xs[rank], I)
             /\ \A i \in 1 .. I : /\ weights[rank][i] = Line("down_proj", rank * I + i)
                                 /\ xs[rank][i] = y[rank * I + i]
  <2> DEFINE w == params[rank].gate_up_proj
             c == ColumnParallel(w, NoBias(w), x)
  <2>1. xs[rank] = SiluAndMul(c) /\ weights[rank] = params[rank].down_proj BY DEF Ranks
  <2>2. DOMAIN w = 1 .. 2 * I BY <1>1, <1>2, ListLen
  <2>3. c = [i \in 1 .. 2 * I |-> [row |-> w[i], bias |-> Line("none", 0), x |-> x]]
    BY <2>2 DEF ColumnParallel, NoBias
  <2>4. Len(c) = 2 * I
    <3>1. IsList(c, 2 * I) BY <2>3 DEF IsList
    <3> QED BY <1>1, <3>1, ListLen
  <2>5. Len(c) \div 2 = I BY <1>1, <2>4
  <2>6. SiluAndMul(c) = [i \in 1 .. I |-> [silu |-> c[i], times |-> c[I + i]]]
    BY <2>5 DEF SiluAndMul
  <2>7. ASSUME NEW i \in 1 .. I
        PROVE  /\ c[i] = WholeLinear("gate_proj", rank * I + i, "none", x)
               /\ c[I + i] = WholeLinear("up_proj", rank * I + i, "none", x)
    <3>1. 0 + i = i /\ i \in 1 .. 2 * I /\ I + i \in 1 .. 2 * I BY <1>1
    <3>2. w[i] = Line("gate_proj", rank * I + i) /\ w[I + i] = Line("up_proj", rank * I + i)
      BY <1>2, <3>1 DEF PartAt
    <3> QED BY <2>3, <3>1, <3>2 DEF WholeLinear
  <2> HIDE DEF c
  <2>8. IsList(xs[rank], I) BY <2>1, <2>6 DEF IsList
  <2>9. ASSUME NEW i \in 1 .. I
        PROVE  /\ weights[rank][i] = Line("down_proj", rank * I + i)
               /\ xs[rank][i] = y[rank * I + i]
    <3>1. 0 + i = i BY <1>1
    <3>2. params[rank].down_proj[i] = Line("down_proj", rank * I + i) BY <1>2, <3>1 DEF PartAt
    <3>3. rank * I + i \in 1 .. tp * I BY <1>1, InParts
    <3>4. xs[rank][i] = [silu |-> c[i], times |-> c[I + i]] BY <2>1, <2>6
    <3> QED BY <2>1, <2>7, <3>2, <3>3, <3>4
  <2> QED BY <2>8, <2>9
<1> HIDE DEF xs, weights, y
<1>6. PartsOf(weights, xs, "down_proj", y, tp, I) BY <1>5 DEF PartsOf
<1>7. tp \in Nat /\ I \in Nat BY <1>1
<1> QED BY <1>3, <1>4, <1>6, <1>7, RowParallelIs

\* Quotient and remainder of the i-th of n in part k.
LEMMA PartOf ==
  ASSUME NEW k \in Nat, NEW n \in Nat \ {0}, NEW i \in 1 .. n
  PROVE  (k * n + i - 1) \div n = k /\ (k * n + i - 1) % n = i - 1
<1>1. ASSUME NEW r \in 0 .. n - 1 PROVE (k * n + r) \div n = k /\ (k * n + r) % n = r
  OBVIOUS
<1>2. i - 1 \in 0 .. n - 1 /\ k * n + (i - 1) = k * n + i - 1 OBVIOUS
<1> QED BY <1>1, <1>2

\* n heads of d entries each.
HeadsOf(s, n, d) == [h \in 1 .. n |-> [i \in 1 .. d |-> s[(h - 1) * d + i]]]

\* A list viewed as heads.
LEMMA HeadsAre ==
  ASSUME NEW n \in Nat, NEW d \in Nat \ {0}, NEW s, IsList(s, n * d)
  PROVE  Heads(s, d) = HeadsOf(s, n, d)
<1>1. n * d \in Nat /\ n * d = d * n OBVIOUS
<1>2. Len(s) = n * d BY <1>1, ListLen
<1>3. Len(s) \div d = n BY <1>1, <1>2, Quotient
<1>4. ASSUME NEW h \in 1 .. n
      PROVE  SubSeq(s, (h - 1) * d + 1, h * d) = [i \in 1 .. d |-> s[(h - 1) * d + i]]
  <2> DEFINE a == (h - 1) * d
  <2>1. a \in Nat /\ h * d = a + d OBVIOUS
  <2> HIDE DEF a
  <2>2. SubSeq(s, a + 1, a + d) = [i \in 1 .. (1 + (a + d) - (a + 1)) |-> s[i + (a + 1) - 1]]
    BY <2>1, SubSeqIs
  <2>3. 1 + (a + d) - (a + 1) = d BY <2>1
  <2>4. \A i \in 1 .. d : i + (a + 1) - 1 = a + i BY <2>1
  <2>5. SubSeq(s, a + 1, a + d) = [i \in 1 .. d |-> s[a + i]] BY <2>2, <2>3, <2>4
  <2> QED BY <2>1, <2>5 DEF a
<1> QED BY <1>3, <1>4 DEF Heads, HeadsOf

\* Head h of the projection of the whole model, and its normalised form.
WholeHead(hf, w, b, h, x) ==
  [d \in 1 .. hf.headDim |->
     WholeLinear(w, (h - 1) * hf.headDim + d, IF QkvBias(hf) THEN b ELSE "none", x)]

Normalised(hf, head) == IF HasQkNorm(hf) THEN [norm |-> head] ELSE [plain |-> head]

\* Entry d of what query head h attends to, its key and value head being g.
WholeOutput(hf, x, g, h, d) ==
  [q |-> Normalised(hf, WholeHead(hf, "q_proj", "q_bias", h, x)),
   k |-> Normalised(hf, WholeHead(hf, "k_proj", "k_bias", g, x)),
   v |-> WholeHead(hf, "v_proj", "v_bias", g, x)[d]]

\* The inputs of the whole o_proj, one head behind the other.
AttentionInputs(hf, tp, x) ==
  [n \in 1 .. tp * (QueryHeads(hf, tp) * hf.headDim) |->
     LET h == ((n - 1) \div hf.headDim) + 1
     IN  WholeOutput(hf, x, ((h - 1) \div Group(hf)) + 1, h, ((n - 1) % hf.headDim) + 1)]

\* A list holds, from off on, a rank's part of what w and b project, n heads.
ProjectedAt(qkv, off, hf, w, b, rank, n, x) ==
  \A j \in 1 .. n * hf.headDim :
    qkv[off + j] = WholeLinear(w, rank * (n * hf.headDim) + j,
                               IF QkvBias(hf) THEN b ELSE "none", x)

\* n heads of the whole projection, those behind the first c.
WholeHeads(hf, w, b, c, n, x) == [h \in 1 .. n |-> WholeHead(hf, w, b, c + h, x)]

\* A rank's part of a projection, viewed as heads: its own heads of the whole.
LEMMA ProjectionIs ==
  ASSUME NEW hf, hf.headDim \in Nat \ {0}, NEW qkv, NEW off \in Nat, NEW n \in Nat,
         NEW rank \in Nat, NEW w, NEW b, NEW x,
         ProjectedAt(qkv, off, hf, w, b, rank, n, x)
  PROVE  Heads(SubSeq(qkv, off + 1, off + n * hf.headDim), hf.headDim)
           = WholeHeads(hf, w, b, rank * n, n, x)
<1> DEFINE D == hf.headDim
           m == n * D
           s == SubSeq(qkv, off + 1, off + m)
           bias == IF QkvBias(hf) THEN b ELSE "none"
<1>1. D \in Nat \ {0} /\ m \in Nat OBVIOUS
<1> HIDE DEF D
<1>2. s = [i \in 1 .. m |-> qkv[off + i]]
  <2> HIDE DEF m
  <2>1. s = [i \in 1 .. (1 + (off + m) - (off + 1)) |-> qkv[i + (off + 1) - 1]]
    BY <1>1, SubSeqIs
  <2>2. 1 + (off + m) - (off + 1) = m BY <1>1
  <2>3. \A i \in 1 .. m : i + (off + 1) - 1 = off + i BY <1>1
  <2> QED BY <2>1, <2>2, <2>3
<1> HIDE DEF s
<1>3. IsList(s, n * D) BY <1>2 DEF IsList
<1>4. Heads(s, D) = HeadsOf(s, n, D) BY <1>1, <1>3, HeadsAre
<1>5. ASSUME NEW h \in 1 .. n, NEW d \in 1 .. D
      PROVE  s[(h - 1) * D + d] = WholeLinear(w, ((rank * n + h) - 1) * D + d, bias, x)
  <2> DEFINE j == (h - 1) * D + d
  <2>1. h - 1 \in 0 .. n - 1 /\ D \in Nat BY <1>1
  <2>2. j \in 1 .. n * D BY <2>1, InParts
  <2>3. ((rank * n + h) - 1) * D + d = rank * (n * D) + j
    <3>1. ASSUME NEW a \in Nat, NEW c \in Nat PROVE (rank * n + a) * c = rank * (n * c) + a * c
      OBVIOUS
    <3>2. (rank * n + h) - 1 = rank * n + (h - 1) /\ h - 1 \in Nat BY <2>1
    <3>3. (rank * n + (h - 1)) * D = rank * (n * D) + (h - 1) * D BY <2>1, <3>1, <3>2
    <3>4. rank * (n * D) \in Nat /\ (h - 1) * D \in Nat BY <2>1
    <3> QED BY <3>2, <3>3, <3>4
  <2> HIDE DEF j
  <2>4. s[j] = qkv[off + j] BY <1>2, <2>2
  <2>5. qkv[off + j] = WholeLinear(w, rank * (n * D) + j, bias, x) BY <2>2 DEF D, ProjectedAt
  <2> QED BY <2>3, <2>4, <2>5 DEF j
<1> HIDE DEF bias
<1>6. ASSUME NEW h \in 1 .. n
      PROVE  [d \in 1 .. D |-> s[(h - 1) * D + d]] = WholeHead(hf, w, b, rank * n + h, x)
  <2>1. WholeHead(hf, w, b, rank * n + h, x)
          = [d \in 1 .. D |-> WholeLinear(w, ((rank * n + h) - 1) * D + d, bias, x)]
    BY DEF WholeHead, D, bias
  <2> QED BY <1>5, <2>1
<1>7. HeadsOf(s, n, D) = WholeHeads(hf, w, b, rank * n, n, x)
  BY <1>6 DEF HeadsOf, WholeHeads
<1> QED BY <1>4, <1>7 DEF s, D

\* On its rank query head h has the key head that it has in the whole model.
KeyHeadKept(rank, keys, group, queries, h) ==
  /\ queries \div keys = group
  /\ ((h - 1) \div group) + 1 \in 1 .. keys
  /\ ((rank * queries + h - 1) \div group) + 1 = rank * keys + (((h - 1) \div group) + 1)
  /\ \E j \in 1 .. group :
       rank * queries + h = (rank * keys + ((h - 1) \div group)) * group + j

\* So it is if the key heads are divided among the ranks together with their query heads.
LEMMA KeyHeadIs ==
  ASSUME NEW rank \in Nat, NEW keys \in Nat \ {0}, NEW group \in Nat \ {0},
         NEW queries, queries = keys * group, NEW h \in 1 .. queries
  PROVE  KeyHeadKept(rank, keys, group, queries, h)
<1>1. queries \div keys = group BY Quotient
<1>2. keys \in Nat /\ group \in Nat /\ queries \in Nat OBVIOUS
<1>3. \A j \in 1 .. keys * group : \E k \in 0 .. keys - 1 : \E i \in 1 .. group : j = k * group + i
  BY <1>2, InParts
<1>4. PICK k \in 0 .. keys - 1 : \E i \in 1 .. group : h = k * group + i BY <1>3
<1>5. PICK i \in 1 .. group : h = k * group + i BY <1>4
<1>6. (h - 1) \div group = k
  <2>1. (k * group + i - 1) \div group = k BY PartOf
  <2> QED BY <1>5, <2>1
<1>7. rank * keys + k \in Nat OBVIOUS
<1>8. rank * queries + h = (rank * keys + k) * group + i
  <2>1. rank * (keys * group) + k * group = (rank * keys + k) * group
    <3>1. ASSUME NEW a \in Nat, NEW b \in Nat, NEW c \in Nat, NEW d \in Nat
          PROVE  a * (b * c) + d * c = (a * b + d) * c
      OBVIOUS
    <3> QED BY <1>2, <3>1
  <2>2. rank * queries \in Nat /\ k * group \in Nat BY <1>2
  <2>3. (rank * keys + k) * group \in Nat BY <1>7
  <2> QED BY <1>5, <2>1, <2>2, <2>3
<1>9. ((rank * keys + k) * group + i - 1) \div group = rank * keys + k BY <1>7, PartOf
<1>10. (rank * queries + h - 1) \div group = rank * keys + k BY <1>8, <1>9
<1>11. k + 1 \in 1 .. keys /\ (rank * keys + k) + 1 = rank * keys + (k + 1) BY <1>7
<1> QED BY <1>1, <1>6, <1>8, <1>10, <1>11 DEF KeyHeadKept

\* The entries of the inputs of the whole o_proj, by key head, query head of it and entry.
LEMMA InputsAre ==
  ASSUME NEW hf, NEW tp, EvenlyDivided(hf, tp), NEW x,
         NEW D, D = hf.headDim, NEW G, G = Group(hf),
         NEW k \in 0 .. hf.numKvHeads - 1, NEW j \in 1 .. G, NEW d \in 1 .. D,
         NEW h, h = k * G + j
  PROVE  /\ (h - 1) * D + d \in 1 .. tp * (QueryHeads(hf, tp) * D)
         /\ AttentionInputs(hf, tp, x)[(h - 1) * D + d] = WholeOutput(hf, x, k + 1, h, d)
<1> DEFINE H == QueryHeads(hf, tp)
           N == hf.numKvHeads
           n == (h - 1) * D + d
<1>1. /\ D \in Nat \ {0} /\ G \in Nat \ {0} /\ N \in Nat \ {0} /\ tp \in Nat /\ H \in Nat
      /\ hf.numHeads = tp * H /\ hf.numHeads = N * G
  <2>1. N * G = hf.numHeads BY Divided DEF EvenlyDivided, Group
  <2> QED BY <2>1, Sizes DEF EvenlyDivided
<1> HIDE DEF H, N
<1>2. k \in 0 .. N - 1 BY DEF N
<1>3. h \in 1 .. N * G BY <1>1, <1>2, InParts
<1>4. h - 1 \in 0 .. (N * G) - 1 /\ h \in Nat BY <1>1, <1>3
<1>5. n \in 1 .. (N * G) * D BY <1>1, <1>4, InParts
<1>6. (N * G) * D = tp * (H * D)
  <2>1. (tp * H) * D = tp * (H * D) BY <1>1
  <2> QED BY <1>1, <2>1
<1>7. n \in 1 .. tp * (H * D) BY <1>5, <1>6
<1>8. (n - 1) \div D = h - 1 /\ ((n - 1) % D) + 1 = d
  <2>1. h - 1 \in Nat /\ (h - 1) * D \in Nat BY <1>1, <1>4
  <2>2. (n - 1) \div D = h - 1 /\ (n - 1) % D = d - 1 BY <1>1, <2>1, PartOf
  <2> QED BY <2>2
<1>9. (h - 1) \div G = k BY <1>1, <1>2, PartOf
<1>10. (h - 1) + 1 = h BY <1>4
<1> HIDE DEF n
<1>11. AttentionInputs(hf, tp, x)[n]
         = LET hd == ((n - 1) \div D) + 1
           IN  WholeOutput(hf, x, ((hd - 1) \div G) + 1, hd, ((n - 1) % D) + 1)
  BY <1>7 DEF AttentionInputs, H
<1>12. AttentionInputs(hf, tp, x)[n] = WholeOutput(hf, x, k + 1, h, d)
  BY <1>8, <1>9, <1>10, <1>11
<1> QED BY <1>7, <1>12 DEF n, H

\* What one rank computes up to o_proj: its part of the inputs of the whole o_proj.
LEMMA OutputIs ==
  ASSUME NEW hf, NEW tp, EvenlyDivided(hf, tp), NEW params, FullyLoaded(params, hf, tp), NEW x,
         NEW rank \in 0 .. tp - 1, NEW m, m = QueryHeads(hf, tp) * hf.headDim,
         NEW out, out = AttentionOutput(params[rank], hf, tp, x)
  PROVE  /\ IsList(out, m)
         /\ \A i \in 1 .. m : out[i] = AttentionInputs(hf, tp, x)[rank * m + i]
<1> DEFINE P == params[rank]
           D == hf.headDim
           K == KeyHeads(hf, tp)
           G == Group(hf)
           Q == QueryHeads(hf, tp)
           QD == Q * D
           KD == K * D
           weight == P.qkv_proj
           bias == IF QkvBias(hf) THEN P.qkv_bias ELSE NoBias(weight)
           qkv == ColumnParallel(weight, bias, x)
           Bias(b) == IF QkvBias(hf) THEN b ELSE "none"
           q == Heads(SubSeq(qkv, 1, QD), D)
           k == Heads(SubSeq(qkv, QD + 1, QD + KD), D)
           v == Heads(SubSeq(qkv, QD + KD + 1, QD + 2 * KD), D)
           Attend(h) == LET g == KvHead(h, Len(q), Len(k))
                        IN  [d \in 1 .. D |-> [q |-> Normalised(hf, q[h]),
                                               k |-> Normalised(hf, k[g]), v |-> v[g][d]]]
           lists == [h \in 1 .. Len(q) |-> Attend(h)]
<1>1. /\ D \in Nat \ {0} /\ K \in Nat \ {0} /\ G \in Nat \ {0} /\ Q \in Nat \ {0}
      /\ tp \in Nat \ {0} /\ rank \in Nat /\ Q = K * G /\ hf.numKvHeads = tp * K
      /\ QSize(hf) \div tp = QD /\ KvSize(hf) \div tp = KD
  BY Sizes DEF EvenlyDivided, QueryHeads
<1>2. QD \in Nat /\ KD \in Nat BY <1>1
<1>3. out = FlattenSeq(lists)
  <2>1. QSize(hf) \div tp = QD /\ KvSize(hf) \div tp = KD BY <1>1
  <2> HIDE DEF QD, KD
  <2> QED BY <2>1, ZenonT(40) DEF AttentionOutput, Normalised
<1>4. /\ IsList(weight, QD + 2 * KD)
      /\ PartAt(weight, 0, "q_proj", rank, QD) /\ PartAt(weight, QD, "k_proj", rank, KD)
      /\ PartAt(weight, QD + KD, "v_proj", rank, KD)
      /\ QkvBias(hf) => /\ IsList(P.qkv_bias, QD + 2 * KD)
                        /\ PartAt(P.qkv_bias, 0, "q_bias", rank, QD)
                        /\ PartAt(P.qkv_bias, QD, "k_bias", rank, KD)
                        /\ PartAt(P.qkv_bias, QD + KD, "v_bias", rank, KD)
  BY PartsAre
<1> HIDE DEF P, QD, KD
<1>5. DOMAIN weight = 1 .. QD + 2 * KD
  <2>1. QD + 2 * KD \in Nat BY <1>2
  <2> QED BY <1>4, <2>1, ListLen
<1> HIDE DEF weight
<1>6. ASSUME NEW i \in 1 .. QD + 2 * KD
      PROVE  qkv[i] = [row |-> weight[i], x |-> x,
                       bias |-> IF QkvBias(hf) THEN P.qkv_bias[i] ELSE Line("none", 0)]
  BY <1>5 DEF ColumnParallel, NoBias
<1>7. ASSUME NEW off \in Nat, NEW n \in Nat, off + n <= QD + 2 * KD, NEW w, NEW b, b # "none",
             PartAt(weight, off, w, rank, n),
             QkvBias(hf) => PartAt(P.qkv_bias, off, b, rank, n)
      PROVE  \A j \in 1 .. n : qkv[off + j] = WholeLinear(w, rank * n + j, Bias(b), x)
  <2> TAKE j \in 1 .. n
  <2>1. off + j \in 1 .. QD + 2 * KD BY <1>2, <1>7
  <2>2. weight[off + j] = Line(w, rank * n + j) BY <1>7 DEF PartAt
  <2>3. QkvBias(hf) => P.qkv_bias[off + j] = Line(b, rank * n + j) BY <1>7 DEF PartAt
  <2> HIDE DEF qkv
  <2> QED BY <1>6, <1>7, <2>1, <2>2, <2>3 DEF WholeLinear
<1> HIDE DEF qkv
<1>8. q = WholeHeads(hf, "q_proj", "q_bias", rank * Q, Q, x)
  <2>1. \A j \in 1 .. QD : qkv[0 + j] = WholeLinear("q_proj", rank * QD + j, Bias("q_bias"), x)
    <3>1. 0 \in Nat /\ 0 + QD <= QD + 2 * KD /\ "q_bias" # "none" BY <1>2
    <3> HIDE DEF Bias
    <3> QED BY <1>2, <1>4, <1>7, <3>1
  <2>2. ProjectedAt(qkv, 0, hf, "q_proj", "q_bias", rank, Q, x) BY <2>1 DEF ProjectedAt, QD
  <2>3. 0 \in Nat /\ 0 + 1 = 1 /\ 0 + QD = QD BY <1>2
  <2>4. Heads(SubSeq(qkv, 0 + 1, 0 + QD), D) = WholeHeads(hf, "q_proj", "q_bias", rank * Q, Q, x)
    BY <1>1, <2>2, <2>3, ProjectionIs DEF QD
  <2> QED BY <2>3, <2>4
<1>9. k = WholeHeads(hf, "k_proj", "k_bias", rank * K, K, x)
  <2>1. \A j \in 1 .. KD : qkv[QD + j] = WholeLinear("k_proj", rank * KD + j, Bias("k_bias"), x)
    <3>1. QD + KD <= QD + 2 * KD /\ "k_bias" # "none" BY <1>2
    <3> HIDE DEF Bias
    <3> QED BY <1>2, <1>4, <1>7, <3>1
  <2>2. ProjectedAt(qkv, QD, hf, "k_proj", "k_bias", rank, K, x) BY <2>1 DEF ProjectedAt, KD
  <2> QED BY <1>1, <1>2, <2>2, ProjectionIs DEF KD
<1>10. v = WholeHeads(hf, "v_proj", "v_bias", rank * K, K, x)
  <2>1. QD + KD \in Nat /\ (QD + KD) + KD = QD + 2 * KD BY <1>2
  <2>2. \A j \in 1 .. KD :
          qkv[(QD + KD) + j] = WholeLinear("v_proj", rank * KD + j, Bias("v_bias"), x)
    <3>1. (QD + KD) + KD <= QD + 2 * KD /\ "v_bias" # "none" BY <1>2
    <3> HIDE DEF Bias
    <3> QED BY <1>2, <1>4, <1>7, <2>1, <3>1
  <2>3. ProjectedAt(qkv, QD + KD, hf, "v_proj", "v_bias", rank, K, x)
    BY <2>2 DEF ProjectedAt, KD
  <2>4. Heads(SubSeq(qkv, (QD + KD) + 1, (QD + KD) + KD), D)
          = WholeHeads(hf, "v_proj", "v_bias", rank * K, K, x)
    BY <1>1, <2>1, <2>3, ProjectionIs DEF KD
  <2> QED BY <2>1, <2>4
<1> HIDE DEF q, k, v
<1>11. Len(q) = Q /\ Len(k) = K BY <1>1, <1>8, <1>9 DEF WholeHeads
<1>12. ASSUME NEW h \in 1 .. Q, NEW d \in 1 .. D
       PROVE  /\ rank * QD + ((h - 1) * D + d) \in Nat
              /\ AttentionInputs(hf, tp, x)[rank * QD + ((h - 1) * D + d)] = Attend(h)[d]
  <2> DEFINE g == ((h - 1) \div G) + 1
             a == rank * K + (g - 1)
  <2>1. /\ Q \div K = G /\ g \in 1 .. K
        /\ ((rank * Q + h - 1) \div G) + 1 = rank * K + g
        /\ \E j \in 1 .. G : rank * Q + h = (rank * K + ((h - 1) \div G)) * G + j
    <3>1. KeyHeadKept(rank, K, G, Q, h) BY <1>1, KeyHeadIs
    <3> QED BY <3>1 DEF KeyHeadKept
  <2>2. KvHead(h, Len(q), Len(k)) = g BY <1>11, <2>1 DEF KvHead
  <2>5. PICK j \in 1 .. G : rank * Q + h = a * G + j
    <3>1. a = rank * K + ((h - 1) \div G) BY <1>1, <2>1
    <3> QED BY <2>1, <3>1
  <2> HIDE DEF g
  <2>3. /\ q[h] = WholeHead(hf, "q_proj", "q_bias", rank * Q + h, x)
        /\ k[g] = WholeHead(hf, "k_proj", "k_bias", rank * K + g, x)
        /\ v[g] = WholeHead(hf, "v_proj", "v_bias", rank * K + g, x)
    BY <1>8, <1>9, <1>10, <2>1 DEF WholeHeads
  <2>4. Attend(h)[d] = WholeOutput(hf, x, rank * K + g, rank * Q + h, d)
    BY <2>2, <2>3 DEF WholeOutput
  <2>7. a \in 0 .. tp * K - 1 /\ a + 1 = rank * K + g
    <3>1. rank * K + g \in 1 .. tp * K BY <1>1, <2>1, InParts
    <3>2. rank * K \in Nat /\ g \in Nat \ {0} /\ tp * K \in Nat BY <1>1, <2>1
    <3> QED BY <3>1, <3>2
  <2> HIDE DEF a
  <2>8. AttentionInputs(hf, tp, x)[((rank * Q + h) - 1) * D + d]
          = WholeOutput(hf, x, a + 1, rank * Q + h, d)
    <3>1. ASSUME NEW hd, hd = a * G + j
          PROVE  AttentionInputs(hf, tp, x)[(hd - 1) * D + d] = WholeOutput(hf, x, a + 1, hd, d)
      BY <1>1, <2>7, <3>1, InputsAre
    <3> QED BY <2>5, <3>1
  <2>9. ((rank * Q + h) - 1) * D + d = rank * QD + ((h - 1) * D + d)
    <3>1. ASSUME NEW e \in Nat, NEW b \in Nat, NEW f \in Nat, NEW l \in Nat
          PROVE  (e * b + l) * f = e * (b * f) + l * f
      OBVIOUS
    <3>2. h - 1 \in Nat /\ Q \in Nat /\ D \in Nat BY <1>1
    <3>3. (rank * Q + (h - 1)) * D = rank * (Q * D) + (h - 1) * D BY <1>1, <3>1, <3>2
    <3>4. rank * Q \in Nat /\ rank * (Q * D) \in Nat /\ (h - 1) * D \in Nat BY <1>1, <3>2
    <3>5. (rank * Q + h) - 1 = rank * Q + (h - 1) BY <3>4
    <3> QED BY <3>3, <3>4, <3>5 DEF QD
  <2>10. rank * QD \in Nat /\ (h - 1) * D \in Nat BY <1>1, <1>2
  <2> HIDE DEF Attend
  <2> QED BY <2>4, <2>7, <2>8, <2>9, <2>10
<1>13. lists = [h \in 1 .. Q |-> Attend(h)] BY <1>11
<1>14. \A h \in 1 .. Q : Attend(h) = [d \in 1 .. D |-> Attend(h)[d]] OBVIOUS
<1> HIDE DEF Attend, lists
<1> DEFINE part == [i \in 1 .. Q * D |-> AttentionInputs(hf, tp, x)[rank * QD + i]]
<1>15. IsList(lists, Q) /\ (\A h \in 1 .. Q : IsList(lists[h], D)) /\ IsList(part, Q * D)
  BY <1>13, <1>14 DEF IsList
<1>16. ASSUME NEW c \in 0 .. Q - 1, NEW d \in 1 .. D PROVE part[c * D + d] = lists[c + 1][d]
  <2>1. c + 1 \in 1 .. Q /\ (c + 1) - 1 = c /\ D \in Nat /\ Q \in Nat BY <1>1
  <2>2. c * D + d \in 1 .. Q * D BY <2>1, InParts
  <2>3. AttentionInputs(hf, tp, x)[rank * QD + (c * D + d)] = Attend(c + 1)[d]
    BY <1>12, <2>1
  <2> QED BY <1>13, <2>1, <2>2, <2>3
<1>17. FlattenSeq(lists) = part
  <2> HIDE DEF part
  <2>1. D \in Nat /\ Q \in Nat BY <1>1
  <2>2. \A c \in 0 .. Q - 1 : \A d \in 1 .. D : part[c * D + d] = lists[c + 1][d] BY <1>16
  <2> HIDE DEF Q, D
  <2> QED BY <1>15, <2>1, <2>2, FlattenIs
<1>18. m = QD BY DEF QD
<1> QED BY <1>3, <1>17, <1>18 DEF IsList, QD

\* The products of the attention layers: every head with its own key head and its own
\* columns, once.
LEMMA AttentionIs ==
  ASSUME NEW hf, NEW tp, EvenlyDivided(hf, tp), NEW params, FullyLoaded(params, hf, tp), NEW x
  PROVE  Attention(params, hf, tp, x) = WholeAttention(hf, x)
<1> DEFINE D == hf.headDim
           G == Group(hf)
           N == hf.numKvHeads
           m == QueryHeads(hf, tp) * D
           y == AttentionInputs(hf, tp, x)
           weights == [rank \in Ranks(tp) |-> params[rank].o_proj]
           xs == [rank \in Ranks(tp) |-> AttentionOutput(params[rank], hf, tp, x)]
           Term(g, j, d) == [col |-> Line("o_proj", ((g - 1) * G + j - 1) * D + d),
                             x |-> WholeOutput(hf, x, g, (g - 1) * G + j, d)]
           terms == {Term(g, j, d) : g \in 1 .. N, j \in 1 .. G, d \in 1 .. D}
<1>1. /\ D \in Nat \ {0} /\ G \in Nat \ {0} /\ N \in Nat \ {0} /\ tp \in Nat \ {0} /\ m \in Nat
      /\ N * G = tp * QueryHeads(hf, tp) /\ QueryHeads(hf, tp) \in Nat
  <2>1. N * G = hf.numHeads BY Divided DEF EvenlyDivided, Group
  <2>2. D \in Nat \ {0} /\ N \in Nat \ {0} /\ tp \in Nat \ {0} BY DEF EvenlyDivided
  <2>3. /\ G \in Nat \ {0} /\ QueryHeads(hf, tp) \in Nat
        /\ hf.numHeads = tp * QueryHeads(hf, tp)
    BY Sizes
  <2>4. m \in Nat BY <2>2, <2>3
  <2> QED BY <2>1, <2>2, <2>3, <2>4
<1>2. Attention(params, hf, tp, x) = RowParallel(weights, xs, tp) BY DEF Attention
<1>3. PartsOf(weights, xs, "o_proj", y, tp, m)
  <2> SUFFICES ASSUME NEW rank \in 0 .. tp - 1
               PROVE  /\ IsList(xs[rank], m)
                      /\ \A i \in 1 .. m : /\ weights[rank][i] = Line("o_proj", rank * m + i)
                                          /\ xs[rank][i] = y[rank * m + i]
    BY DEF PartsOf
  <2>1. PartAt(params[rank].o_proj, 0, "o_proj", rank, m) BY PartsAre
  <2>2. \A i \in 1 .. m : params[rank].o_proj[i] = Line("o_proj", rank * m + i)
    <3> TAKE i \in 1 .. m
    <3>1. 0 + i = i BY <1>1
    <3> QED BY <2>1, <3>1 DEF PartAt
  <2>3. xs[rank] = AttentionOutput(params[rank], hf, tp, x) /\ weights[rank] = params[rank].o_proj
    BY DEF Ranks
  <2> HIDE DEF xs, weights
  <2>4. IsList(xs[rank], m) /\ \A i \in 1 .. m : xs[rank][i] = y[rank * m + i]
    BY <2>3, OutputIs
  <2> QED BY <2>2, <2>3, <2>4
<1>4. RowParallel(weights, xs, tp) = Products("o_proj", y, tp * m)
  <2> HIDE DEF weights, xs, y, m
  <2> QED BY <1>1, <1>3, RowParallelIs
<1>5. WholeAttention(hf, x) = SetToBag(terms)
  <2>1. ASSUME NEW w, NEW b, NEW h
        PROVE  WholeHead(hf, w, b, h, x)
                 = [d \in 1 .. D |-> WholeLinear(w, (h - 1) * D + d,
                                                 IF QkvBias(hf) THEN b ELSE "none", x)]
    BY DEF WholeHead
  <2> QED BY DEF WholeAttention, WholeOutput, WholeHead, Normalised, Group
<1> HIDE DEF D, G, N
<1> DEFINE Product(n) == [col |-> Line("o_proj", n), x |-> y[n]]
<1>6. ASSUME NEW k \in 0 .. N - 1, NEW j \in 1 .. G, NEW d \in 1 .. D
      PROVE  /\ ((k * G + j) - 1) * D + d \in 1 .. tp * m
             /\ Product(((k * G + j) - 1) * D + d) = Term(k + 1, j, d)
  <2>1. ASSUME NEW h, h = k * G + j
        PROVE  /\ (h - 1) * D + d \in 1 .. tp * m
               /\ y[(h - 1) * D + d] = WholeOutput(hf, x, k + 1, h, d)
    BY <2>1, InputsAre DEF D, G, N
  <2>2. (k + 1) - 1 = k BY <1>1
  <2>3. Term(k + 1, j, d) = [col |-> Line("o_proj", ((k * G + j) - 1) * D + d),
                             x |-> WholeOutput(hf, x, k + 1, k * G + j, d)]
    BY <1>1, <2>2
  <2> HIDE DEF y, Term, m
  <2> QED BY <2>1, <2>3
<1>7. ASSUME NEW n \in 1 .. tp * m
      PROVE  \E k \in 0 .. N - 1 : \E j \in 1 .. G : \E d \in 1 .. D :
               n = ((k * G + j) - 1) * D + d
  <2>1. tp * m = (N * G) * D
    <3>1. ASSUME NEW a \in Nat, NEW b \in Nat, NEW c \in Nat PROVE a * (b * c) = (a * b) * c
      OBVIOUS
    <3> QED BY <1>1, <3>1
  <2>2. N * G \in Nat /\ D \in Nat /\ N \in Nat /\ G \in Nat BY <1>1
  <2>3. \A i \in 1 .. (N * G) * D : \E h \in 0 .. (N * G) - 1 : \E d \in 1 .. D : i = h * D + d
    BY <2>2, InParts
  <2>4. PICK h \in 0 .. (N * G) - 1 : \E d \in 1 .. D : n = h * D + d BY <2>1, <2>3
  <2>5. PICK d \in 1 .. D : n = h * D + d BY <2>4
  <2>6. \A i \in 1 .. N * G : \E k \in 0 .. N - 1 : \E j \in 1 .. G : i = k * G + j
    BY <2>2, InParts
  <2>7. h + 1 \in 1 .. N * G /\ (h + 1) - 1 = h BY <2>2
  <2>8. PICK k \in 0 .. N - 1 : \E j \in 1 .. G : h + 1 = k * G + j BY <2>6, <2>7
  <2>9. PICK j \in 1 .. G : h + 1 = k * G + j BY <2>8
  <2>10. (k * G + j) - 1 = h BY <2>7, <2>9
  <2> QED BY <2>5, <2>10
<1>8. terms = {Product(n) : n \in 1 .. tp * m}
  <2>1. ASSUME NEW g \in 1 .. N, NEW j \in 1 .. G, NEW d \in 1 .. D
        PROVE  Term(g, j, d) \in {Product(n) : n \in 1 .. tp * m}
    <3>1. g - 1 \in 0 .. N - 1 /\ (g - 1) + 1 = g BY <1>1
    <3> HIDE DEF Term, Product, m
    <3> QED BY <1>6, <3>1
  <2>2. ASSUME NEW n \in 1 .. tp * m PROVE Product(n) \in terms
    <3>1. PICK k \in 0 .. N - 1 : \E j \in 1 .. G : \E d \in 1 .. D :
            n = ((k * G + j) - 1) * D + d
      BY <1>7
    <3>2. PICK j \in 1 .. G : \E d \in 1 .. D : n = ((k * G + j) - 1) * D + d BY <3>1
    <3>3. PICK d \in 1 .. D : n = ((k * G + j) - 1) * D + d BY <3>2
    <3>4. k + 1 \in 1 .. N BY <1>1
    <3> HIDE DEF Term, Product, m
    <3> QED BY <1>6, <3>3, <3>4
  <2> HIDE DEF Term, Product, m
  <2> QED BY <2>1, <2>2
<1>9. Products("o_proj", y, tp * m) = SetToBag(terms)
  <2> HIDE DEF terms, m
  <2> QED BY <1>8 DEF Products
<1> QED BY <1>2, <1>4, <1>5, <1>9

(***************************************************************************)
(* The stack of layers.                                                    *)
(***************************************************************************)
\* Sums of bags are bags, in any order, and nothing added changes nothing.
LEMMA BagSums ==
  /\ \A S : IsABag(SetToBag(S))
  /\ \A A, B : IsABag(A) /\ IsABag(B) => IsABag(A (+) B) /\ A (+) B = B (+) A
  /\ \A B : IsABag(B) => B (+) EmptyBag = B
<1>1. ASSUME NEW S PROVE IsABag(SetToBag(S)) BY DEF IsABag, SetToBag
<1>2. ASSUME NEW A, NEW B, IsABag(A), IsABag(B) PROVE IsABag(A (+) B) /\ A (+) B = B (+) A
  <2>1. /\ \A e \in DOMAIN A : A[e] \in Nat /\ A[e] > 0
        /\ \A e \in DOMAIN B : B[e] \in Nat /\ B[e] > 0
    BY <1>2 DEF IsABag
  <2>2. DOMAIN (A (+) B) = DOMAIN A \cup DOMAIN B /\ DOMAIN (B (+) A) = DOMAIN A \cup DOMAIN B
    BY DEF (+)
  <2>3. ASSUME NEW e \in DOMAIN A \cup DOMAIN B
        PROVE  (A (+) B)[e] \in Nat /\ (A (+) B)[e] > 0 /\ (A (+) B)[e] = (B (+) A)[e]
    BY <2>1 DEF (+)
  <2>4. A (+) B = [e \in DOMAIN A \cup DOMAIN B |-> (A (+) B)[e]]
        /\ B (+) A = [e \in DOMAIN A \cup DOMAIN B |-> (B (+) A)[e]]
    BY DEF (+)
  <2>5. A (+) B = B (+) A BY <2>3, <2>4
  <2> QED BY <2>2, <2>3, <2>4, <2>5 DEF IsABag
<1>3. ASSUME NEW B, IsABag(B) PROVE B (+) EmptyBag = B
  <2>1. DOMAIN EmptyBag = {} BY DEF EmptyBag, SetToBag
  <2>2. /\ B = [e \in DOMAIN B |-> B[e]] /\ \A e \in DOMAIN B : B[e] \in Nat
    BY <1>3 DEF IsABag
  <2>3. B (+) EmptyBag = [e \in DOMAIN B |-> B[e]] BY <2>1, <2>2 DEF (+)
  <2> QED BY <2>2, <2>3
<1> QED BY <1>1, <1>2, <1>3

\* A sublayer of the whole model adds what it makes of the normalised stream.
NormOf(name, l, h) == SetToBag({[norm |-> name, layer |-> l, x |-> h]})
TermOf(name, l, h, norm) == SetToBag({[sublayer |-> name, layer |-> l, x |-> NormOf(norm, l, h)]})
AfterAttention(l, h) == h (+) TermOf("attention", l, h, "input")
AfterLayer(l, h) ==
  AfterAttention(l, h) (+) TermOf("mlp", l, AfterAttention(l, h), "post_attention")

\* f is the stream of the whole model after each of n layers.
IsStream(f, n, embedded) ==
  f = [l \in 0 .. n |-> IF l = 0 THEN embedded ELSE AfterLayer(l, f[l - 1])]

\* There is a stream.
LEMMA StreamExists ==
  ASSUME NEW n \in Nat, NEW embedded
  PROVE  \E f : IsStream(f, n, embedded)
<1> DEFINE T == {m \in Nat : \E f : IsStream(f, m, embedded)}
<1>1. 0 \in T
  <2>1. IsStream([l \in 0 .. 0 |-> embedded], 0, embedded) BY DEF IsStream
  <2> QED BY <2>1
<1>2. ASSUME NEW m \in Nat, m \in T PROVE m + 1 \in T
  <2>1. PICK f : IsStream(f, m, embedded) BY <1>2
  <2> DEFINE g == [l \in 0 .. m + 1 |-> IF l = m + 1 THEN AfterLayer(m + 1, f[m]) ELSE f[l]]
  <2>2. ASSUME NEW l \in 0 .. m + 1
        PROVE  g[l] = IF l = 0 THEN embedded ELSE AfterLayer(l, g[l - 1])
    <3>1. CASE l = m + 1
      <4>1. g[l] = AfterLayer(l, f[m]) /\ g[l - 1] = f[m] /\ l # 0 BY <3>1
      <4> QED BY <4>1
    <3>2. CASE l # m + 1
      <4>1. l \in 0 .. m /\ (l # 0 => l - 1 \in 0 .. m) BY <3>2
      <4>2. g[l] = f[l] /\ (l # 0 => g[l - 1] = f[l - 1]) BY <3>2, <4>1
      <4>3. f[l] = IF l = 0 THEN embedded ELSE AfterLayer(l, f[l - 1])
        BY <2>1, <4>1 DEF IsStream
      <4> QED BY <4>2, <4>3
    <3> QED BY <3>1, <3>2
  <2>3. IsStream(g, m + 1, embedded)
    <3>1. g = [l \in 0 .. m + 1 |-> g[l]] OBVIOUS
    <3> HIDE DEF g
    <3> QED BY <2>2, <3>1 DEF IsStream
  <2> HIDE DEF g
  <2> QED BY <2>3
<1>3. n \in T
  <2> HIDE DEF T
  <2> QED BY <1>1, <1>2, Induction
<1> QED BY <1>3

\* The state after layer l, if hidden and residual added up to h before it.
LayerState(l, h) ==
  [hidden |-> TermOf("mlp", l, AfterAttention(l, h), "post_attention"),
   residual |-> AfterAttention(l, h)]

\* A decoder layer turns a state that adds up to the stream into one that adds up to what
\* the whole model has after its sublayers.
LEMMA LayerIs ==
  ASSUME NEW hf, hf.dtype # "float32", NEW l, NEW state, NEW h,
         IsABag(h), state.hidden (+) state.residual = h
  PROVE  /\ DecoderLayer(hf, state, l) = LayerState(l, h)
         /\ LayerState(l, h).hidden (+) LayerState(l, h).residual = AfterLayer(l, h)
         /\ IsABag(AfterLayer(l, h))
<1> DEFINE normed == AddNorm(hf, "input", l, state)
           attn == Sublayer("attention", l, normed)
           added == AddNorm(hf, "post_attention", l, attn)
           next == Sublayer("mlp", l, added)
           a == AfterAttention(l, h)
           term == TermOf("mlp", l, a, "post_attention")
<1>1. normed = [hidden |-> NormOf("input", l, h), residual |-> h] BY DEF AddNorm, NormOf
<1>2. attn = [hidden |-> TermOf("attention", l, h, "input"), residual |-> h]
  <2> HIDE DEF normed
  <2> QED BY <1>1 DEF Sublayer, TermOf
<1>3. attn.hidden (+) attn.residual = a
  <2> HIDE DEF attn
  <2>1. IsABag(TermOf("attention", l, h, "input")) BY BagSums DEF TermOf
  <2> QED BY <1>2, <2>1, BagSums DEF AfterAttention
<1> HIDE DEF attn
<1>4. added = [hidden |-> NormOf("post_attention", l, a), residual |-> a]
  <2> HIDE DEF a
  <2> QED BY <1>3 DEF AddNorm, NormOf
<1>5. IsABag(a) BY BagSums DEF AfterAttention, TermOf
<1>6. next = LayerState(l, h)
  <2> HIDE DEF added
  <2> QED BY <1>4 DEF Sublayer, TermOf, LayerState
<1>7. DecoderLayer(hf, state, l) = next BY DEF DecoderLayer, attn
<1> HIDE DEF next
<1>8. IsABag(term) BY BagSums DEF TermOf
<1>9. term (+) a = AfterLayer(l, h) /\ IsABag(AfterLayer(l, h))
  <2>1. AfterLayer(l, h) = a (+) term BY DEF AfterLayer
  <2> HIDE DEF a, term
  <2> QED BY <1>5, <1>8, <2>1, BagSums
<1>10. LayerState(l, h).hidden = term /\ LayerState(l, h).residual = a BY DEF LayerState
<1> QED BY <1>6, <1>7, <1>9, <1>10

\* The stack computes what the whole model does: hidden and residual always add up to the
\* stream.
LEMMA StackIs ==
  ASSUME NEW hf, hf.dtype # "float32", hf.numLayers \in Nat, NEW embedded, IsABag(embedded)
  PROVE  ModelForward(hf, embedded) = WholeStack(hf, embedded)
<1> DEFINE n == hf.numLayers
           start == [hidden |-> embedded, residual |-> EmptyBag]
           stream[l \in 0 .. n] == IF l = 0 THEN embedded ELSE AfterLayer(l, stream[l - 1])
           state[l \in 0 .. n] == IF l = 0 THEN start ELSE DecoderLayer(hf, state[l - 1], l)
<1>1. n \in Nat OBVIOUS
<1>2. ModelForward(hf, embedded) = AddNorm(hf, "final", 0, state[n]).hidden BY DEF ModelForward
<1>3. WholeStack(hf, embedded) = NormOf("final", 0, stream[n])
  BY DEF WholeStack, NormOf, AfterLayer, AfterAttention, TermOf
<1> HIDE DEF n
<1>4. stream = [l \in 0 .. n |-> IF l = 0 THEN embedded ELSE AfterLayer(l, stream[l - 1])]
  <2>1. \E f : f = [l \in 0 .. n |-> IF l = 0 THEN embedded ELSE AfterLayer(l, f[l - 1])]
    <3>1. PICK f : IsStream(f, n, embedded) BY <1>1, StreamExists
    <3> QED BY <3>1 DEF IsStream
  <2> QED BY <2>1
<1> HIDE DEF stream
<1> DEFINE Sum(s) == s.hidden (+) s.residual
           g == [l \in 0 .. n |-> IF l = 0 THEN start ELSE LayerState(l, stream[l - 1])]
           T == {l \in Nat : l <= n =>
                   IsABag(stream[l]) /\ Sum(g[l]) = stream[l]}
<1>5. 0 \in T
  <2>1. stream[0] = embedded /\ g[0] = start BY <1>1, <1>4
  <2>2. Sum(start) = embedded BY BagSums
  <2> HIDE DEF g, Sum
  <2> QED BY <2>1, <2>2
<1>6. ASSUME NEW l \in Nat, l \in T PROVE l + 1 \in T
  <2> SUFFICES ASSUME l + 1 <= n
               PROVE  IsABag(stream[l + 1]) /\ Sum(g[l + 1]) = stream[l + 1]
    <3> HIDE DEF g, Sum
    <3> QED OBVIOUS
  <2>1. l + 1 \in 0 .. n /\ l + 1 # 0 /\ (l + 1) - 1 = l BY <1>1
  <2>2. stream[l + 1] = AfterLayer(l + 1, stream[l]) BY <1>4, <2>1
  <2>3. g[l + 1] = LayerState(l + 1, stream[l]) BY <2>1
  <2>4. IsABag(stream[l]) /\ g[l].hidden (+) g[l].residual = stream[l]
    <3>1. l <= n BY <1>1
    <3> HIDE DEF g
    <3> QED BY <1>6, <3>1
  <2> HIDE DEF g
  <2> QED BY <2>2, <2>3, <2>4, LayerIs
<1>7. \A l \in Nat : l \in T
  <2> HIDE DEF T
  <2> QED BY <1>5, <1>6, Induction
<1>8. ASSUME NEW l \in 0 .. n
      PROVE  IsABag(stream[l]) /\ g[l].hidden (+) g[l].residual = stream[l]
  <2> HIDE DEF g
  <2> QED BY <1>1, <1>7
<1> HIDE DEF T
<1>9. ASSUME NEW l \in 0 .. n
      PROVE  g[l] = IF l = 0 THEN start ELSE DecoderLayer(hf, g[l - 1], l)
  <2>1. CASE l = 0 BY <2>1
  <2>2. CASE l # 0
    <3>1. l - 1 \in 0 .. n BY <1>1, <2>2
    <3>2. DecoderLayer(hf, g[l - 1], l) = LayerState(l, stream[l - 1])
      <4> HIDE DEF g
      <4> QED BY <1>8, <3>1, LayerIs
    <3>3. g[l] = LayerState(l, stream[l - 1]) BY <2>2
    <3> HIDE DEF g
    <3> QED BY <2>2, <3>2, <3>3
  <2> QED BY <2>1, <2>2
<1>10. g = [l \in 0 .. n |-> IF l = 0 THEN start ELSE DecoderLayer(hf, g[l - 1], l)]
  <2>1. g = [l \in 0 .. n |-> g[l]] OBVIOUS
  <2> HIDE DEF g
  <2> QED BY <1>9, <2>1
<1>11. state = [l \in 0 .. n |-> IF l = 0 THEN start ELSE DecoderLayer(hf, state[l - 1], l)]
  <2> HIDE DEF g
  <2> QED BY <1>10
<1> HIDE DEF state
<1> DEFINE U == {l \in Nat : l <= n => state[l] = g[l]}
<1>12. 0 \in U
  <2>1. state[0] = start /\ g[0] = start BY <1>1, <1>11
  <2> HIDE DEF g
  <2> QED BY <2>1
<1>13. ASSUME NEW l \in Nat, l \in U PROVE l + 1 \in U
  <2> HIDE DEF g
  <2> SUFFICES ASSUME l + 1 <= n PROVE state[l + 1] = g[l + 1] OBVIOUS
  <2>1. l + 1 \in 0 .. n /\ l + 1 # 0 /\ (l + 1) - 1 = l BY <1>1
  <2>2. state[l + 1] = DecoderLayer(hf, state[l], l + 1) BY <1>11, <2>1
  <2>3. g[l + 1] = DecoderLayer(hf, g[l], l + 1) BY <1>9, <2>1
  <2>4. state[l] = g[l] BY <1>1, <1>13
  <2> QED BY <2>2, <2>3, <2>4
<1>14. state[n] = g[n]
  <2>1. n \in U
    <3> HIDE DEF U
    <3> QED BY <1>1, <1>12, <1>13, Induction
  <2> HIDE DEF g
  <2> QED BY <1>1, <2>1
<1>15. AddNorm(hf, "final", 0, g[n]).hidden = NormOf("final", 0, stream[n])
  <2> HIDE DEF g
  <2>1. g[n].hidden (+) g[n].residual = stream[n] BY <1>1, <1>8
  <2> QED BY <2>1 DEF AddNorm, NormOf
<1> HIDE DEF g
<1> QED BY <1>2, <1>3, <1>14, <1>15 DEF n, state, stream

\* A model that is fully loaded is whole.
LEMMA LoadedIsWhole ==
  ASSUME NEW hf, NEW tp, EvenlyDivided(hf, tp), hf.dtype # "float32",
         NEW params, FullyLoaded(params, hf, tp)
  PROVE  IsWhole(params, hf, tp)
<1> DEFINE embedded == SetToBag({[embedded |-> "tokens"]})
<1>1. hf.numLayers \in Nat BY DEF EvenlyDivided
<1>2. IsABag(embedded) BY BagSums
<1> HIDE DEF embedded
<1>3. ModelForward(hf, embedded) = WholeStack(hf, embedded) BY <1>1, <1>2, StackIs
<1> QED BY <1>3, EmbedIs, LmHeadIs, MlpIs, AttentionIs DEF IsWhole, embedded

===========================================================================
