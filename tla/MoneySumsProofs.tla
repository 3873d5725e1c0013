---------------------------- MODULE MoneySumsProofs ----------------------------
(***************************************************************************)
(* What Sum returns, for any number of rows.  The library's induction       *)
(* theorems take an operator; here the induction is over a SET of indices   *)
(* (RangeInduction), from the well-foundedness of < on Nat.                 *)
(***************************************************************************)
EXTENDS MoneySums, TLAPS, NaturalsInduction, WellFoundedInduction

\* A set that holds 0 and, with every index, the next one holds them all.
LEMMA RangeInduction ==
    ASSUME NEW n \in Nat, NEW T, 0 \in T, \A i \in 1..n : i - 1 \in T => i \in T
    PROVE  0..n \subseteq T
<1> DEFINE Missing == (0..n) \ T
<1>1. SUFFICES ASSUME Missing # {} PROVE FALSE
  OBVIOUS
<1>2. IsWellFoundedOn(OpToRel(<, Nat), Nat)
  BY NatLessThanWellFounded
<1>3. Missing \subseteq Nat
  OBVIOUS
<1>4. \E i \in Missing : \A k \in Missing : ~(<<k, i>> \in OpToRel(<, Nat))
  <2> HIDE DEF Missing
  <2> QED BY <1>1, <1>2, <1>3, WFMin
<1>5. PICK i \in Missing : \A k \in Missing : ~(k < i)
  BY <1>4, <1>3 DEF OpToRel
<1>6. i # 0 /\ i \in 1..n
  BY <1>5
<1>7. i - 1 \in T
  BY <1>5, <1>6
<1> QED BY <1>5, <1>6, <1>7

\* g is the sequence of partial sums of f.
Partials(g, f, n) ==
    g \in [0..n -> Nat] /\ g[0] = 0 /\ \A i \in 1..n : g[i] = g[i - 1] + f[i]

LEMMA PartialsExist ==
    ASSUME NEW n \in Nat, NEW f \in [1..n -> Nat]
    PROVE  \E g : Partials(g, f, n)
<1> DEFINE T == {k \in 0..n : \E g : Partials(g, f, k)}
<1>1. 0 \in T
  <2>1. Partials([i \in 0..0 |-> 0], f, 0)
    BY DEF Partials
  <2> QED BY <2>1
<1>2. ASSUME NEW k \in 1..n, k - 1 \in T PROVE k \in T
  <2>1. PICK g : Partials(g, f, k - 1)
    BY <1>2
  <2> DEFINE h == [i \in 0..k |-> IF i = k THEN g[k - 1] + f[k] ELSE g[i]]
  <2>2. g[k - 1] \in Nat /\ f[k] \in Nat
    BY <2>1 DEF Partials
  <2>3. h \in [0..k -> Nat]
    BY <2>1, <2>2 DEF Partials
  <2>4. h[0] = 0
    BY <2>1 DEF Partials
  <2>5. ASSUME NEW i \in 1..k PROVE h[i] = h[i - 1] + f[i]
    <3>1. CASE i = k
      BY <3>1
    <3>2. CASE i # k
      BY <3>2, <2>1 DEF Partials
    <3> QED BY <3>1, <3>2
  <2> HIDE DEF h
  <2>6. Partials(h, f, k)
    BY <2>3, <2>4, <2>5 DEF Partials
  <2> QED BY <2>6
<1>3. 0..n \subseteq T
  <2> HIDE DEF T
  <2> QED BY <1>1, <1>2, RangeInduction
<1> QED BY <1>3

LEMMA SumIsLastPartial ==
    ASSUME NEW n \in Nat, NEW f \in [1..n -> Nat]
    PROVE  \E g : Partials(g, f, n) /\ Sum(f, n) = g[n]
<1> DEFINE s == CHOOSE s : s = [i \in 0..n |-> IF i = 0 THEN 0 ELSE s[i - 1] + f[i]]
<1>1. PICK g : Partials(g, f, n)
  BY PartialsExist
<1>2. g = [i \in 0..n |-> IF i = 0 THEN 0 ELSE g[i - 1] + f[i]]
  BY <1>1 DEF Partials
<1>3. s = [i \in 0..n |-> IF i = 0 THEN 0 ELSE s[i - 1] + f[i]]
  BY <1>2
<1>4. Sum(f, n) = s[n]
  BY DEF Sum
<1> HIDE DEF s
<1>5. s[0] = 0 /\ \A i \in 1..n : s[i] = s[i - 1] + f[i]
  BY <1>3
<1> DEFINE T == {k \in 0..n : s[k] = g[k]}
<1>6. 0 \in T
  BY <1>1, <1>5 DEF Partials
<1>7. ASSUME NEW k \in 1..n, k - 1 \in T PROVE k \in T
  BY <1>1, <1>5, <1>7 DEF Partials
<1>8. 0..n \subseteq T
  <2> HIDE DEF T
  <2> QED BY <1>6, <1>7, RangeInduction
<1> QED BY <1>1, <1>4, <1>8

LEMMA SumType ==
    ASSUME NEW n \in Nat, NEW f \in [1..n -> Nat]
    PROVE  Sum(f, n) \in Nat
BY SumIsLastPartial DEF Partials

\* A table of zeros adds up to zero.
LEMMA SumOfZeros ==
    ASSUME NEW n \in Nat, NEW f \in [1..n -> Nat], \A i \in 1..n : f[i] = 0
    PROVE  Sum(f, n) = 0
<1>1. PICK g : Partials(g, f, n) /\ Sum(f, n) = g[n]
  BY SumIsLastPartial
<1> DEFINE T == {k \in 0..n : g[k] = 0}
<1>2. 0 \in T
  BY <1>1 DEF Partials
<1>3. ASSUME NEW k \in 1..n, k - 1 \in T PROVE k \in T
  BY <1>1, <1>3 DEF Partials
<1>4. 0..n \subseteq T
  <2> HIDE DEF T
  <2> QED BY <1>2, <1>3, RangeInduction
<1> QED BY <1>1, <1>4

\* Smaller rows, smaller sum.
LEMMA SumMonotone ==
    ASSUME NEW n \in Nat, NEW f \in [1..n -> Nat], NEW h \in [1..n -> Nat],
           \A i \in 1..n : f[i] <= h[i]
    PROVE  Sum(f, n) <= Sum(h, n)
<1>1. PICK a : Partials(a, f, n) /\ Sum(f, n) = a[n]
  BY SumIsLastPartial
<1>2. PICK b : Partials(b, h, n) /\ Sum(h, n) = b[n]
  BY SumIsLastPartial
<1> DEFINE T == {k \in 0..n : a[k] <= b[k]}
<1>3. 0 \in T
  BY <1>1, <1>2 DEF Partials
<1>4. ASSUME NEW k \in 1..n, k - 1 \in T PROVE k \in T
  BY <1>1, <1>2, <1>4 DEF Partials
<1>5. 0..n \subseteq T
  <2> HIDE DEF T
  <2> QED BY <1>3, <1>4, RangeInduction
<1> QED BY <1>1, <1>2, <1>5

\* The sum of the sums is the sum over the row totals.
LEMMA SumAdds ==
    ASSUME NEW n \in Nat, NEW f \in [1..n -> Nat], NEW g \in [1..n -> Nat],
           NEW h \in [1..n -> Nat], \A i \in 1..n : h[i] = f[i] + g[i]
    PROVE  Sum(h, n) = Sum(f, n) + Sum(g, n)
<1>1. PICK a : Partials(a, f, n) /\ Sum(f, n) = a[n]
  BY SumIsLastPartial
<1>2. PICK b : Partials(b, g, n) /\ Sum(g, n) = b[n]
  BY SumIsLastPartial
<1>3. PICK c : Partials(c, h, n) /\ Sum(h, n) = c[n]
  BY SumIsLastPartial
<1> DEFINE T == {k \in 0..n : c[k] = a[k] + b[k]}
<1>4. 0 \in T
  BY <1>1, <1>2, <1>3 DEF Partials
<1>5. ASSUME NEW k \in 1..n, k - 1 \in T PROVE k \in T
  BY <1>1, <1>2, <1>3, <1>5 DEF Partials
<1>6. 0..n \subseteq T
  <2> HIDE DEF T
  <2> QED BY <1>4, <1>5, RangeInduction
<1> QED BY <1>1, <1>2, <1>3, <1>6

\* f and h differ in row r only.
DifferAt(f, h, n, r) ==
    /\ f \in [1..n -> Nat] /\ h \in [1..n -> Nat]
    /\ r \in 1..n /\ \A i \in 1..n : i # r => h[i] = f[i]

\* Changing one row changes the sum by the difference.
LEMMA SumChange ==
    ASSUME NEW n \in Nat, NEW f, NEW h, NEW r, DifferAt(f, h, n, r)
    PROVE  Sum(h, n) = Sum(f, n) - f[r] + h[r]
<1>0. /\ f \in [1..n -> Nat] /\ h \in [1..n -> Nat]
      /\ r \in 1..n /\ \A i \in 1..n : i # r => h[i] = f[i]
  BY DEF DifferAt
<1>1. PICK a : Partials(a, f, n) /\ Sum(f, n) = a[n]
  BY <1>0, SumIsLastPartial
<1>2. PICK b : Partials(b, h, n) /\ Sum(h, n) = b[n]
  BY <1>0, SumIsLastPartial
<1> DEFINE T == {k \in 0..n : b[k] = IF k < r THEN a[k] ELSE a[k] - f[r] + h[r]}
<1>3. 0 \in T
  BY <1>0, <1>1, <1>2 DEF Partials
<1>4. ASSUME NEW k \in 1..n, k - 1 \in T PROVE k \in T
  <2>1. a[k] = a[k - 1] + f[k] /\ b[k] = b[k - 1] + h[k]
    BY <1>0, <1>1, <1>2 DEF Partials
  <2>2. a[k - 1] \in Nat /\ b[k - 1] \in Nat /\ f[k] \in Nat /\ h[k] \in Nat /\ f[r] \in Nat /\ h[r] \in Nat
    <3>1. a[k - 1] \in Nat /\ b[k - 1] \in Nat
      BY <1>1, <1>2 DEF Partials
    <3> QED BY <1>0, <3>1
  <2>3. CASE k < r
    BY <1>0, <2>1, <2>2, <2>3, <1>4
  <2>4. CASE k = r
    BY <1>0, <2>1, <2>2, <2>4, <1>4
  <2>5. CASE k > r
    <3>1. b[k - 1] = a[k - 1] - f[r] + h[r]
      BY <1>0, <2>5, <1>4
    <3>2. h[k] = f[k] /\ ~(k < r)
      BY <1>0, <2>5
    <3>3. b[k] = a[k] - f[r] + h[r]
      <4> HIDE DEF T
      <4> QED BY <1>0, <2>1, <2>2, <3>1, <3>2
    <3> QED BY <1>0, <3>2, <3>3
  <2> QED BY <1>0, <2>3, <2>4, <2>5
<1>5. 0..n \subseteq T
  <2> HIDE DEF T
  <2> QED BY <1>0, <1>3, <1>4, RangeInduction
<1> QED BY <1>0, <1>1, <1>2, <1>5
================================================================================
