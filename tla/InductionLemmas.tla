-------------------------- MODULE InductionLemmas --------------------------
(***************************************************************************)
(* Induction over the naturals for one set at a time: what the proofs of   *)
(* the decoders and of the parser need of CHOOSE and of recursive          *)
(* functions.                                                              *)
(***************************************************************************)
EXTENDS Integers, FiniteSetsExt, FiniteSetTheorems, TLAPS

(* A set of naturals has a least element.  The sets 0 .. x are compared,   *)
(* as subsets of a finite one.                                             *)
THEOREM LeastNatural ==
  ASSUME NEW T, T \subseteq Nat, T # {}
  PROVE  \E x \in T : \A y \in T : x <= y
<1>1. PICK N \in T : TRUE
  OBVIOUS
<1> DEFINE S == 0 .. N
           UpTo(x) == 0 .. x
           R == {x \in T : x <= N}
           I == {UpTo(x) : x \in R}
<1>2. IsWellFoundedOn(StrictSubsetOrdering(S), SUBSET S)
  <2>1. IsFiniteSet(S)
    BY FS_Interval
  <2> HIDE DEF S
  <2> QED
    BY <2>1, FS_StrictSubsetOrderingWellFounded, FS_FiniteSubsetsOfFinite
<1>3. N \in Nat /\ N \in R
  OBVIOUS
<1>4. I \subseteq SUBSET S /\ I # {}
  <2>1. \A x \in R : UpTo(x) \subseteq S
    OBVIOUS
  <2>2. \A x \in R : UpTo(x) \in I
    OBVIOUS
  <2> HIDE DEF S, UpTo
  <2> QED
    BY <1>3, <2>1, <2>2
<1>5. \E x \in I : \A y \in I : ~ (<<y, x>> \in StrictSubsetOrdering(S))
  <2> HIDE DEF I, S
  <2> QED
    BY <1>2, <1>4, WFMin
<1>6. PICK x \in R : \A y \in R : ~ (<<UpTo(y), UpTo(x)>> \in StrictSubsetOrdering(S))
  BY <1>5
<1>7. ASSUME NEW y \in R, ~(x <= y) PROVE FALSE
  <2>1. UpTo(y) \subseteq UpTo(x) /\ UpTo(x) # UpTo(y) /\ UpTo(x) \subseteq S
    BY <1>7
  <2>2. <<UpTo(y), UpTo(x)>> \in StrictSubsetOrdering(S)
    BY <2>1 DEF StrictSubsetOrdering
  <2> QED
    BY <2>2, <1>6
<1>8. ASSUME NEW y \in T PROVE x <= y
  <2>1. CASE y <= N
    BY <2>1, <1>7
  <2>2. CASE ~(y <= N)
    <3>1. x \in Nat /\ x <= N /\ y \in Nat
      OBVIOUS
    <3> HIDE DEF R
    <3> QED
      BY <2>2, <3>1, <1>3
  <2> QED
    BY <2>1, <2>2
<1> QED
  BY <1>8

(* A set that has 0 and with each number the next has them all.            *)
THEOREM SetInduction ==
  ASSUME NEW S, 0 \in S, \A n \in Nat : n \in S => n + 1 \in S
  PROVE  Nat \subseteq S
<1> DEFINE T == {n \in Nat : n \notin S}
<1> SUFFICES ASSUME T # {} PROVE FALSE
  OBVIOUS
<1>1. PICK x \in T : \A y \in T : x <= y
  <2> HIDE DEF T
  <2>1. T \subseteq Nat
    BY DEF T
  <2> QED
    BY <2>1, LeastNatural
<1>2. x \in Nat /\ x \notin S /\ x # 0
  OBVIOUS
<1>3. x - 1 \in Nat /\ (x - 1) + 1 = x /\ ~(x <= x - 1)
  BY <1>2
<1>4. x - 1 \in S
  BY <1>1, <1>3
<1> QED
  BY <1>2, <1>3, <1>4

(* A bounded set of naturals has a maximum, and that is what Max is.       *)
THEOREM GreatestNatural ==
  ASSUME NEW n \in Nat, NEW T, T \subseteq 0 .. n, T # {}
  PROVE  Max(T) \in T /\ \A y \in T : y <= Max(T)
<1> DEFINE D == {n - y : y \in T}
<1>1. D \subseteq Nat /\ D # {}
  <2>1. \A y \in T : n - y \in Nat
    OBVIOUS
  <2>2. PICK y \in T : TRUE
    OBVIOUS
  <2>3. n - y \in D
    BY <2>2
  <2> QED
    BY <2>1, <2>3
<1>2. PICK d \in D : \A e \in D : d <= e
  <2> HIDE DEF D
  <2> QED
    BY <1>1, LeastNatural
<1>3. PICK x \in T : d = n - x
  BY <1>2
<1>4. ASSUME NEW y \in T PROVE x >= y
  <2>1. n - x <= n - y
    BY <1>2, <1>3
  <2> QED
    BY <2>1
<1>5. Max(T) \in T /\ \A y \in T : Max(T) >= y
  BY <1>3, <1>4 DEF Max
<1> QED
  BY <1>5

(* What Max is, once it is known.                                          *)
THEOREM MaxIs ==
  ASSUME NEW x \in Int, NEW T, T \subseteq Int, x \in T, \A y \in T : y <= x
  PROVE  Max(T) = x
<1>1. Max(T) \in T /\ \A y \in T : Max(T) >= y
  <2>1. \A y \in T : x >= y
    OBVIOUS
  <2> QED
    BY <2>1 DEF Max
<1>2. Max(T) \in Int /\ Max(T) >= x /\ Max(T) <= x
  BY <1>1
<1> QED
  BY <1>2

(* Induction from n down to 1.                                             *)
THEOREM DescendingInduction ==
  ASSUME NEW n \in Nat, NEW T,
         \A i \in 1 .. n : (\A k \in i + 1 .. n : k \in T) => i \in T
  PROVE  \A i \in 1 .. n : i \in T
<1> DEFINE S == {m \in Nat : \A i \in 1 .. n : n - m < i => i \in T}
<1>1. 0 \in S
  OBVIOUS
<1>2. ASSUME NEW m \in Nat, m \in S PROVE m + 1 \in S
  <2>1. ASSUME NEW i \in 1 .. n, n - (m + 1) < i PROVE i \in T
    <3>1. \A k \in i + 1 .. n : k \in 1 .. n /\ n - m < k
      BY <2>1
    <3>2. \A k \in i + 1 .. n : k \in T
      BY <1>2, <3>1
    <3> QED
      BY <3>2
  <2> QED
    BY <2>1
<1>3. n \in S
  <2> HIDE DEF S
  <2> QED
    BY <1>1, <1>2, SetInduction
<1>4. \A i \in 1 .. n : n - n < i
  OBVIOUS
<1> QED
  BY <1>3, <1>4

(* A function of 1 .. n may be defined by its values at greater arguments: *)
(* b is the body of the definition, as a function of the argument and of   *)
(* the function that is defined.                                           *)
IsBody(n, S, b) ==
  /\ S # {} /\ b \in [(1 .. n) \X [1 .. n -> S] -> S]
  /\ \A i \in 1 .. n : \A g, h \in [1 .. n -> S] :
       (\A k \in i + 1 .. n : g[k] = h[k]) => b[<<i, g>>] = b[<<i, h>>]

THEOREM DescendingRecursion ==
  ASSUME NEW n \in Nat, NEW S, NEW b, IsBody(n, S, b)
  PROVE  \E f \in [1 .. n -> S] : \A i \in 1 .. n : f[i] = b[<<i, f>>]
<1> USE DEF IsBody
<1> DEFINE Good(f, m) == \A i \in 1 .. n : n - m < i => f[i] = b[<<i, f>>]
           T == {m \in Nat : \E f \in [1 .. n -> S] : Good(f, m)}
<1>1. 0 \in T
  <2>1. PICK z \in S : TRUE
    OBVIOUS
  <2>2. [i \in 1 .. n |-> z] \in [1 .. n -> S]
    OBVIOUS
  <2>3. \A f : Good(f, 0)
    OBVIOUS
  <2> HIDE DEF Good
  <2> QED
    BY <2>2, <2>3
<1>2. ASSUME NEW m \in Nat, m \in T PROVE m + 1 \in T
  <2>1. PICK f \in [1 .. n -> S] : Good(f, m)
    BY <1>2
  <2>2. PICK j : j = n - m
    OBVIOUS
  <2>3. CASE j \notin 1 .. n
    <3>1. \A i \in 1 .. n : n - (m + 1) < i => n - m < i
      BY <2>2, <2>3
    <3>2. Good(f, m + 1)
      BY <2>1, <3>1
    <3> HIDE DEF Good
    <3> QED
      BY <3>2
  <2>4. CASE j \in 1 .. n
    <3>1. PICK v : v = b[<<j, f>>]
      OBVIOUS
    <3>2. v \in S
      BY <2>4, <3>1
    <3>3. PICK h : h = [f EXCEPT ![j] = v]
      OBVIOUS
    <3>4. h \in [1 .. n -> S] /\ h[j] = v /\ \A k \in 1 .. n : k # j => h[k] = f[k]
      BY <2>4, <3>2, <3>3
    <3>5. ASSUME NEW i \in 1 .. n, n - (m + 1) < i PROVE h[i] = b[<<i, h>>]
      <4>1. i = j \/ (i # j /\ n - m < i)
        BY <2>2, <3>5
      <4>2. \A k \in i + 1 .. n : k \in 1 .. n /\ k # j
        BY <2>2, <3>5
      <4>3. \A k \in i + 1 .. n : h[k] = f[k]
        BY <3>4, <4>2
      <4>4. b[<<i, h>>] = b[<<i, f>>]
        BY <3>4, <4>3
      <4>5. CASE i = j
        BY <3>1, <3>4, <4>4, <4>5
      <4>6. CASE i # j /\ n - m < i
        BY <2>1, <3>4, <4>4, <4>6
      <4> QED
        BY <4>1, <4>5, <4>6
    <3>6. Good(h, m + 1)
      BY <3>5
    <3> HIDE DEF Good
    <3> QED
      BY <3>4, <3>6
  <2> QED
    BY <2>3, <2>4
<1>3. n \in T
  <2> HIDE DEF T
  <2> QED
    BY <1>1, <1>2, SetInduction
<1>4. PICK f \in [1 .. n -> S] : Good(f, n)
  BY <1>3
<1>5. \A i \in 1 .. n : n - n < i
  OBVIOUS
<1> QED
  BY <1>4, <1>5

=============================================================================
