---------------------------- MODULE NaturalSets ----------------------------
(***************************************************************************)
(* Facts about natural numbers that the proofs share: induction in terms   *)
(* of sets, recursion, sums, quotients, powers of two, and places in an    *)
(* order.                                                                  *)
(***************************************************************************)
EXTENDS Integers, FiniteSetTheorems, WellFoundedInduction, TLAPS

(* Every non-empty set of natural numbers has a least element.             *)
LEMMA LeastExists ==
  ASSUME NEW S \in SUBSET Nat, S # {}
  PROVE  \E i \in S : \A k \in S : i <= k
<1> DEFINE R == {pair \in Nat \X Nat : pair[1] < pair[2]}
<1>1. IsWellFoundedOn(R, Nat)
  BY NatLessThanWellFounded DEF OpToRel
<1>2. \A y, x \in S : y < x => <<y, x>> \in R
  OBVIOUS
<1> HIDE DEF R
<1>3. PICK x \in S : \A y \in S : ~(<<y, x>> \in R)
  BY <1>1, WFMin
<1>4. \A k \in S : x \in Nat /\ k \in Nat /\ ~(k < x)
  BY <1>2, <1>3
<1>5. \A k \in S : x <= k
  BY <1>4
<1> QED BY <1>5

(* A set that has the first of the numbers up to n, and with each of them  *)
(* the next, has them all.                                                 *)
LEMMA AllUpTo ==
  ASSUME NEW first \in Nat, NEW n \in Nat, NEW S,
         first <= n => first \in S,
         \A k \in first..(n - 1) : k \in S => k + 1 \in S
  PROVE  first..n \subseteq S
<1> DEFINE missing == {k \in first..n : k \notin S}
<1>1. SUFFICES ASSUME missing # {}
               PROVE  FALSE
  OBVIOUS
<1>2. missing \in SUBSET Nat
  OBVIOUS
<1>3. PICK k \in missing : \A j \in missing : k <= j
  BY <1>1, <1>2, LeastExists
<1>4. k \in first..n /\ k \notin S /\ k # first
  BY <1>3
<1>5. k - 1 \in first..(n - 1) /\ k - 1 \in first..n /\ ~(k <= k - 1)
  BY <1>4
<1>6. k - 1 \in S
  BY <1>3, <1>5
<1>7. (k - 1) + 1 \in S
  BY <1>5, <1>6
<1>8. (k - 1) + 1 = k
  BY <1>4
<1> QED BY <1>4, <1>7, <1>8

(* What is recursively defined on the numbers up to n: a value for 0, and a *)
(* step from the value for a number to that for the next.                  *)
StepsUpTo(n, Values) == [1..n -> [Values -> Values]]

IsRecursion(f, n, Values, base, step) ==
  /\ f \in [0..n -> Values]
  /\ f[0] = base
  /\ \A k \in 1..n : f[k] = step[k][f[k - 1]]

(* There is such a function.                                               *)
LEMMA RecursionExists ==
  ASSUME NEW n \in Nat, NEW Values, NEW base \in Values, NEW step \in StepsUpTo(n, Values)
  PROVE  \E f : IsRecursion(f, n, Values, base, step)
<1> USE DEF StepsUpTo
<1> DEFINE Defines(f, m) ==
             /\ f \in [0..m -> Values]
             /\ f[0] = base
             /\ \A k \in 1..m : f[k] = step[k][f[k - 1]]
           Reached == {m \in 0..n : \E f : Defines(f, m)}
<1>1. 0 \in Reached
  <2> DEFINE f == [k \in 0..0 |-> base]
  <2>1. f[0] = base /\ f \in [0..0 -> Values] /\ 0 \in 0..n
    OBVIOUS
  <2>2. Defines(f, 0)
    BY <2>1
  <2> HIDE DEF f, Defines
  <2> QED BY <2>1, <2>2
<1>2. ASSUME NEW m \in 0..(n - 1), m \in Reached
      PROVE  m + 1 \in Reached
  <2>1. PICK f : Defines(f, m)
    BY <1>2
  <2>2. m + 1 \in 1..n /\ m \in Nat /\ m \in 0..m /\ f[m] \in Values
    BY <2>1
  <2> DEFINE next == step[m + 1][f[m]]
             g == [k \in 0..(m + 1) |-> IF k = m + 1 THEN next ELSE f[k]]
  <2>3. next \in Values
    BY <2>2
  <2> HIDE DEF next
  <2>4. \A k \in 0..(m + 1) : k = m + 1 \/ k \in 0..m
    BY <2>2
  <2>5. g \in [0..(m + 1) -> Values]
    BY <2>1, <2>3, <2>4
  <2>6. g[0] = base
    BY <2>1, <2>2
  <2>7. ASSUME NEW k \in 1..(m + 1)
        PROVE  g[k] = step[k][g[k - 1]]
    <3>1. k - 1 \in 0..m /\ k - 1 \in 0..(m + 1) /\ k - 1 # m + 1 /\ k \in 0..(m + 1)
      BY <2>2
    <3>2. g[k - 1] = f[k - 1]
      BY <3>1
    <3>3. CASE k = m + 1
      <4>1. g[k] = next /\ k - 1 = m
        BY <2>2, <3>1, <3>3
      <4> QED BY <3>2, <3>3, <4>1 DEF next
    <3>4. CASE k # m + 1
      <4>1. k \in 1..m /\ g[k] = f[k]
        BY <2>2, <3>1, <3>4
      <4> QED BY <2>1, <3>2, <4>1
    <3> QED BY <3>3, <3>4
  <2> HIDE DEF g
  <2>8. Defines(g, m + 1)
    BY <2>5, <2>6, <2>7
  <2> HIDE DEF Defines
  <2> QED BY <2>2, <2>8
<1> HIDE DEF Reached
<1>3. 0..n \subseteq Reached
  BY <1>1, <1>2, AllUpTo
<1>4. PICK f : Defines(f, n)
  <2>1. n \in Reached
    BY <1>3
  <2> QED BY <2>1 DEF Reached
<1> QED BY <1>4 DEF IsRecursion

-----------------------------------------------------------------------------
(* Sums                                                                    *)

(* The sum of the first n values of a function.                            *)
SumTo(f, n) ==
  LET sum[k \in 0..n] == IF k = 0 THEN 0 ELSE sum[k - 1] + f[k]
  IN  sum[n]

(* The partial sums.                                                       *)
IsSum(s, f, n) ==
  /\ s \in [0..n -> Int]
  /\ s[0] = 0
  /\ \A k \in 1..n : s[k] = s[k - 1] + f[k]

(* The partial sums of whole numbers exist.                                *)
LEMMA SumExists ==
  ASSUME NEW n \in Nat, NEW f, \A k \in 1..n : f[k] \in Int
  PROVE  \E s : /\ IsSum(s, f, n)
                /\ s = [k \in 0..n |-> IF k = 0 THEN 0 ELSE s[k - 1] + f[k]]
<1> DEFINE step == [k \in 1..n |-> [sum \in Int |-> sum + f[k]]]
<1>1. step \in StepsUpTo(n, Int) /\ 0 \in Int
  BY DEF StepsUpTo
<1>2. \A k \in 1..n : \A sum \in Int : step[k][sum] = sum + f[k]
  OBVIOUS
<1> HIDE DEF step
<1>3. PICK s : IsRecursion(s, n, Int, 0, step)
  BY <1>1, RecursionExists
<1>4. s \in [0..n -> Int] /\ s[0] = 0 /\ \A k \in 1..n : s[k] = step[k][s[k - 1]]
  BY <1>3 DEF IsRecursion
<1>5. \A k \in 0..n : k = 0 \/ (k # 0 /\ k \in 1..n)
  OBVIOUS
<1>6. \A k \in 1..n : k - 1 \in 0..n
  OBVIOUS
<1>7. \A k \in 1..n : s[k] = s[k - 1] + f[k]
  BY <1>2, <1>4, <1>6
<1>8. \A k \in 0..n : s[k] = IF k = 0 THEN 0 ELSE s[k - 1] + f[k]
  BY <1>4, <1>5, <1>7
<1>9. s = [k \in 0..n |-> IF k = 0 THEN 0 ELSE s[k - 1] + f[k]]
  BY <1>4, <1>8
<1> QED BY <1>4, <1>7, <1>9 DEF IsSum

(* However it is computed, it is the same sum.                             *)
LEMMA SumIsUnique ==
  ASSUME NEW n \in Nat, NEW f, NEW s, IsSum(s, f, n), \A k \in 1..n : f[k] \in Int
  PROVE  SumTo(f, n) = s[n] /\ s[n] \in Int
<1> DEFINE Sums(u) == u = [k \in 0..n |-> IF k = 0 THEN 0 ELSE u[k - 1] + f[k]]
           sum == CHOOSE u : Sums(u)
<1>1. SumTo(f, n) = sum[n]
  BY DEF SumTo
<1>2. PICK u : IsSum(u, f, n) /\ Sums(u)
  BY SumExists
<1>3. Sums(sum)
  BY <1>2
<1> HIDE DEF sum
<1> DEFINE Good == {k \in 0..n : sum[k] = s[k]}
<1>4. 0 \in Good
  <2>1. sum[0] = 0
    BY <1>3
  <2> QED BY <2>1 DEF IsSum
<1>5. ASSUME NEW k \in 0..(n - 1), k \in Good
      PROVE  k + 1 \in Good
  <2>1. k + 1 \in 0..n /\ k + 1 # 0 /\ k + 1 \in 1..n /\ (k + 1) - 1 = k
    OBVIOUS
  <2>2. sum[k + 1] = sum[k] + f[k + 1]
    BY <1>3, <2>1
  <2>3. s[k + 1] = s[k] + f[k + 1]
    BY <2>1 DEF IsSum
  <2> QED BY <1>5, <2>1, <2>2, <2>3
<1> HIDE DEF Good
<1>6. 0..n \subseteq Good
  BY <1>4, <1>5, AllUpTo
<1>7. n \in Good /\ n \in 0..n
  BY <1>6
<1> QED BY <1>1, <1>7 DEF Good, IsSum

(* The sum of a function of which one value is changed.                    *)
LEMMA SumChanges ==
  ASSUME NEW n \in Nat, NEW f, NEW g, NEW j \in 1..n, NEW d \in Int,
         \A k \in 1..n : /\ f[k] \in Int
                         /\ g[k] = IF k = j THEN f[k] + d ELSE f[k]
  PROVE  SumTo(g, n) = SumTo(f, n) + d
<1>1. \A k \in 1..n : f[k] \in Int /\ g[k] \in Int
  OBVIOUS
<1>2. PICK s : IsSum(s, f, n)
  BY <1>1, SumExists
<1>3. PICK u : IsSum(u, g, n)
  BY <1>1, SumExists
<1>4. SumTo(f, n) = s[n] /\ SumTo(g, n) = u[n]
  BY <1>1, <1>2, <1>3, SumIsUnique
<1> DEFINE Good == {k \in 0..n : u[k] = IF j \in 1..k THEN s[k] + d ELSE s[k]}
<1>5. 0 \in Good
  BY <1>2, <1>3 DEF IsSum
<1>6. ASSUME NEW k \in 0..(n - 1), k \in Good
      PROVE  k + 1 \in Good
  <2>1. /\ k + 1 \in 0..n /\ k + 1 \in 1..n /\ k \in 0..n /\ (k + 1) - 1 = k
        /\ (j \in 1..(k + 1) <=> j \in 1..k \/ j = k + 1)
        /\ (j = k + 1 => j \notin 1..k)
    OBVIOUS
  <2>2. s[k + 1] = s[k] + f[k + 1] /\ u[k + 1] = u[k] + g[k + 1]
    BY <1>2, <1>3, <2>1 DEF IsSum
  <2>3. s[k] \in Int /\ f[k + 1] \in Int
    BY <1>2, <1>3, <2>1 DEF IsSum
  <2>4. g[k + 1] = IF j = k + 1 THEN f[k + 1] + d ELSE f[k + 1]
    BY <2>1
  <2>5. u[k] = IF j \in 1..k THEN s[k] + d ELSE s[k]
    BY <1>6
  <2>6. u[k + 1] = IF j \in 1..(k + 1) THEN s[k + 1] + d ELSE s[k + 1]
    <3>1. CASE j = k + 1
      BY <2>1, <2>2, <2>3, <2>4, <2>5, <3>1
    <3>2. CASE j # k + 1 /\ j \in 1..k
      BY <2>1, <2>2, <2>3, <2>4, <2>5, <3>2
    <3>3. CASE j # k + 1 /\ j \notin 1..k
      BY <2>1, <2>2, <2>3, <2>4, <2>5, <3>3
    <3> QED BY <3>1, <3>2, <3>3
  <2> QED BY <2>1, <2>6
<1> HIDE DEF Good
<1>7. 0..n \subseteq Good
  BY <1>5, <1>6, AllUpTo
<1>8. u[n] = s[n] + d
  BY <1>7 DEF Good
<1> QED BY <1>4, <1>8

(* Equal values have equal sums.                                           *)
LEMMA SumOfEqual ==
  ASSUME NEW n \in Nat, NEW f, NEW g, \A k \in 1..n : f[k] \in Int /\ g[k] = f[k]
  PROVE  SumTo(g, n) = SumTo(f, n)
<1>1. \A k \in 1..n : g[k] \in Int
  OBVIOUS
<1>2. PICK s : IsSum(s, f, n)
  BY SumExists
<1>3. IsSum(s, g, n)
  BY <1>2 DEF IsSum
<1> QED BY <1>1, <1>2, <1>3, SumIsUnique

(* Zeros have the sum zero.                                                *)
LEMMA SumOfZeros ==
  ASSUME NEW n \in Nat, NEW f, \A k \in 1..n : f[k] = 0
  PROVE  SumTo(f, n) = 0
<1> DEFINE s == [k \in 0..n |-> 0]
<1>1. IsSum(s, f, n)
  <2>1. \A k \in 1..n : k \in 0..n /\ k - 1 \in 0..n
    OBVIOUS
  <2> QED BY <2>1 DEF IsSum
<1>2. s[n] = 0
  OBVIOUS
<1> HIDE DEF s
<1> QED BY <1>1, <1>2, SumIsUnique

-----------------------------------------------------------------------------
(* Products and quotients                                                  *)

(* Products of natural numbers are natural numbers.                        *)
LEMMA ProductType == \A m, n \in Nat : m * n \in Nat
  BY SMTT(30)

(* What quotient and remainder are.                                        *)
LEMMA Division ==
  ASSUME NEW n \in Nat, NEW d \in Nat \ {0}
  PROVE  /\ n \div d \in Nat
         /\ n % d \in 0..(d - 1)
         /\ n = d * (n \div d) + (n % d)
  OBVIOUS

(* There is only one way to divide.                                        *)
LEMMA DivisionIsUnique ==
  ASSUME NEW n \in Nat, NEW d \in Nat \ {0}, NEW q \in Nat, NEW r \in 0..(d - 1),
         n = d * q + r
  PROVE  n \div d = q /\ n % d = r
  BY SMTT(30)

-----------------------------------------------------------------------------
(* Powers of two                                                           *)

(* A name for 2 ^ n, which the provers do not take apart.                  *)
Pow(n) == 2 ^ n

(* A function that tells the elements of a set apart.                      *)
LEMMA IsInjection ==
  ASSUME NEW S, NEW T, NEW f \in [S -> T], \A x, y \in S : f[x] = f[y] => x = y
  PROVE  f \in Injection(S, T)
  BY DEF Injection, IsInjective

(* They are the numbers of subsets.                                        *)
LEMMA PowDoubles ==
  ASSUME NEW n \in Nat
  PROVE  Pow(n) \in Nat /\ Pow(n + 1) = Pow(n) + Pow(n)
<1> DEFINE S == 1..n
           x == n + 1
           Old == SUBSET S
           New == {A \cup {x} : A \in Old}
           f == [A \in Old |-> A \cup {x}]
<1>1. IsFiniteSet(S) /\ Cardinality(S) = n
  BY FS_Interval
<1>2. IsFiniteSet(Old) /\ Cardinality(Old) = Pow(n) /\ Pow(n) \in Nat
  <2> HIDE DEF S
  <2>1. IsFiniteSet(Old) /\ Cardinality(Old) = 2 ^ Cardinality(S)
    BY <1>1, FS_SUBSET
  <2>2. Cardinality(Old) = Pow(n)
    BY <1>1, <2>1 DEF Pow
  <2>3. Cardinality(Old) \in Nat
    BY <2>1, FS_CardinalityType
  <2> QED BY <2>1, <2>2, <2>3
<1>3. Cardinality(SUBSET (1..x)) = Pow(x)
  <2>1. IsFiniteSet(1..x) /\ Cardinality(1..x) = x
    BY FS_Interval
  <2> HIDE DEF x
  <2>2. Cardinality(SUBSET (1..x)) = 2 ^ Cardinality(1..x)
    BY <2>1, FS_SUBSET
  <2> QED BY <2>1, <2>2 DEF Pow
<1>4. \A A \in Old : x \notin A
  OBVIOUS
<1>5. f \in Bijection(Old, New)
  <2>1. f \in [Old -> New] /\ \A B \in New : \E A \in Old : f[A] = B
    OBVIOUS
  <2>2. ASSUME NEW A \in Old, NEW B \in Old, f[A] = f[B]
        PROVE  A = B
    <3>1. A \cup {x} = B \cup {x} /\ x \notin A /\ x \notin B
      BY <1>4, <2>2
    <3> QED BY <3>1
  <2> HIDE DEF f, Old, New
  <2>3. f \in Injection(Old, New)
    BY <2>1, <2>2, IsInjection
  <2>4. f \in Surjection(Old, New)
    BY <2>1 DEF Surjection
  <2> QED BY <2>3, <2>4 DEF Bijection
<1>6. IsFiniteSet(New) /\ Cardinality(New) = Pow(n)
  <2>1. ExistsBijection(Old, New)
    BY <1>5 DEF ExistsBijection
  <2> HIDE DEF Old, New
  <2> QED BY <1>2, <2>1, FS_Bijection
<1>7. SUBSET (1..x) = Old \cup New
  <2>1. 1..x = S \cup {x}
    OBVIOUS
  <2> HIDE DEF S, x
  <2>2. ASSUME NEW A \in SUBSET (S \cup {x}) PROVE A \in Old \cup New
    <3>1. CASE x \notin A
      BY <3>1
    <3>2. CASE x \in A
      <4>1. A \ {x} \in Old /\ A = (A \ {x}) \cup {x}
        BY <3>2
      <4> QED BY <4>1
    <3> QED BY <3>1, <3>2
  <2>3. ASSUME NEW A \in Old \cup New PROVE A \in SUBSET (S \cup {x})
    OBVIOUS
  <2> QED BY <2>1, <2>2, <2>3
<1>8. Old \cap New = {}
  BY <1>4
<1>9. Cardinality(Old \cup New) = Cardinality(Old) + Cardinality(New)
  <2> HIDE DEF Old, New
  <2>1. Cardinality(Old \cup New) = Cardinality(Old) + Cardinality(New) - Cardinality({})
    BY <1>2, <1>6, <1>8, FS_Union
  <2> QED BY <1>2, <1>6, <2>1, FS_EmptySet
<1> HIDE DEF Old, New
<1> QED BY <1>2, <1>3, <1>6, <1>7, <1>9

LEMMA PowOfZero == Pow(0) = 1
  BY DEF Pow

LEMMA PowType ==
  ASSUME NEW n \in Nat
  PROVE  Pow(n) \in Nat \ {0}
<1> DEFINE Good == {k \in 0..n : Pow(k) \in Nat \ {0}}
<1>1. 0 \in Good
  BY PowOfZero
<1>2. ASSUME NEW k \in 0..(n - 1), k \in Good
      PROVE  k + 1 \in Good
  BY <1>2, PowDoubles
<1> HIDE DEF Good
<1>3. 0..n \subseteq Good
  BY <1>1, <1>2, AllUpTo
<1> QED BY <1>3 DEF Good

(* A power of a sum is a product of powers.                                *)
LEMMA PowOfSum ==
  ASSUME NEW m \in Nat, NEW n \in Nat
  PROVE  Pow(m + n) = Pow(m) * Pow(n)
<1> DEFINE Good == {k \in 0..n : Pow(m + k) = Pow(m) * Pow(k)}
<1>1. 0 \in Good
  BY PowOfZero, PowType
<1>2. ASSUME NEW k \in 0..(n - 1), k \in Good
      PROVE  k + 1 \in Good
  <2> DEFINE a == Pow(m)
             b == Pow(k)
  <2>1. k \in Nat /\ m + k \in Nat /\ m + (k + 1) = (m + k) + 1 /\ k + 1 \in 0..n
    OBVIOUS
  <2>2. Pow(m + (k + 1)) = a * b + a * b
    BY <1>2, <2>1, PowDoubles
  <2>3. Pow(k + 1) = b + b
    BY <2>1, PowDoubles
  <2>4. a \in Nat /\ b \in Nat
    BY <2>1, PowType
  <2> HIDE DEF a, b
  <2>5. a * b + a * b = a * (b + b)
    BY <2>4, SMTT(30)
  <2> QED BY <2>1, <2>2, <2>3, <2>5 DEF a
<1> HIDE DEF Good
<1>3. 0..n \subseteq Good
  BY <1>1, <1>2, AllUpTo
<1> QED BY <1>3 DEF Good

(* Higher powers are greater.                                              *)
LEMMA PowGrows ==
  ASSUME NEW m \in Nat, NEW n \in Nat
  PROVE  /\ m <= n => Pow(m) <= Pow(n)
         /\ m < n => Pow(m) < Pow(n)
         /\ n < Pow(n)
<1>1. ASSUME NEW k \in Nat
      PROVE  Pow(k + 1) = Pow(k) + Pow(k) /\ Pow(k) \in Nat \ {0}
  BY PowDoubles, PowType
<1>2. ASSUME NEW i \in Nat, NEW j \in Nat
      PROVE  Pow(i) <= Pow(i + j) /\ i + j < Pow(i + j) /\ (j # 0 => Pow(i) < Pow(i + j))
  <2> DEFINE Good == {k \in 0..(i + j) : k < Pow(k)}
             Above == {k \in 0..j : Pow(i) <= Pow(i + k) /\ (k # 0 => Pow(i) < Pow(i + k))}
  <2>1. 0..(i + j) \subseteq Good
    <3>1. 0 \in Good
      BY PowOfZero
    <3>2. ASSUME NEW k \in 0..((i + j) - 1), k \in Good
          PROVE  k + 1 \in Good
      BY <1>1, <3>2
    <3> HIDE DEF Good
    <3> QED BY <3>1, <3>2, AllUpTo
  <2>2. 0..j \subseteq Above
    <3>1. 0 \in Above
      BY <1>1
    <3>2. ASSUME NEW k \in 0..(j - 1), k \in Above
          PROVE  k + 1 \in Above
      <4>1. i + k \in Nat /\ i + (k + 1) = (i + k) + 1 /\ k + 1 \in 0..j
        OBVIOUS
      <4>2. Pow(i + (k + 1)) = Pow(i + k) + Pow(i + k) /\ Pow(i + k) \in Nat \ {0}
        BY <1>1, <4>1
      <4>3. Pow(i) \in Nat /\ Pow(i) <= Pow(i + k)
        BY <1>1, <3>2
      <4>4. Pow(i) < Pow(i + (k + 1)) /\ Pow(i) <= Pow(i + (k + 1))
        BY <4>2, <4>3
      <4> QED BY <4>1, <4>4
    <3> HIDE DEF Above
    <3> QED BY <3>1, <3>2, AllUpTo
  <2>3. i + j \in Good /\ j \in Above
    BY <2>1, <2>2
  <2> QED BY <2>3
<1>3. CASE m <= n
  <2>1. n - m \in Nat /\ m + (n - m) = n
    BY <1>3
  <2> QED BY <1>2, <2>1
<1>4. CASE n < m
  <2>1. 0 + n = n
    OBVIOUS
  <2>2. n < Pow(n)
    BY <1>2, <2>1
  <2> QED BY <1>4, <2>2
<1> QED BY <1>3, <1>4

-----------------------------------------------------------------------------
(* Rankings                                                                *)

(* A relation that orders a set strictly, and an element's place in it.    *)
Orders(R, S) ==
  /\ \A x \in S : <<x, x>> \notin R
  /\ \A x, y, z \in S : <<x, y>> \in R /\ <<y, z>> \in R => <<x, z>> \in R
  /\ \A x, y \in S : x # y => <<x, y>> \in R \/ <<y, x>> \in R

Rank(R, S, x) == Cardinality({y \in S : <<y, x>> \in R})

(* Every place is taken by exactly one element.                            *)
LEMMA RanksAreDistinct ==
  ASSUME NEW S, IsFiniteSet(S), NEW R, Orders(R, S)
  PROVE  /\ Cardinality(S) \in Nat
         /\ \A x \in S : Rank(R, S, x) \in 0..(Cardinality(S) - 1)
         /\ \A x, y \in S : Rank(R, S, x) = Rank(R, S, y) => x = y
         /\ \A k \in 0..(Cardinality(S) - 1) : \E x \in S : Rank(R, S, x) = k
<1> DEFINE n == Cardinality(S)
           Below(x) == {y \in S : <<y, x>> \in R}
<1>1. n \in Nat
  BY FS_CardinalityType
<1>2. \A x \in S : IsFiniteSet(Below(x)) /\ Cardinality(Below(x)) \in Nat
  BY FS_Subset, FS_CardinalityType
<1>3. ASSUME NEW x \in S
      PROVE  Cardinality(Below(x)) <= n - 1
  <2>1. Below(x) \in SUBSET (S \ {x}) /\ IsFiniteSet(S \ {x}) /\ Cardinality(S \ {x}) = n - 1
    BY FS_RemoveElement DEF Orders
  <2> HIDE DEF Below
  <2> QED BY <2>1, FS_Subset
<1>4. ASSUME NEW x \in S, NEW y \in S, <<x, y>> \in R
      PROVE  Cardinality(Below(x)) < Cardinality(Below(y))
  <2>1. Below(x) \in SUBSET Below(y) /\ x \in Below(y) /\ x \notin Below(x)
    BY <1>4 DEF Orders
  <2>2. Below(x) # Below(y)
    BY <2>1
  <2>3. IsFiniteSet(Below(y)) /\ Cardinality(Below(x)) \in Nat /\ Cardinality(Below(y)) \in Nat
    BY <1>2
  <2> HIDE DEF Below
  <2>4. Cardinality(Below(x)) <= Cardinality(Below(y))
        /\ (Cardinality(Below(y)) = Cardinality(Below(x)) => Below(y) = Below(x))
    BY <2>1, <2>3, FS_Subset
  <2> QED BY <2>2, <2>3, <2>4
<1>5. \A x \in S : Rank(R, S, x) = Cardinality(Below(x))
  BY DEF Rank
<1>6. ASSUME NEW x \in S PROVE Rank(R, S, x) \in 0..(n - 1)
  <2>1. Rank(R, S, x) \in Nat /\ Rank(R, S, x) <= n - 1
    BY <1>2, <1>3, <1>5
  <2> HIDE DEF n
  <2> QED BY <1>1, <2>1
<1>7. ASSUME NEW x \in S, NEW y \in S, Rank(R, S, x) = Rank(R, S, y)
      PROVE  x = y
  <2>1. SUFFICES ASSUME x # y PROVE FALSE
    OBVIOUS
  <2>2. <<x, y>> \in R \/ <<y, x>> \in R
    BY <2>1 DEF Orders
  <2>3. /\ Cardinality(Below(x)) \in Nat /\ Cardinality(Below(y)) \in Nat
        /\ Cardinality(Below(x)) = Cardinality(Below(y))
    BY <1>2, <1>5, <1>7
  <2>4. \/ Cardinality(Below(x)) < Cardinality(Below(y))
        \/ Cardinality(Below(y)) < Cardinality(Below(x))
    BY <1>4, <2>2
  <2> HIDE DEF Below
  <2> QED BY <2>3, <2>4
<1> DEFINE T == 0..(n - 1)
           f == [x \in S |-> Rank(R, S, x)]
<1> HIDE DEF Below
<1>8. f \in Injection(S, T)
  <2>1. f \in [S -> T]
    BY <1>6
  <2>2. \A x, y \in S : f[x] = f[y] => x = y
    BY <1>7
  <2> HIDE DEF f, T
  <2> QED BY <2>1, <2>2, IsInjection
<1>9. IsFiniteSet(T) /\ Cardinality(T) = n
  BY <1>1, FS_Interval
<1>10. \A k \in T : \E x \in S : Rank(R, S, x) = k
  <2> HIDE DEF T
  <2>1. f \in Surjection(S, T)
    <3> HIDE DEF f
    <3> QED BY <1>8, <1>9, FS_Injection
  <2>2. \A k \in T : \E x \in S : f[x] = k
    <3> HIDE DEF f
    <3> QED BY <2>1 DEF Surjection
  <2> QED BY <2>2
<1> QED BY <1>1, <1>6, <1>7, <1>10

=============================================================================
