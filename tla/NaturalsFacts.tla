---------------------------- MODULE NaturalsFacts ---------------------------
\* Facts about numbers that several proof modules use.
EXTENDS Integers, WellFoundedInduction, TLAPS

\* A nonempty set of natural numbers has a least element: a scan for the first
\* clear bit of a bitmap finds it.
LEMMA LeastNatural ==
  ASSUME NEW T \in SUBSET Nat, T # {}
  PROVE  \E x \in T : \A y \in T : x <= y
  <1>1. PICK x \in T : \A y \in T : <<y, x>> \notin OpToRel(<, Nat)
    BY NatLessThanWellFounded, WFMin, Zenon
  <1>2. \A y \in T : ~(y < x)
    BY <1>1, Zenon DEF OpToRel
  <1> QED
    BY <1>2

\* The first index that a search finds is the least one.
LEMMA LeastChosen ==
  ASSUME NEW T \in SUBSET Nat, NEW x \in T, \A y \in T : x <= y
  PROVE  (CHOOSE i \in T : \A j \in T : i <= j) = x
  <1> DEFINE c == CHOOSE i \in T : \A j \in T : i <= j
  <1>1. c \in T /\ \A j \in T : c <= j
    BY Zenon
  <1> HIDE DEF c
  <1>2. c \in Nat /\ x \in Nat /\ c <= x /\ x <= c
    BY <1>1
  <1>3. c = x
    BY <1>2
  <1> QED
    BY <1>3 DEF c

\* A multiple grows with its factor.
LEMMA ProductOrder ==
  ASSUME NEW m \in Nat, NEW a \in Int, NEW b \in Int, a <= b
  PROVE  m * a <= m * b /\ m * a \in Int /\ m * b \in Int
  <1>1. b - a \in Nat
    OBVIOUS
  <1>2. m * (b - a) \in Nat
    BY <1>1
  <1>3. m * (b - a) = m * b - m * a
    OBVIOUS
  <1> QED
    BY <1>2, <1>3

\* Quotient and remainder: a bit is found by its byte and its place in the byte.
LEMMA DivMod ==
  ASSUME NEW a \in Nat, NEW m \in Nat \ {0}
  PROVE  /\ a \div m \in Nat /\ a % m \in Nat /\ a % m < m
         /\ a = m * (a \div m) + (a % m)
  OBVIOUS

\* Bits are ordered by their byte first.
LEMMA DivOrder ==
  ASSUME NEW a \in Nat, NEW b \in Nat, NEW m \in Nat \ {0}
  PROVE  /\ a \div m < b \div m => a < b
         /\ a \div m = b \div m => (a <= b <=> a % m <= b % m)
  <1> DEFINE p == a \div m
             q == b \div m
             r == a % m
             s == b % m
  <1>1. p \in Nat /\ r \in Nat /\ r < m /\ a = m * p + r
    BY DivMod
  <1>2. q \in Nat /\ s \in Nat /\ s < m /\ b = m * q + s
    BY DivMod
  <1> HIDE DEF p, q, r, s
  <1>3. ASSUME p < q PROVE a < b
    <2>1. m * (p + 1) <= m * q
      BY <1>1, <1>2, <1>3, ProductOrder
    <2>2. m * (p + 1) = m * p + m
      BY <1>1
    <2>3. m * p \in Int /\ m * q \in Int
      BY <1>1, <1>2
    <2> HIDE DEF p, q
    <2> QED
      BY <1>1, <1>2, <2>1, <2>2, <2>3
  <1>4. ASSUME p = q PROVE a <= b <=> r <= s
    <2>1. m * p = m * q /\ m * p \in Int
      BY <1>1, <1>4
    <2> QED
      BY <2>1, <1>1, <1>2
  <1> QED
    BY <1>3, <1>4 DEF p, q, r, s

LEMMA DivUnique ==
  ASSUME NEW a \in Nat, NEW m \in Nat \ {0}, NEW k \in Nat, m * k <= a, a < m * k + m
  PROVE  a \div m = k
  <1> DEFINE q == a \div m
             r == a % m
  <1>1. q \in Nat /\ r \in Nat /\ r < m /\ a = m * q + r
    BY DivMod
  <1> HIDE DEF q, r
  <1>2. m * q \in Int /\ m * k \in Int
    BY <1>1
  <1>3. ~(q < k)
    <2> SUFFICES ASSUME q < k PROVE FALSE
      OBVIOUS
    <2>1. m * (q + 1) <= m * k
      BY <1>1, ProductOrder
    <2>2. m * (q + 1) = m * q + m
      BY <1>1
    <2> QED
      BY <1>1, <1>2, <2>1, <2>2
  <1>4. ~(k < q)
    <2> SUFFICES ASSUME k < q PROVE FALSE
      OBVIOUS
    <2>1. m * (k + 1) <= m * q
      BY <1>1, ProductOrder
    <2>2. m * (k + 1) = m * k + m
      OBVIOUS
    <2> QED
      BY <1>1, <1>2, <2>1, <2>2
  <1> QED
    BY <1>1, <1>3, <1>4 DEF q

\* Dividing by two numbers after each other is dividing by their product.
LEMMA DivTwice ==
  ASSUME NEW a \in Nat, NEW m \in Nat \ {0}, NEW k \in Nat \ {0}
  PROVE  (a \div m) \div k = a \div (k * m)
  <1> DEFINE q == a \div m
             r == a % m
             p == q \div k
             s == q % k
             n == k * m
  <1>1. q \in Nat /\ r \in Nat /\ r < m /\ a = m * q + r
    BY DivMod
  <1> HIDE DEF q, r
  <1>2. p \in Nat /\ s \in Nat /\ s < k /\ q = k * p + s
    BY <1>1, DivMod
  <1> HIDE DEF p, s
  <1>3. n \in Nat \ {0} /\ n = m * k
    OBVIOUS
  <1>4. m * q = m * (k * p) + m * s
    BY <1>1, <1>2
  <1>5. m * (k * p) = n * p
    BY <1>2
  <1>6. m * s <= m * (k - 1) /\ m * s \in Int
    BY <1>2, ProductOrder
  <1>7. m * (k - 1) = n - m
    OBVIOUS
  <1> HIDE DEF n
  <1>8. n * p \in Int /\ m * s \in Nat
    BY <1>2, <1>3
  <1>9. a = n * p + m * s + r
    BY <1>1, <1>4, <1>5, <1>8
  <1>10. n * p <= a /\ a < n * p + n
    BY <1>1, <1>3, <1>6, <1>7, <1>8, <1>9
  <1>11. a \div n = p
    BY <1>2, <1>3, <1>10, DivUnique
  <1> QED
    BY <1>11 DEF n, p, q

\* Some value of a nonempty list is the greatest: if there were lists without
\* one, the shortest would have one.
LEMMA GreatestValue ==
  ASSUME NEW n \in Nat \ {0}, NEW f \in [1 .. n -> Nat]
  PROVE  \E i \in 1 .. n : \A j \in 1 .. n : f[j] <= f[i]
  <1> DEFINE Has(k) == \E i \in 1 .. k : \A j \in 1 .. k : f[j] <= f[i]
             T == {k \in 1 .. n : ~Has(k)}
  <1> SUFFICES ASSUME ~Has(n) PROVE FALSE
    OBVIOUS
  <1> HIDE DEF Has
  <1>1. T \in SUBSET Nat /\ T # {}
    <2>1. n \in T
      OBVIOUS
    <2> QED
      BY <2>1
  <1>2. PICK k \in T : \A y \in T : k <= y
    <2> HIDE DEF T
    <2> QED
      BY <1>1, LeastNatural
  <1>3. k \in Nat /\ k >= 1 /\ k <= n /\ ~Has(k)
    OBVIOUS
  <1>4. k # 1
    <2>1. 1 \in 1 .. 1 /\ \A j \in 1 .. 1 : j = 1
      OBVIOUS
    <2>2. f[1] \in Nat /\ f[1] <= f[1]
      OBVIOUS
    <2>3. Has(1)
      BY <2>1, <2>2 DEF Has
    <2> QED
      BY <1>3, <2>3
  <1>5. k - 1 \in 1 .. n /\ ~(k <= k - 1)
    BY <1>3, <1>4
  <1>6. Has(k - 1)
    BY <1>2, <1>5
  <1> HIDE DEF T
  <1>7. PICK i \in 1 .. k - 1 : \A j \in 1 .. k - 1 : f[j] <= f[i]
    BY <1>6, Zenon DEF Has
  <1>8. i \in 1 .. n /\ i \in 1 .. k /\ k \in 1 .. k /\ k \in 1 .. n
    BY <1>3, <1>5
  <1>9. f[i] \in Nat /\ f[k] \in Nat
    BY <1>8
  <1>10. \A j \in 1 .. k : (j \in 1 .. k - 1 \/ j = k) /\ f[j] \in Nat
    <2> TAKE j \in 1 .. k
    <2>1. j \in 1 .. n /\ (j \in 1 .. k - 1 \/ j = k)
      BY <1>3
    <2> QED
      BY <2>1
  <1>11. CASE f[k] <= f[i]
    <2>1. \A j \in 1 .. k : f[j] <= f[i]
      BY <1>7, <1>10, <1>11
    <2> QED
      BY <1>3, <1>8, <2>1, Zenon DEF Has
  <1>12. CASE ~(f[k] <= f[i])
    <2>1. \A j \in 1 .. k : f[j] <= f[k]
      BY <1>7, <1>9, <1>10, <1>12, SMTT(30)
    <2> QED
      BY <1>3, <1>8, <2>1, Zenon DEF Has
  <1> QED
    BY <1>11, <1>12

\* A property of 0 that carries over to the next number holds of every number of
\* a range: if not, the least number without it would have it.
LEMMA RangeInduction ==
  ASSUME NEW n \in Nat, NEW S \in SUBSET (0 .. n), 0 \in S,
         \A i \in 1 .. n : i - 1 \in S => i \in S
  PROVE  S = 0 .. n
  <1> DEFINE T == (0 .. n) \ S
  <1> SUFFICES ASSUME T # {} PROVE FALSE
    BY Zenon
  <1>1. T \in SUBSET Nat
    OBVIOUS
  <1> HIDE DEF T
  <1>2. PICK k \in T : \A y \in T : k <= y
    BY <1>1, LeastNatural
  <1>3. k \in 1 .. n /\ k \notin S
    BY <1>2 DEF T
  <1>4. k - 1 \in T
    BY <1>3 DEF T
  <1>5. k <= k - 1
    BY <1>2, <1>4
  <1> QED
    BY <1>3, <1>5

\* The states of a loop that starts in s and takes n steps, each of them given
\* by a function on the states.
IsTrace(at, S, n, s, step) ==
  /\ at \in [0 .. n -> S]
  /\ at[0] = s
  /\ \A i \in 1 .. n : at[i] = step[i][at[i - 1]]

LEMMA Iteration ==
  ASSUME NEW n \in Nat, NEW S, NEW s \in S, NEW step \in [1 .. n -> [S -> S]]
  PROVE  \E at : IsTrace(at, S, n, s, step)
  <1> DEFINE Is(f, k) == f[0] = s /\ \A i \in 1 .. k : f[i] = step[i][f[i - 1]]
             T == {k \in 0 .. n : \E f \in [0 .. k -> S] : Is(f, k)}
  <1>1. 0 \in T
    <2> DEFINE f == [i \in 0 .. 0 |-> s]
    <2>1. f \in [0 .. 0 -> S] /\ Is(f, 0)
      OBVIOUS
    <2> HIDE DEF f, Is
    <2> QED
      BY <2>1
  <1>2. ASSUME NEW k \in 1 .. n, k - 1 \in T PROVE k \in T
    <2>1. PICK f \in [0 .. k - 1 -> S] : Is(f, k - 1)
      BY <1>2
    <2>2. k \in Nat /\ k >= 1 /\ k - 1 \in 0 .. k - 1
      OBVIOUS
    <2>3. step[k][f[k - 1]] \in S
      BY <2>2
    <2> DEFINE g == [i \in 0 .. k |-> IF i = k THEN step[k][f[k - 1]] ELSE f[i]]
    <2>4. g \in [0 .. k -> S]
      BY <2>2, <2>3
    <2>5. g[0] = s
      BY <2>1, <2>2
    <2>6. ASSUME NEW i \in 1 .. k PROVE g[i] = step[i][g[i - 1]]
      <3>1. g[i - 1] = f[i - 1]
        BY <2>2
      <3>2. CASE i = k
        BY <2>2, <3>1, <3>2
      <3>3. CASE i # k
        <4>1. i \in 1 .. k - 1 /\ g[i] = f[i]
          BY <2>2, <3>3
        <4> QED
          BY <2>1, <3>1, <4>1
      <3> QED
        BY <3>2, <3>3
    <2> HIDE DEF g
    <2>7. Is(g, k)
      BY <2>5, <2>6
    <2> HIDE DEF Is
    <2> QED
      BY <2>4, <2>7
  <1>3. n \in T
    <2>1. T \in SUBSET (0 .. n)
      OBVIOUS
    <2> HIDE DEF T
    <2>2. T = 0 .. n
      BY <1>1, <1>2, <2>1, RangeInduction
    <2> QED
      BY <2>2
  <1> QED
    BY <1>3 DEF IsTrace

\* A function that takes the steps of a loop is its trace.
LEMMA TraceOf ==
  ASSUME NEW n \in Nat, NEW S, NEW s \in S, NEW step \in [1 .. n -> [S -> S]],
         NEW g, g = [i \in 0 .. n |-> g[i]], g[0] = s,
         \A i \in 1 .. n : g[i - 1] \in S => g[i] = step[i][g[i - 1]]
  PROVE  IsTrace(g, S, n, s, step)
  <1> DEFINE T == {i \in 0 .. n : g[i] \in S}
  <1>1. 0 \in T
    OBVIOUS
  <1>2. ASSUME NEW i \in 1 .. n, i - 1 \in T PROVE i \in T
    <2>1. g[i - 1] \in S /\ i \in 0 .. n
      BY <1>2
    <2>2. step[i][g[i - 1]] \in S
      BY <2>1
    <2> QED
      BY <2>1, <2>2, Zenon
  <1>3. T = 0 .. n
    <2>1. T \in SUBSET (0 .. n)
      OBVIOUS
    <2> HIDE DEF T
    <2> QED
      BY <1>1, <1>2, <2>1, RangeInduction
  <1>4. \A i \in 0 .. n : g[i] \in S
    BY <1>3, SMTT(30)
  <1>5. g \in [0 .. n -> S]
    BY <1>4
  <1>6. \A i \in 1 .. n : i - 1 \in 0 .. n
    OBVIOUS
  <1>7. \A i \in 1 .. n : g[i] = step[i][g[i - 1]]
    BY <1>4, <1>6, SMTT(30)
  <1> QED
    BY <1>5, <1>7, Zenon DEF IsTrace
=============================================================================
