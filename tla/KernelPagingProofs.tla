------------------------- MODULE KernelPagingProofs -------------------------
(***************************************************************************)
(* Proofs about KernelPaging: no frame is lost or used twice, what         *)
(* check_flags finds, and the tables implement the map of AddressMap.      *)
(*                                                                         *)
(* The invariant IInv says that the tables are a tree: there is a place, a *)
(* level and the part of the addresses below it, for every table, such     *)
(* that the bootloader's tables have the places they booted with, each     *)
(* frame that the kernel made a table of is entered in exactly one table,  *)
(* a level above it, and every frame the bitmap says is reserved is the    *)
(* bootloader's, a caller's, or entered once.  A walk from the root then   *)
(* reaches a table by one path only, so a change of an entry changes the   *)
(* translation of the addresses below that entry and of no others; that is *)
(* what the refinement rests on.  Loop is the same in the middle of a      *)
(* walk: map_page_translation makes the missing tables on the way.         *)
(***************************************************************************)
EXTENDS KernelPaging, NaturalsFacts, FiniteSetTheorems, TLAPS

-----------------------------------------------------------------------------
\* Numbers of pages, and the parts of an address.

LEMMA SpanDef ==
  Span = [n \in 0 .. Levels |-> IF n = 0 THEN 1 ELSE Fanout * Span[n - 1]]
  <1> DEFINE Is(f, n) == f = [i \in 0 .. n |-> IF i = 0 THEN 1 ELSE Fanout * f[i - 1]]
             S == {n \in 0 .. Levels : \E f : Is(f, n)}
  <1>1. 0 \in S
    <2> DEFINE f == [i \in 0 .. 0 |-> 1]
    <2>1. Is(f, 0)
      OBVIOUS
    <2> HIDE DEF f, Is
    <2> QED
      BY <2>1, LevelsAssumption
  <1>2. ASSUME NEW n \in 1 .. Levels, n - 1 \in S PROVE n \in S
    <2>1. PICK f : Is(f, n - 1)
      BY <1>2
    <2> DEFINE g == [i \in 0 .. n |-> IF i = n THEN Fanout * f[n - 1] ELSE f[i]]
    <2>2. \A i \in 0 .. n : g[i] = IF i = 0 THEN 1 ELSE Fanout * g[i - 1]
      <3> TAKE i \in 0 .. n
      <3>0. n \in Nat /\ n >= 1 /\ i \in Nat
        BY LevelsAssumption
      <3>1. CASE i = n
        BY <3>0, <3>1
      <3>2. CASE i # n
        <4>1. i \in 0 .. n - 1 /\ g[i] = f[i]
          BY <3>0, <3>2
        <4>2. f[i] = IF i = 0 THEN 1 ELSE Fanout * f[i - 1]
          BY <2>1, <4>1
        <4>3. i # 0 => g[i - 1] = f[i - 1]
          BY <3>0, <3>2
        <4> QED
          BY <4>1, <4>2, <4>3
      <3> QED
        BY <3>1, <3>2
    <2>3. g = [i \in 0 .. n |-> g[i]]
      OBVIOUS
    <2> HIDE DEF g
    <2>4. Is(g, n)
      BY <2>2, <2>3, Zenon
    <2> QED
      BY <2>4
  <1>3. Levels \in S
    <2> HIDE DEF S
    <2>1. S \in SUBSET (0 .. Levels)
      BY DEF S
    <2>2. S = 0 .. Levels
      BY <1>1, <1>2, <2>1, RangeInduction, LevelsAssumption
    <2> QED
      BY <2>2, LevelsAssumption
  <1>4. \E f : Is(f, Levels)
    BY <1>3
  <1> DEFINE h == CHOOSE f : f = [i \in 0 .. Levels |-> IF i = 0 THEN 1 ELSE Fanout * f[i - 1]]
  <1>5. h = [i \in 0 .. Levels |-> IF i = 0 THEN 1 ELSE Fanout * h[i - 1]]
    BY <1>4, Zenon
  <1>6. Span = h
    BY DEF Span
  <1> QED
    BY <1>5, <1>6, Zenon

LEMMA SpanValues ==
  /\ Span[0] = 1
  /\ \A n \in 0 .. Levels : Span[n] \in Nat \ {0}
  /\ \A n \in 1 .. Levels : Span[n] = Fanout * Span[n - 1]
  <1>1. Span[0] = 1
    BY SpanDef, LevelsAssumption
  <1>2. \A n \in 1 .. Levels : Span[n] = Fanout * Span[n - 1]
    BY SpanDef, LevelsAssumption
  <1> DEFINE S == {n \in 0 .. Levels : Span[n] \in Nat \ {0}}
  <1>3. 0 \in S
    BY <1>1, LevelsAssumption
  <1>4. ASSUME NEW n \in 1 .. Levels, n - 1 \in S PROVE n \in S
    <2>1. Span[n - 1] \in Nat \ {0} /\ Fanout \in Nat \ {0}
      BY <1>4, LevelsAssumption
    <2>2. Fanout * Span[n - 1] \in Nat \ {0}
      BY <2>1
    <2> QED
      BY <2>2, <1>2, LevelsAssumption
  <1>5. S = 0 .. Levels
    <2>1. S \in SUBSET (0 .. Levels)
      OBVIOUS
    <2> HIDE DEF S
    <2> QED
      BY <1>3, <1>4, <2>1, RangeInduction, LevelsAssumption
  <1> QED
    BY <1>1, <1>2, <1>5

\* The part of an address that the levels up to i translate.
Prefix(va, i) == va \div Span[Levels - i]

LEMMA PrefixStep ==
  ASSUME NEW va \in VirtualPage, NEW i \in 1 .. Levels
  PROVE  /\ Prefix(va, i) \in VirtualPage /\ Prefix(va, i - 1) \in VirtualPage
         /\ IndexAt(va, i) \in Index
         /\ Prefix(va, i) = Fanout * Prefix(va, i - 1) + IndexAt(va, i)
  <1>0. Levels \in Nat \ {0} /\ Fanout \in Nat \ {0} /\ i \in Nat
    BY LevelsAssumption
  <1>1. Levels - i \in 0 .. Levels /\ Levels - (i - 1) \in 1 .. Levels
        /\ (Levels - (i - 1)) - 1 = Levels - i /\ Levels - (i - 1) \in 0 .. Levels
    BY <1>0
  <1>2. Span[Levels - i] \in Nat \ {0} /\ Span[Levels] \in Nat \ {0}
        /\ Span[Levels - (i - 1)] \in Nat \ {0}
    BY <1>0, <1>1, SpanValues
  <1>3. va \in Nat /\ va <= Span[Levels] - 1
    BY <1>2 DEF VirtualPage
  <1>4. Span[Levels - (i - 1)] = Fanout * Span[Levels - i]
    BY <1>1, SpanValues, Zenon
  <1> DEFINE m == Span[Levels - i]
             q == va \div m
  <1>5. q \in Nat /\ q <= va
    <2>1. q \in Nat /\ (va % m) \in Nat /\ va = m * q + (va % m)
      BY <1>2, <1>3, DivMod, Zenon
    <2> HIDE DEF q
    <2>2. 1 * q <= m * q
      <3>1. q * 1 <= q * m
        BY <2>1, <1>2, ProductOrder
      <3> QED
        BY <3>1, <2>1, <1>2
    <2>3. m * q \in Int
      BY <2>1, <1>2
    <2> HIDE DEF m
    <2> QED
      BY <2>1, <2>2, <2>3, <1>3
  <1>6. q \div Fanout = va \div (Fanout * m)
    BY <1>0, <1>2, <1>3, DivTwice
  <1>7. /\ q \div Fanout \in Nat /\ (q % Fanout) \in Nat /\ (q % Fanout) < Fanout
        /\ q = Fanout * (q \div Fanout) + (q % Fanout)
    BY <1>0, <1>5, DivMod, Zenon
  <1>8. Prefix(va, i) = q /\ IndexAt(va, i) = (q % Fanout)
        /\ Prefix(va, i - 1) = q \div Fanout
    BY <1>4, <1>6 DEF Prefix, IndexAt
  <1>9. Prefix(va, i - 1) <= va
    <2> DEFINE p == q \div Fanout
    <2>1. p \in Nat /\ Fanout * p <= q
      <3> HIDE DEF q
      <3>1. Fanout * (q \div Fanout) \in Nat
        BY <1>0, <1>7
      <3> QED
        BY <1>5, <1>7, <3>1
    <2>2. p * 1 <= p * Fanout
      <3> HIDE DEF p
      <3> QED
        BY <2>1, <1>0, ProductOrder
    <2>3. p <= q
      <3> HIDE DEF p, q
      <3>1. p * Fanout = Fanout * p /\ Fanout * p \in Int
        BY <2>1, <1>0
      <3> QED
        BY <2>1, <2>2, <3>1, <1>5
    <2> HIDE DEF p, q
    <2> QED
      BY <2>1, <2>3, <1>5, <1>8, <1>3 DEF p
  <1> HIDE DEF q
  <1>10. IndexAt(va, i) \in Index
    BY <1>7, <1>8, <1>0 DEF Index
  <1>11. Prefix(va, i) \in VirtualPage /\ Prefix(va, i - 1) \in VirtualPage
    BY <1>2, <1>3, <1>5, <1>7, <1>8, <1>9 DEF VirtualPage
  <1>12. Prefix(va, i) = Fanout * Prefix(va, i - 1) + IndexAt(va, i)
    BY <1>7, <1>8
  <1> QED
    BY <1>10, <1>11, <1>12

\* The first level has no part of the address before it, the last one all of it.
LEMMA PrefixEnds ==
  ASSUME NEW va \in VirtualPage
  PROVE  Prefix(va, 0) = 0 /\ Prefix(va, Levels) = va
  <1>0. Levels \in Nat \ {0} /\ Levels - 0 = Levels /\ Levels - Levels = 0
        /\ Levels \in 0 .. Levels
    BY LevelsAssumption
  <1>1. Span[Levels] \in Nat \ {0} /\ Span[0] = 1
    BY <1>0, SpanValues
  <1>2. va \in Nat /\ va < Span[Levels]
    BY <1>1 DEF VirtualPage
  <1>3. va \div Span[Levels] = 0
    <2>1. Span[Levels] * 0 <= va /\ va < Span[Levels] * 0 + Span[Levels]
      BY <1>1, <1>2
    <2> QED
      BY <2>1, <1>1, <1>2, DivUnique
  <1>4. va \div 1 = va
    BY <1>2
  <1> QED
    BY <1>0, <1>1, <1>3, <1>4 DEF Prefix

\* An address is read back from its parts.
LEMMA PartsUnique ==
  ASSUME NEW p \in Nat, NEW q \in Nat, NEW x \in Index, NEW y \in Index,
         Fanout * p + x = Fanout * q + y
  PROVE  p = q /\ x = y
  <1>0. Fanout \in Nat \ {0} /\ x \in Nat /\ y \in Nat /\ x < Fanout /\ y < Fanout
    BY LevelsAssumption DEF Index
  <1> DEFINE a == Fanout * p
             b == Fanout * q
  <1>1. a \in Nat /\ b \in Nat
    BY <1>0
  <1>2. (a + x) \div Fanout = p
    <2>1. a + x \in Nat /\ Fanout * p <= a + x /\ a + x < Fanout * p + Fanout
      BY <1>0, <1>1
    <2> QED
      BY <2>1, <1>0, DivUnique, Zenon
  <1>3. (b + y) \div Fanout = q
    <2>1. b + y \in Nat /\ Fanout * q <= b + y /\ b + y < Fanout * q + Fanout
      BY <1>0, <1>1
    <2> QED
      BY <2>1, <1>0, DivUnique, Zenon
  <1>4. p = q
    BY <1>2, <1>3
  <1>5. a = b /\ a + x = b + y
    BY <1>4
  <1> HIDE DEF a, b
  <1> QED
    BY <1>0, <1>1, <1>4, <1>5
-----------------------------------------------------------------------------
\* The walk of a page, level by level.

\* What the walk does at level i after the entry e.
Follow(tb, va, i, e) == IF e.present /\ ~e.huge THEN tb[e.addr][IndexAt(va, i)] ELSE e

LEMMA WalkDef ==
  ASSUME NEW tb, NEW va
  PROVE  Walk(tb, va) = [i \in 1 .. Levels |->
           IF i = 1 THEN tb[Root][IndexAt(va, 1)] ELSE Follow(tb, va, i, Walk(tb, va)[i - 1])]
  <1> DEFINE Is(f, n) == f = [i \in 1 .. n |->
               IF i = 1 THEN tb[Root][IndexAt(va, 1)] ELSE Follow(tb, va, i, f[i - 1])]
             S == {n \in 0 .. Levels : \E f : Is(f, n)}
  <1>1. 0 \in S
    <2> DEFINE f == [i \in 1 .. 0 |-> 0]
    <2>1. Is(f, 0)
      OBVIOUS
    <2> HIDE DEF f, Is
    <2> QED
      BY <2>1, LevelsAssumption
  <1>2. ASSUME NEW n \in 1 .. Levels, n - 1 \in S PROVE n \in S
    <2>1. PICK f : Is(f, n - 1)
      BY <1>2, Zenon
    <2> DEFINE g == [i \in 1 .. n |->
                       IF i = 1 THEN tb[Root][IndexAt(va, 1)]
                       ELSE IF i = n THEN Follow(tb, va, n, f[n - 1]) ELSE f[i]]
    <2>2. \A i \in 1 .. n :
            g[i] = IF i = 1 THEN tb[Root][IndexAt(va, 1)] ELSE Follow(tb, va, i, g[i - 1])
      <3> TAKE i \in 1 .. n
      <3>0. n \in Nat /\ n >= 1 /\ i \in Nat /\ i >= 1
        BY LevelsAssumption
      <3>1. CASE i = 1
        BY <3>0, <3>1, Zenon
      <3>2. CASE i # 1
        <4>1. i - 1 \in 1 .. n - 1 /\ i - 1 \in 1 .. n /\ i - 1 # n
          BY <3>0, <3>2
        <4>2. g[i - 1] = f[i - 1]
          <5>1. f[i - 1] = IF i - 1 = 1 THEN tb[Root][IndexAt(va, 1)]
                           ELSE Follow(tb, va, i - 1, f[(i - 1) - 1])
            BY <2>1, <4>1
          <5> QED
            BY <4>1, <5>1
        <4>3. CASE i = n
          BY <3>2, <4>2, <4>3, Zenon
        <4>4. CASE i # n
          <5>1. i \in 1 .. n - 1 /\ g[i] = f[i]
            BY <3>0, <3>2, <4>4
          <5>2. f[i] = Follow(tb, va, i, f[i - 1])
            BY <2>1, <5>1, <3>2, Zenon
          <5> QED
            BY <5>1, <5>2, <4>2, <3>2, Zenon
        <4> QED
          BY <4>3, <4>4, Zenon
      <3> QED
        BY <3>1, <3>2, Zenon
    <2>3. g = [i \in 1 .. n |-> g[i]]
      OBVIOUS
    <2> HIDE DEF g
    <2>4. Is(g, n)
      BY <2>2, <2>3
    <2> QED
      BY <2>4
  <1>3. Levels \in S
    <2> HIDE DEF S
    <2>1. S \in SUBSET (0 .. Levels)
      BY DEF S
    <2>2. S = 0 .. Levels
      BY <1>1, <1>2, <2>1, RangeInduction, LevelsAssumption
    <2> QED
      BY <2>2, LevelsAssumption
  <1>4. \E f : Is(f, Levels)
    BY <1>3
  <1> DEFINE h == CHOOSE f : Is(f, Levels)
  <1>5. Is(h, Levels)
    BY <1>4, Zenon
  <1>6. Walk(tb, va) = h
    BY DEF Walk, Follow
  <1> QED
    BY <1>5, <1>6, Zenon

LEMMA WalkSteps ==
  ASSUME NEW tb, NEW va
  PROVE  /\ Walk(tb, va)[1] = tb[Root][IndexAt(va, 1)]
         /\ \A i \in 2 .. Levels : Walk(tb, va)[i] = Follow(tb, va, i, Walk(tb, va)[i - 1])
  <1>1. 1 \in 1 .. Levels /\ \A i \in 2 .. Levels : i \in 1 .. Levels /\ i # 1
    BY LevelsAssumption
  <1> DEFINE w == Walk(tb, va)
  <1>2. w = [i \in 1 .. Levels |->
           IF i = 1 THEN tb[Root][IndexAt(va, 1)] ELSE Follow(tb, va, i, w[i - 1])]
    BY WalkDef
  <1> HIDE DEF w
  <1>3. w[1] = tb[Root][IndexAt(va, 1)]
    BY <1>1, <1>2
  <1>4. \A i \in 2 .. Levels : w[i] = Follow(tb, va, i, w[i - 1])
    BY <1>1, <1>2, Zenon
  <1> QED
    BY <1>3, <1>4 DEF w

\* The table that the walk w reads at level i.
TableAt(w, i) == IF i = 1 THEN Root ELSE w[i - 1].addr

\* The walk goes on to level i.
GoesTo(w, i) == i = 1 \/ (w[i - 1].present /\ ~w[i - 1].huge)

LEMMA PlaceTypes ==
  ASSUME NEW tb, NEW place, Placed(tb, place), NEW t \in DOMAIN tb
  PROVE  /\ place[t] \in Place
         /\ place[t].level \in 1 .. Levels /\ place[t].level \in Nat
         /\ place[t].prefix \in VirtualPage /\ place[t].prefix \in Nat
  <1>1. place[t] \in Place
    BY DEF Placed
  <1>2. place[t].level \in 1 .. Levels /\ place[t].prefix \in VirtualPage
    BY <1>1 DEF Place
  <1> QED
    BY <1>1, <1>2, LevelsAssumption DEF VirtualPage

LEMMA PlaceFields ==
  ASSUME NEW place, NEW t, NEW l, NEW f, place[t] = [level |-> l, prefix |-> f]
  PROVE  place[t].level = l /\ place[t].prefix = f
  OBVIOUS

\* The table below an entry is at the place that the entry leads to.
LEMMA ChildPlaced ==
  ASSUME NEW tb, NEW place, Placed(tb, place), NEW t \in DOMAIN tb, NEW x \in Index,
         place[t].level < Levels, tb[t][x].present, ~tb[t][x].huge
  PROVE  /\ tb[t][x].addr \in DOMAIN tb
         /\ place[tb[t][x].addr] = [level  |-> place[t].level + 1,
                                    prefix |-> Fanout * place[t].prefix + x]
  BY DEF Placed

\* No page that the kernel maps is in a huge page.
LEMMA HugeElsewhere ==
  ASSUME NEW tb, NEW place, Placed(tb, place), NEW t \in DOMAIN tb, NEW x \in Index,
         place[t].level < Levels, tb[t][x].present, tb[t][x].huge, NEW va \in KernelPages
  PROVE  ~Covers(place[t], x, va)
  BY Zenon DEF Placed

\* The tables that a walk reads are at the places that its address leads to.
LEMMA OnWalk ==
  ASSUME NEW tb, NEW place, Placed(tb, place), NEW va \in VirtualPage,
         NEW i \in 1 .. Levels, GoesTo(Walk(tb, va), i)
  PROVE  LET t == TableAt(Walk(tb, va), i)
         IN  /\ t \in DOMAIN tb
             /\ place[t] = [level |-> i, prefix |-> Prefix(va, i - 1)]
             /\ Walk(tb, va)[i] = tb[t][IndexAt(va, i)]
  <1> DEFINE w == Walk(tb, va)
             P(j) == LET t == TableAt(w, j)
                     IN  /\ t \in DOMAIN tb
                         /\ place[t] = [level |-> j, prefix |-> Prefix(va, j - 1)]
                         /\ w[j] = tb[t][IndexAt(va, j)]
             S == {j \in 0 .. Levels : j > 0 /\ GoesTo(w, j) => P(j)}
  <1>w. /\ w[1] = tb[Root][IndexAt(va, 1)]
        /\ \A j \in 2 .. Levels : w[j] = Follow(tb, va, j, w[j - 1])
    BY WalkSteps
  <1> HIDE DEF w
  <1>1. 0 \in S
    BY LevelsAssumption
  <1>2. ASSUME NEW j \in 1 .. Levels, j - 1 \in S PROVE j \in S
    <2> SUFFICES ASSUME GoesTo(w, j) PROVE P(j)
      BY LevelsAssumption
    <2>0. j \in Nat /\ j >= 1 /\ j <= Levels /\ Levels \in Nat
      BY LevelsAssumption
    <2>1. CASE j = 1
      <3>1. TableAt(w, j) = Root /\ Prefix(va, j - 1) = 0
        BY <2>1, PrefixEnds DEF TableAt
      <3>2. Root \in DOMAIN tb /\ place[Root] = [level |-> 1, prefix |-> 0]
        BY Zenon DEF Placed
      <3> QED
        BY <2>1, <3>1, <3>2, <1>w, Zenon
    <2>2. CASE j # 1
      <3>0. j - 1 \in 1 .. Levels /\ j \in 2 .. Levels /\ j - 1 > 0 /\ j - 1 < Levels
        BY <2>0, <2>2
      <3>1. w[j - 1].present /\ ~w[j - 1].huge
        BY <2>2 DEF GoesTo
      <3>2. GoesTo(w, j - 1)
        <4> SUFFICES ASSUME ~GoesTo(w, j - 1) PROVE FALSE
          OBVIOUS
        <4>1. j - 1 # 1 /\ ~(w[(j - 1) - 1].present /\ ~w[(j - 1) - 1].huge)
          BY DEF GoesTo
        <4>2. j - 1 \in 2 .. Levels
          BY <3>0, <4>1, <2>0
        <4>3. w[j - 1] = w[(j - 1) - 1]
          BY <1>w, <4>1, <4>2, Zenon DEF Follow
        <4> QED
          BY <3>1, <4>1, <4>3
      <3>3. P(j - 1)
        BY <1>2, <3>0, <3>2, Zenon
      <3> DEFINE u == TableAt(w, j - 1)
                 x == IndexAt(va, j - 1)
      <3>4. /\ u \in DOMAIN tb /\ w[j - 1] = tb[u][x]
            /\ place[u] = [level |-> j - 1, prefix |-> Prefix(va, (j - 1) - 1)]
        BY <3>3, Zenon
      <3>5. x \in Index /\ Prefix(va, j - 1) = Fanout * Prefix(va, (j - 1) - 1) + x
        BY <3>0, PrefixStep, Zenon
      <3> HIDE DEF u, x
      <3>6. place[u].level < Levels /\ place[u].level = j - 1
            /\ place[u].prefix = Prefix(va, (j - 1) - 1)
        BY <3>0, <3>4
      <3>7. /\ tb[u][x].addr \in DOMAIN tb
            /\ place[tb[u][x].addr] = [level  |-> place[u].level + 1,
                                       prefix |-> Fanout * place[u].prefix + x]
        BY <3>1, <3>4, <3>5, <3>6, ChildPlaced
      <3>8. TableAt(w, j) = tb[u][x].addr
        BY <2>2, <3>4, Zenon DEF TableAt
      <3>9. w[j] = tb[tb[u][x].addr][IndexAt(va, j)]
        BY <1>w, <3>0, <3>1, <3>4 DEF Follow
      <3>10. (j - 1) + 1 = j
        BY <2>0
      <3> QED
        BY <3>5, <3>6, <3>7, <3>8, <3>9, <3>10, Zenon
    <2> QED
      BY <2>1, <2>2
  <1>3. S = 0 .. Levels
    <2>1. S \in SUBSET (0 .. Levels)
      BY Zenon
    <2> HIDE DEF S
    <2> QED
      BY <1>1, <1>2, <2>1, RangeInduction, LevelsAssumption, Zenon
  <1>4. i \in S /\ i > 0
    BY <1>3, LevelsAssumption
  <1>5. P(i)
    BY <1>4, Zenon DEF w
  <1> QED
    BY <1>5 DEF w

\* The walk of every address that leads to the place of a table reads the table.
LEMMA TableOnWalk ==
  ASSUME NEW tb, NEW place, Placed(tb, place), NEW va \in VirtualPage,
         NEW t \in DOMAIN tb, Prefix(va, place[t].level - 1) = place[t].prefix
  PROVE  Walk(tb, va)[place[t].level] = tb[t][IndexAt(va, place[t].level)]
  <1> DEFINE w == Walk(tb, va)
             P(n, f) == place[f].level = n /\ place[f].prefix = Prefix(va, n - 1)
                          => w[n] = tb[f][IndexAt(va, n)]
             S == {n \in 0 .. Levels : \A f \in DOMAIN tb : P(n, f)}
  <1>w. /\ w[1] = tb[Root][IndexAt(va, 1)]
        /\ \A j \in 2 .. Levels : w[j] = Follow(tb, va, j, w[j - 1])
    BY WalkSteps
  <1>p. \A f \in DOMAIN tb :
          /\ place[f] \in Place
          /\ place[f].level \in 1 .. Levels /\ place[f].level \in Nat
          /\ place[f].prefix \in VirtualPage /\ place[f].prefix \in Nat
    BY PlaceTypes
  <1> HIDE DEF w
  <1>1. 0 \in S
    BY <1>p, LevelsAssumption
  <1>2. ASSUME NEW n \in 1 .. Levels, n - 1 \in S PROVE n \in S
    <2>0. n \in Nat /\ n >= 1 /\ n <= Levels /\ Levels \in Nat
      BY LevelsAssumption
    <2>1. ASSUME NEW f \in DOMAIN tb, place[f].level = n, place[f].prefix = Prefix(va, n - 1)
          PROVE  w[n] = tb[f][IndexAt(va, n)]
      <3>1. CASE n = 1
        <4>1. place[f] = [level |-> 1, prefix |-> 0]
          BY <1>p, <2>1, <3>1, PrefixEnds DEF Place
        <4>2. f = Root
          BY <4>1 DEF Placed
        <4> QED
          BY <3>1, <4>2, <1>w, Zenon
      <3>2. CASE n # 1
        <4>0. n - 1 \in 1 .. Levels /\ n \in 2 .. Levels
          BY <2>0, <3>2
        <4>1. f # Root
          BY <2>1, <3>2 DEF Placed
        <4>2. PICK u \in DOMAIN tb, x \in Index :
                /\ place[u].level < Levels
                /\ tb[u][x].present /\ ~tb[u][x].huge /\ tb[u][x].addr = f
          BY <4>1, Zenon DEF Placed
        <4>3. place[f] = [level |-> place[u].level + 1, prefix |-> Fanout * place[u].prefix + x]
          BY <4>2, ChildPlaced
        <4>4. place[u].level = n - 1 /\ Fanout * place[u].prefix + x = Prefix(va, n - 1)
          BY <1>p, <2>0, <2>1, <4>3
        <4>5. /\ Prefix(va, n - 1) = Fanout * Prefix(va, (n - 1) - 1) + IndexAt(va, n - 1)
              /\ Prefix(va, (n - 1) - 1) \in VirtualPage /\ IndexAt(va, n - 1) \in Index
          BY <4>0, PrefixStep, Zenon
        <4>6. Prefix(va, (n - 1) - 1) \in Nat /\ place[u].prefix \in Nat
          BY <1>p, <4>5 DEF VirtualPage
        <4>7. place[u].prefix = Prefix(va, (n - 1) - 1) /\ x = IndexAt(va, n - 1)
          BY <4>4, <4>5, <4>6, PartsUnique
        <4>8. w[n - 1] = tb[u][x]
          <5>1. P(n - 1, u)
            BY <1>2, Zenon
          <5> QED
            BY <5>1, <4>4, <4>7, Zenon
        <4> QED
          BY <1>w, <4>0, <4>2, <4>8 DEF Follow
      <3> QED
        BY <3>1, <3>2, Zenon
    <2> QED
      BY <2>0, <2>1
  <1>3. S = 0 .. Levels
    <2>1. S \in SUBSET (0 .. Levels)
      OBVIOUS
    <2> HIDE DEF S
    <2> QED
      BY <1>1, <1>2, <2>1, RangeInduction, LevelsAssumption, Zenon
  <1>4. P(place[t].level, t)
    <2>1. place[t].level \in S
      BY <1>3, <1>p
    <2> HIDE DEF P
    <2> QED
      BY <2>1, Zenon
  <1> QED
    BY <1>4, Zenon DEF w

\* Where an entry is not present, no entry further down the walk is.
LEMMA AbsentStays ==
  ASSUME NEW tb, NEW va, NEW i \in 1 .. Levels, ~Walk(tb, va)[i].present
  PROVE  \A j \in i .. Levels : ~Walk(tb, va)[j].present
  <1> DEFINE w == Walk(tb, va)
             S == {j \in 0 .. Levels : j >= i => ~w[j].present}
  <1>w. \A j \in 2 .. Levels : w[j] = Follow(tb, va, j, w[j - 1])
    BY WalkSteps
  <1> HIDE DEF w
  <1>1. 0 \in S
    BY LevelsAssumption
  <1>2. ASSUME NEW j \in 1 .. Levels, j - 1 \in S PROVE j \in S
    <2>0. j \in Nat /\ i \in Nat /\ i >= 1 /\ j <= Levels /\ Levels \in Nat
      BY LevelsAssumption
    <2>1. CASE j <= i
      <3>1. ~w[i].present
        BY DEF w
      <3>2. j >= i => j = i
        BY <2>0, <2>1
      <3> QED
        BY <2>0, <3>1, <3>2
    <2>2. CASE j > i
      <3>1. j \in 2 .. Levels /\ j - 1 >= i
        BY <2>0, <2>2
      <3>2. ~w[j - 1].present
        BY <1>2, <3>1, Zenon
      <3>3. w[j] = w[j - 1]
        BY <1>w, <3>1, <3>2 DEF Follow
      <3> QED
        BY <2>0, <3>2, <3>3
    <2> QED
      BY <2>0, <2>1, <2>2
  <1>3. S = 0 .. Levels
    <2>1. S \in SUBSET (0 .. Levels)
      OBVIOUS
    <2> HIDE DEF S
    <2> QED
      BY <1>1, <1>2, <2>1, RangeInduction, LevelsAssumption
  <1>4. \A j \in i .. Levels : j \in S /\ j >= i
    BY <1>3, LevelsAssumption
  <1> QED
    BY <1>4, Zenon DEF w
-----------------------------------------------------------------------------
\* The loop of map_page_translation, iteration by iteration.

LEMMA MapLoop ==
  ASSUME NEW s, NEW pa, NEW va, NEW writable
  PROVE  \E at : /\ at[0] = [s EXCEPT !.cur = Root]
                 /\ \A i \in 1 .. Levels : at[i] = MapLevel(at[i - 1], i, pa, va, writable)
                 /\ MapPageTranslation(s, pa, va, writable) = at[Levels]
  <1> DEFINE Start == [s EXCEPT !.cur = Root]
             Body(e, i) == MapLevel(e, i, pa, va, writable)
  <1>d. /\ Start = [s EXCEPT !.cur = Root]
        /\ \A e, i : Body(e, i) = MapLevel(e, i, pa, va, writable)
    OBVIOUS
  <1> DEFINE Is(f, n) == f = [i \in 0 .. n |-> IF i = 0 THEN Start ELSE Body(f[i - 1], i)]
             h == CHOOSE f : Is(f, Levels)
  <1>h. MapPageTranslation(s, pa, va, writable) = h[Levels]
    BY DEF MapPageTranslation
  <1> HIDE DEF Start, Body
  <1> DEFINE S == {n \in 0 .. Levels : \E f : Is(f, n)}
  <1>1. 0 \in S
    <2> DEFINE f == [i \in 0 .. 0 |-> Start]
    <2>1. Is(f, 0)
      OBVIOUS
    <2> HIDE DEF f, Is
    <2> QED
      BY <2>1, LevelsAssumption
  <1>2. ASSUME NEW n \in 1 .. Levels, n - 1 \in S PROVE n \in S
    <2>1. PICK f : Is(f, n - 1)
      BY <1>2, Zenon
    <2> DEFINE g == [i \in 0 .. n |-> IF i = n THEN Body(f[n - 1], n) ELSE f[i]]
    <2>2. \A i \in 0 .. n : g[i] = IF i = 0 THEN Start ELSE Body(g[i - 1], i)
      <3> TAKE i \in 0 .. n
      <3>0. n \in Nat /\ n >= 1 /\ i \in Nat
        BY LevelsAssumption
      <3>1. CASE i = n
        BY <3>0, <3>1
      <3>2. CASE i # n
        <4>1. i \in 0 .. n - 1 /\ g[i] = f[i]
          BY <3>0, <3>2
        <4>2. f[i] = IF i = 0 THEN Start ELSE Body(f[i - 1], i)
          BY <2>1, <4>1
        <4>3. i # 0 => g[i - 1] = f[i - 1]
          BY <3>0, <3>2
        <4> QED
          BY <4>1, <4>2, <4>3, Zenon
      <3> QED
        BY <3>1, <3>2, Zenon
    <2>3. g = [i \in 0 .. n |-> g[i]]
      OBVIOUS
    <2> HIDE DEF g
    <2>4. Is(g, n)
      BY <2>2, <2>3, Zenon
    <2> QED
      BY <2>4
  <1>3. Levels \in S
    <2> HIDE DEF S
    <2>1. S \in SUBSET (0 .. Levels)
      BY DEF S
    <2>2. S = 0 .. Levels
      BY <1>1, <1>2, <2>1, RangeInduction, LevelsAssumption
    <2> QED
      BY <2>2, LevelsAssumption
  <1>4. \E f : Is(f, Levels)
    BY <1>3
  <1>5. Is(h, Levels)
    BY <1>4, Zenon
  <1> HIDE DEF h
  <1>6. h[0] = Start /\ \A i \in 1 .. Levels : h[i] = Body(h[i - 1], i)
    BY <1>5, LevelsAssumption
  <1> QED
    BY <1>6, <1>d, <1>h
-----------------------------------------------------------------------------
\* What the operations keep.  out are the frames that are reserved and not in the
\* tables: those of other clients, and the page of a map_page under way.

Fresh == Bit \ BootReserved
KernelTables(tb) == DOMAIN tb \ DOMAIN BootTables

\* The bitmap, the tables and the frames outside of the tables agree.
FramesSound(a, tb, out) ==
  /\ a \in Allocator /\ a.total_pages = TotalPages
  /\ BootReserved \subseteq a.reserved
  /\ out \subseteq a.reserved \ BootReserved
  /\ KernelTables(tb) \subseteq a.reserved \ (BootReserved \cup out)
  /\ \A f \in Fresh : IF f \in a.reserved \ out THEN \E r : References(tb, f) = {r}
                      ELSE References(tb, f) = {}

\* The entries of the bootloader stay as they are.
BootKept(tb) ==
  /\ DOMAIN BootTables \subseteq DOMAIN tb
  /\ tb \in [DOMAIN tb -> [Index -> Entry]]
  /\ \A t \in DOMAIN BootTables, x \in Index : BootEntry(t, x) => tb[t][x] = BootTables[t][x]

\* What the kernel enters has no_execute set, and its parents are writable; a mapped
\* page is no table, and on the heap no device; the bootloader has mapped no page
\* of the heap, and nothing read-only above one.
EntriesSound(tb, place) ==
  \A t \in DOMAIN tb, x \in Index :
    /\ tb[t][x].present /\ ~BootEntry(t, x) =>
         /\ tb[t][x].no_execute
         /\ place[t].level < Levels => tb[t][x].writable
         /\ place[t].level = Levels =>
              /\ tb[t][x].addr \notin KernelTables(tb)
              /\ tb[t][x].addr \notin Fresh => Fanout * place[t].prefix + x \notin HeapPages
    /\ BootEntry(t, x) => \A va \in HeapPages :
         Covers(place[t], x, va) => place[t].level < Levels /\ tb[t][x].writable

Sound(a, tb, out, place) ==
  /\ FramesSound(a, tb, out)
  /\ BootKept(tb)
  /\ Placed(tb, place)
  /\ EntriesSound(tb, place)

LEMMA FirstFreeClear ==
  ASSUME NEW a \in Allocator, HasFree(a)
  PROVE  FirstFree(a) \in Bit /\ FirstFree(a) \notin a.reserved
  <1>1. Bit \ a.reserved \in SUBSET Nat
    BY BitmapBitsAssumption DEF Bit
  <1>2. \E p \in Bit \ a.reserved : \A q \in Bit \ a.reserved : p <= q
    BY <1>1, LeastNatural, Zenon DEF HasFree
  <1> QED
    BY <1>2 DEF FirstFree

LEMMA ReserveSets ==
  ASSUME NEW a \in Allocator, HasFree(a)
  PROVE  /\ Reserve(a) \in Allocator
         /\ Reserve(a).reserved = a.reserved \cup {FirstFree(a)}
         /\ Reserve(a).total_pages = a.total_pages
  <1> DEFINE S == a.reserved \cup {FirstFree(a)}
             n == a.free_pages - 1
  <1>1. S \in SUBSET Bit /\ n \in Int
    BY FirstFreeClear DEF Allocator
  <1>2. Reserve(a) = [a EXCEPT !.reserved = S, !.free_pages = n]
    BY DEF Reserve
  <1>3. Reserve(a) \in Allocator /\ Reserve(a).reserved = S
        /\ Reserve(a).total_pages = a.total_pages
    <2> HIDE DEF S, n
    <2> QED
      BY <1>1, <1>2, Zenon DEF Allocator
  <1> QED
    BY <1>3

LEMMA FreeClears ==
  ASSUME NEW a \in Allocator, NEW f \in Fresh, a.total_pages = TotalPages
  PROVE  /\ Free(a, f) \in Allocator
         /\ Free(a, f).reserved = a.reserved \ {f}
         /\ Free(a, f).total_pages = a.total_pages
  <1>1. f \in Nat /\ TotalPages \in Nat /\ f < TotalPages
    BY ReservedAssumption DEF Fresh
  <1> DEFINE S == a.reserved \ {f}
             n == a.free_pages + 1
  <1>2. S \in SUBSET Bit /\ n \in Int
    BY DEF Allocator
  <1>3. Free(a, f) = [a EXCEPT !.reserved = S, !.free_pages = n]
    BY <1>1 DEF Free
  <1>4. Free(a, f) \in Allocator /\ Free(a, f).reserved = S
        /\ Free(a, f).total_pages = a.total_pages
    <2> HIDE DEF S, n
    <2> QED
      BY <1>2, <1>3, Zenon DEF Allocator
  <1> QED
    BY <1>4

\* find_and_reserve_page
LEMMA ReserveKeeps ==
  ASSUME NEW a, NEW tb, NEW out, NEW place, Sound(a, tb, out, place), HasFree(a)
  PROVE  /\ Sound(Reserve(a), tb, out \cup {FirstFree(a)}, place)
         /\ FirstFree(a) \in Fresh /\ FirstFree(a) \notin a.reserved
  <1> DEFINE b == Reserve(a)
             p == FirstFree(a)
  <1>1. a \in Allocator
    BY DEF Sound, FramesSound
  <1>2. b \in Allocator /\ b.reserved = a.reserved \cup {p} /\ b.total_pages = a.total_pages
    BY <1>1, ReserveSets
  <1>3. p \in Bit /\ p \notin a.reserved
    BY <1>1, FirstFreeClear
  <1> HIDE DEF b, p
  <1>4. b.reserved \ (out \cup {p}) = a.reserved \ out
    BY <1>2, <1>3, Zenon
  <1>5. FramesSound(b, tb, out \cup {p})
    BY <1>2, <1>3, <1>4, Zenon DEF Sound, FramesSound
  <1>6. p \in Fresh
    BY <1>3 DEF Fresh, Sound, FramesSound
  <1> QED
    BY <1>3, <1>5, <1>6 DEF Sound, b, p

\* free_page of a frame that is not in the tables
LEMMA FreeKeeps ==
  ASSUME NEW a, NEW tb, NEW out, NEW place, Sound(a, tb, out, place), NEW f \in out
  PROVE  Sound(Free(a, f), tb, out \ {f}, place)
  <1> DEFINE b == Free(a, f)
  <1>1. a \in Allocator /\ a.total_pages = TotalPages /\ f \in a.reserved /\ f \notin BootReserved
    BY DEF Sound, FramesSound
  <1>2. f \in Fresh
    BY <1>1 DEF Fresh, Allocator
  <1>3. b \in Allocator /\ b.reserved = a.reserved \ {f} /\ b.total_pages = a.total_pages
    BY <1>1, <1>2, FreeClears, Zenon
  <1> HIDE DEF b
  <1>4. b.reserved \ (out \ {f}) = a.reserved \ out
    BY <1>3, Zenon
  <1>5. FramesSound(b, tb, out \ {f})
    BY <1>3, <1>4, <1>1 DEF Sound, FramesSound
  <1> QED
    BY <1>5 DEF Sound, b

\* The tables with a new one below the entry x of the table c, and its place.
AddTable(tb, c, x, new) ==
  [f \in DOMAIN tb \cup {new} |->
     IF f = new THEN [y \in Index |-> ZERO]
     ELSE IF f = c THEN [tb[f] EXCEPT ![x] = ReplaceAddrWith(TRUE, new)] ELSE tb[f]]

NewPlace(place, c, x) ==
  [level |-> place[c].level + 1, prefix |-> Fanout * place[c].prefix + x]

AddPlace(tb, place, c, x, new) ==
  [f \in DOMAIN tb \cup {new} |-> IF f = new THEN NewPlace(place, c, x) ELSE place[f]]

\* An entry made by replace_addr_with, and the empty one.
LEMMA EntryFields ==
  ASSUME NEW w \in BOOLEAN, NEW pa \in Nat
  PROVE  /\ ReplaceAddrWith(w, pa) \in Entry
         /\ ReplaceAddrWith(w, pa).present /\ ~ReplaceAddrWith(w, pa).huge
         /\ ReplaceAddrWith(w, pa).writable = w /\ ReplaceAddrWith(w, pa).addr = pa
         /\ ReplaceAddrWith(w, pa).no_execute
         /\ ZERO \in Entry /\ ~ZERO.present
  BY DEF ReplaceAddrWith, ZERO, Entry

TableAdded(tc, tb, c, x, new) ==
  /\ DOMAIN tc = DOMAIN tb \cup {new}
  /\ tc \in [DOMAIN tc -> [Index -> Entry]]
  /\ \A y \in Index : tc[new][y] = ZERO
  /\ \A t \in DOMAIN tb, y \in Index :
       tc[t][y] = IF t = c /\ y = x THEN ReplaceAddrWith(TRUE, new) ELSE tb[t][y]

LEMMA AddTableValues ==
  ASSUME NEW tb, tb \in [DOMAIN tb -> [Index -> Entry]],
         NEW c \in DOMAIN tb, NEW x \in Index, NEW new \in Nat, new \notin DOMAIN tb
  PROVE  TableAdded(AddTable(tb, c, x, new), tb, c, x, new)
  <1> DEFINE e == ReplaceAddrWith(TRUE, new)
             tc == AddTable(tb, c, x, new)
  <1>1. e \in Entry /\ ZERO \in Entry
    BY EntryFields, Zenon
  <1> HIDE DEF e
  <1>2. \A t \in DOMAIN tb : tb[t] \in [Index -> Entry]
    OBVIOUS
  <1>3. DOMAIN tc = DOMAIN tb \cup {new}
    BY DEF AddTable
  <1>4. [tb[c] EXCEPT ![x] = e] \in [Index -> Entry]
    BY <1>1, <1>2
  <1>5. /\ tc[new] = [y \in Index |-> ZERO]
        /\ \A t \in DOMAIN tb : tc[t] = IF t = c THEN [tb[c] EXCEPT ![x] = e] ELSE tb[t]
    BY Zenon DEF AddTable, e
  <1>6. \A t \in DOMAIN tb \cup {new} : tc[t] \in [Index -> Entry]
    <2> TAKE t \in DOMAIN tb \cup {new}
    <2>1. CASE t = new
      BY <1>1, <1>5, <2>1
    <2>2. CASE t \in DOMAIN tb
      BY <1>2, <1>4, <1>5, <2>2, Zenon
    <2> QED
      BY <2>1, <2>2
  <1>7. tc \in [DOMAIN tc -> [Index -> Entry]]
    <2>1. tc = [f \in DOMAIN tc |-> tc[f]]
      BY <1>3, Zenon DEF AddTable
    <2> HIDE DEF tc
    <2> QED
      BY <1>3, <1>6, <2>1
  <1> HIDE DEF tc
  <1>8. \A y \in Index : tc[new][y] = ZERO
    BY <1>5
  <1>9. \A t \in DOMAIN tb, y \in Index : tc[t][y] = IF t = c /\ y = x THEN e ELSE tb[t][y]
    <2> TAKE t \in DOMAIN tb, y \in Index
    <2>1. CASE t = c
      BY <1>2, <1>5, <2>1
    <2>2. CASE t # c
      BY <1>5, <2>2, Zenon
    <2> QED
      BY <2>1, <2>2
  <1> QED
    BY <1>3, <1>7, <1>8, <1>9, Zenon DEF TableAdded, tc, e

\* No table is at the place below an entry that is not present.
LEMMA PlaceIsFree ==
  ASSUME NEW tb, NEW place, Placed(tb, place), NEW c \in DOMAIN tb, NEW x \in Index,
         ~tb[c][x].present, NEW t \in DOMAIN tb
  PROVE  place[t] # NewPlace(place, c, x)
  <1> SUFFICES ASSUME place[t] = NewPlace(place, c, x) PROVE FALSE
    BY Zenon
  <1>p. \A f \in DOMAIN tb : place[f] \in Place /\ place[f].level \in Nat
                            /\ place[f].level >= 1 /\ place[f].prefix \in Nat
    BY PlaceTypes, LevelsAssumption
  <1>1. place[t].level = place[c].level + 1 /\ place[t].prefix = Fanout * place[c].prefix + x
    BY DEF NewPlace
  <1>2. t # Root
    <2>1. place[Root].level = 1
      BY DEF Placed
    <2> QED
      BY <1>1, <1>p, <2>1
  <1>3. PICK u \in DOMAIN tb, y \in Index :
          /\ place[u].level < Levels
          /\ tb[u][y].present /\ ~tb[u][y].huge /\ tb[u][y].addr = t
    BY <1>2, Zenon DEF Placed
  <1>4. place[t] = [level |-> place[u].level + 1, prefix |-> Fanout * place[u].prefix + y]
    <2>1. place[tb[u][y].addr] = [level  |-> place[u].level + 1,
                                  prefix |-> Fanout * place[u].prefix + y]
      BY <1>3, ChildPlaced
    <2> QED
      BY <1>3, <2>1, Zenon
  <1>5. place[t].level = place[u].level + 1 /\ place[t].prefix = Fanout * place[u].prefix + y
    BY <1>4
  <1>6. place[u].prefix = place[c].prefix /\ y = x
    BY <1>1, <1>5, <1>p, PartsUnique
  <1>7. place[u].level = place[c].level
    <2>1. place[u].level \in Nat /\ place[c].level \in Nat
      BY <1>p, Zenon
    <2> QED
      BY <1>1, <1>5, <2>1
  <1>8. place[u] = place[c]
    BY <1>6, <1>7, <1>p DEF Place
  <1>9. u = c
    BY <1>8, Zenon DEF Placed
  <1> QED
    BY <1>3, <1>6, <1>9, Zenon

PlaceAdded(q, tb, place, c, x, new) ==
  /\ q \in [DOMAIN tb \cup {new} -> Place]
  /\ q[new] = NewPlace(place, c, x)
  /\ \A t \in DOMAIN tb : q[t] = place[t]

LEMMA AddPlaceValues ==
  ASSUME NEW tb, NEW place, Placed(tb, place), NEW c \in DOMAIN tb, NEW x \in Index,
         place[c].level < Levels, NewPlace(place, c, x).prefix \in VirtualPage,
         NEW new, new \notin DOMAIN tb
  PROVE  PlaceAdded(AddPlace(tb, place, c, x, new), tb, place, c, x, new)
  <1>1. place[c].level \in Nat /\ place[c].level >= 1 /\ Levels \in Nat
    BY PlaceTypes, LevelsAssumption
  <1>2. place[c].level + 1 \in 1 .. Levels
    BY <1>1
  <1>3. NewPlace(place, c, x) \in Place
    BY <1>2, Zenon DEF NewPlace, Place
  <1>4. place \in [DOMAIN tb -> Place]
    BY DEF Placed
  <1> QED
    BY <1>3, <1>4, Zenon DEF AddPlace, PlaceAdded

LEMMA AddTablePlaced ==
  ASSUME NEW tb, tb \in [DOMAIN tb -> [Index -> Entry]],
         NEW place, Placed(tb, place), NEW c \in DOMAIN tb, NEW x \in Index,
         ~tb[c][x].present, place[c].level < Levels,
         NewPlace(place, c, x).prefix \in VirtualPage,
         NEW new \in Nat, new \notin DOMAIN tb
  PROVE  Placed(AddTable(tb, c, x, new), AddPlace(tb, place, c, x, new))
  <1> DEFINE tc == AddTable(tb, c, x, new)
             q == AddPlace(tb, place, c, x, new)
             e == ReplaceAddrWith(TRUE, new)
  <1>1. /\ DOMAIN tc = DOMAIN tb \cup {new}
        /\ \A y \in Index : tc[new][y] = ZERO
        /\ \A t \in DOMAIN tb, y \in Index :
             tc[t][y] = IF t = c /\ y = x THEN e ELSE tb[t][y]
    <2>1. TableAdded(tc, tb, c, x, new)
      BY AddTableValues
    <2> HIDE DEF tc
    <2> QED
      BY <2>1, Zenon DEF TableAdded
  <1>2. /\ q \in [DOMAIN tb \cup {new} -> Place]
        /\ q[new] = NewPlace(place, c, x)
        /\ \A t \in DOMAIN tb : q[t] = place[t]
    <2>1. PlaceAdded(q, tb, place, c, x, new)
      BY AddPlaceValues
    <2> HIDE DEF q
    <2> QED
      BY <2>1 DEF PlaceAdded
  <1>3. e.present /\ ~e.huge /\ e.addr = new /\ ~ZERO.present
    BY EntryFields, Zenon
  <1> HIDE DEF tc, q, e
  <1>4. Root \in DOMAIN tc /\ q[Root] = [level |-> 1, prefix |-> 0]
    BY <1>1, <1>2 DEF Placed
  <1>5. ASSUME NEW t \in DOMAIN tc, NEW u \in DOMAIN tc, q[t] = q[u] PROVE t = u
    <2>1. CASE t \in DOMAIN tb /\ u \in DOMAIN tb
      BY <1>2, <1>5, <2>1 DEF Placed
    <2>2. CASE t \in DOMAIN tb /\ u = new
      BY <1>2, <1>5, <2>2, PlaceIsFree
    <2>3. CASE t = new /\ u \in DOMAIN tb
      <3>1. place[u] # NewPlace(place, c, x)
        BY <2>3, PlaceIsFree, Zenon
      <3> QED
        BY <1>2, <1>5, <2>3, <3>1, Zenon
    <2> QED
      BY <1>1, <2>1, <2>2, <2>3
  <1>6. ASSUME NEW t \in DOMAIN tc \ {Root}
        PROVE  \E u \in DOMAIN tc, y \in Index :
                 /\ q[u].level < Levels
                 /\ tc[u][y].present /\ ~tc[u][y].huge /\ tc[u][y].addr = t
    <2>1. CASE t = new
      BY <1>1, <1>2, <1>3, <2>1
    <2>2. CASE t # new
      <3>1. PICK u \in DOMAIN tb, y \in Index :
              /\ place[u].level < Levels
              /\ tb[u][y].present /\ ~tb[u][y].huge /\ tb[u][y].addr = t
        BY <1>1, <2>2, Zenon DEF Placed
      <3>2. tc[u][y] = tb[u][y] /\ q[u] = place[u] /\ u \in DOMAIN tc
        BY <1>1, <1>2, <3>1
      <3> QED
        BY <3>1, <3>2, Zenon
    <2> QED
      BY <2>1, <2>2, Zenon
  <1>7. ASSUME NEW t \in DOMAIN tc, NEW y \in Index, tc[t][y].present, q[t].level < Levels
        PROVE  IF tc[t][y].huge THEN \A va \in KernelPages : ~Covers(q[t], y, va)
               ELSE /\ tc[t][y].addr \in DOMAIN tc
                    /\ q[tc[t][y].addr] = [level  |-> q[t].level + 1,
                                           prefix |-> Fanout * q[t].prefix + y]
    <2>1. t \in DOMAIN tb
      BY <1>1, <1>3, <1>7
    <2>2. CASE t = c /\ y = x
      <3>1. tc[t][y] = e /\ q[t] = place[c]
        BY <1>1, <1>2, <2>1, <2>2, Zenon
      <3> QED
        BY <1>1, <1>2, <1>3, <2>2, <3>1, Zenon DEF NewPlace
    <2>3. CASE ~(t = c /\ y = x)
      <3>1. tc[t][y] = tb[t][y] /\ q[t] = place[t]
        BY <1>1, <1>2, <2>1, <2>3, Zenon
      <3>2. CASE tb[t][y].huge
        <4>1. \A va \in KernelPages : ~Covers(place[t], y, va)
          BY <1>7, <2>1, <3>1, <3>2, Zenon DEF Placed
        <4> QED
          BY <3>1, <3>2, <4>1, Zenon
      <3>3. CASE ~tb[t][y].huge
        <4>1. tb[t][y].addr \in DOMAIN tb
              /\ place[tb[t][y].addr] = [level  |-> place[t].level + 1,
                                         prefix |-> Fanout * place[t].prefix + y]
          BY <1>7, <2>1, <3>1, <3>3, ChildPlaced
        <4> QED
          BY <1>1, <1>2, <3>1, <3>3, <4>1
      <3> QED
        BY <3>2, <3>3, Zenon
    <2> QED
      BY <2>2, <2>3, Zenon
  <1>8. \A t \in DOMAIN tc, y \in Index :
          tc[t][y].present /\ q[t].level < Levels =>
            IF tc[t][y].huge THEN \A va \in KernelPages : ~Covers(q[t], y, va)
            ELSE /\ tc[t][y].addr \in DOMAIN tc
                 /\ q[tc[t][y].addr] = [level  |-> q[t].level + 1,
                                        prefix |-> Fanout * q[t].prefix + y]
    BY <1>7
  <1>9. Placed(tc, q)
    <2>1. \A t, u \in DOMAIN tc : q[t] = q[u] => t = u
      BY <1>5, Zenon
    <2>2. \A t \in DOMAIN tc \ {Root} : \E u \in DOMAIN tc, y \in Index :
            /\ q[u].level < Levels
            /\ tc[u][y].present /\ ~tc[u][y].huge /\ tc[u][y].addr = t
      BY <1>6, Zenon
    <2>3. q \in [DOMAIN tc -> Place]
      BY <1>1, <1>2, Zenon
    <2> QED
      BY <1>4, <1>8, <2>1, <2>2, <2>3, Zenon DEF Placed
  <1> QED
    BY <1>9, Zenon DEF tc, q

LEMMA ReferenceIs ==
  ASSUME NEW tb, NEW f
  PROVE  /\ References(tb, f) \subseteq (DOMAIN tb) \X Index
         /\ \A t \in DOMAIN tb, y \in Index :
              <<t, y>> \in References(tb, f) <=>
                tb[t][y].present /\ tb[t][y].addr = f /\ ~BootEntry(t, y)
  BY DEF References

LEMMA AddTableReferences ==
  ASSUME NEW tb, tb \in [DOMAIN tb -> [Index -> Entry]],
         NEW c \in DOMAIN tb, NEW x \in Index, ~tb[c][x].present, ~BootEntry(c, x),
         NEW new \in Nat, new \notin DOMAIN tb, References(tb, new) = {}
  PROVE  /\ References(AddTable(tb, c, x, new), new) = {<<c, x>>}
         /\ \A f : f # new => References(AddTable(tb, c, x, new), f) = References(tb, f)
  <1> DEFINE tc == AddTable(tb, c, x, new)
             e == ReplaceAddrWith(TRUE, new)
  <1>1. /\ DOMAIN tc = DOMAIN tb \cup {new}
        /\ \A y \in Index : tc[new][y] = ZERO
        /\ \A t \in DOMAIN tb, y \in Index :
             tc[t][y] = IF t = c /\ y = x THEN e ELSE tb[t][y]
    <2>1. TableAdded(tc, tb, c, x, new)
      BY AddTableValues
    <2> HIDE DEF tc
    <2> QED
      BY <2>1, Zenon DEF TableAdded
  <1>2. e.present /\ e.addr = new /\ ~ZERO.present
    BY EntryFields, Zenon
  <1> HIDE DEF tc, e
  <1>3. ASSUME NEW f, NEW t \in DOMAIN tc, NEW y \in Index
        PROVE  <<t, y>> \in References(tc, f) <=>
                 (t = c /\ y = x /\ f = new) \/ <<t, y>> \in References(tb, f)
    <2>1. CASE t = c /\ y = x
      BY <1>1, <1>2, <2>1, ReferenceIs
    <2>2. CASE t \in DOMAIN tb /\ ~(t = c /\ y = x)
      BY <1>1, <2>2, ReferenceIs
    <2>3. CASE t = new
      <3>1. ~tc[t][y].present /\ t # c
        BY <1>1, <1>2, <2>3, Zenon
      <3>2. <<t, y>> \notin References(tb, f)
        BY <2>3, ReferenceIs
      <3> QED
        BY <3>1, <3>2, ReferenceIs
    <2> QED
      BY <1>1, <2>1, <2>2, <2>3
  <1>4. \A f : References(tc, f) \subseteq (DOMAIN tc) \X Index
               /\ References(tb, f) \subseteq (DOMAIN tc) \X Index
    BY <1>1, ReferenceIs
  <1>5. References(tc, new) = {<<c, x>>}
    <2>1. <<c, x>> \in References(tc, new)
      BY <1>1, <1>3, Zenon
    <2>2. ASSUME NEW r \in References(tc, new) PROVE r = <<c, x>>
      <3>1. PICK t \in DOMAIN tc, y \in Index : r = <<t, y>>
        BY <1>4
      <3> QED
        BY <1>3, <3>1, Zenon
    <2> QED
      BY <2>1, <2>2
  <1>6. ASSUME NEW f, f # new PROVE References(tc, f) = References(tb, f)
    <2>1. ASSUME NEW r \in (DOMAIN tc) \X Index
          PROVE  r \in References(tc, f) <=> r \in References(tb, f)
      <3>1. PICK t \in DOMAIN tc, y \in Index : r = <<t, y>>
        OBVIOUS
      <3> QED
        BY <1>3, <1>6, <3>1, Zenon
    <2> QED
      BY <1>4, <2>1, Zenon
  <1> QED
    BY <1>5, <1>6 DEF tc

\* The free frame new, made a table and entered at x of c, leaves everything sound.
NewTableSound(a, tb, out, place, c, x, new) ==
  LET tc == AddTable(tb, c, x, new)
      q == AddPlace(tb, place, c, x, new)
  IN  /\ Sound(Reserve(a), tc, out, q)
      /\ new \in DOMAIN tc
      /\ q[new] = NewPlace(place, c, x)

\* A missing parent is made of a frame that find_and_reserve_page returns.
LEMMA NewTableKeeps ==
  ASSUME NEW a, NEW tb, NEW out, NEW place, Sound(a, tb, out, place), HasFree(a),
         NEW c \in DOMAIN tb, NEW x \in Index, ~tb[c][x].present, place[c].level < Levels,
         NewPlace(place, c, x).prefix \in VirtualPage
  PROVE  NewTableSound(a, tb, out, place, c, x, FirstFree(a))
  <1> DEFINE new == FirstFree(a)
             b == Reserve(a)
             tc == AddTable(tb, c, x, new)
             q == AddPlace(tb, place, c, x, new)
             e == ReplaceAddrWith(TRUE, new)
  <1>1. /\ a \in Allocator /\ a.total_pages = TotalPages
        /\ BootReserved \subseteq a.reserved
        /\ out \subseteq a.reserved \ BootReserved
        /\ KernelTables(tb) \subseteq a.reserved \ (BootReserved \cup out)
        /\ \A f \in Fresh : IF f \in a.reserved \ out THEN \E r : References(tb, f) = {r}
                            ELSE References(tb, f) = {}
    BY Zenon DEF Sound, FramesSound
  <1>2. /\ DOMAIN BootTables \subseteq DOMAIN tb
        /\ tb \in [DOMAIN tb -> [Index -> Entry]]
        /\ \A t \in DOMAIN BootTables, y \in Index : BootEntry(t, y) => tb[t][y] = BootTables[t][y]
        /\ Placed(tb, place) /\ EntriesSound(tb, place)
    BY DEF Sound, BootKept
  <1>3. new \in Bit /\ new \notin a.reserved /\ b \in Allocator
        /\ b.reserved = a.reserved \cup {new} /\ b.total_pages = TotalPages
    BY <1>1, ReserveSets, FirstFreeClear, Zenon
  <1> HIDE DEF new, b
  <1>4. /\ new \in Nat /\ new \in Fresh /\ new \notin BootReserved /\ new \notin out
        /\ new \notin DOMAIN BootTables /\ new \notin DOMAIN tb /\ References(tb, new) = {}
    <2>1. new \in Nat /\ new \in Fresh /\ new \notin BootReserved /\ new \notin out
      BY <1>1, <1>3 DEF Bit, Fresh
    <2>2. new \notin DOMAIN BootTables
      BY <2>1, BootTablesAssumption, Zenon
    <2> QED
      BY <1>1, <1>3, <2>1, <2>2, Zenon DEF KernelTables
  <1>5. ~BootEntry(c, x)
    BY <1>2, Zenon DEF BootEntry
  <1>6. /\ DOMAIN tc = DOMAIN tb \cup {new}
        /\ tc \in [DOMAIN tc -> [Index -> Entry]]
        /\ \A y \in Index : tc[new][y] = ZERO
        /\ \A t \in DOMAIN tb, y \in Index :
             tc[t][y] = IF t = c /\ y = x THEN e ELSE tb[t][y]
    <2>1. TableAdded(tc, tb, c, x, new)
      BY <1>2, <1>4, AddTableValues
    <2> HIDE DEF tc
    <2> QED
      BY <2>1, Zenon DEF TableAdded
  <1>7. /\ q[new] = NewPlace(place, c, x)
        /\ \A t \in DOMAIN tb : q[t] = place[t]
    <2>1. PlaceAdded(q, tb, place, c, x, new)
      BY <1>2, <1>4, AddPlaceValues, Zenon
    <2> HIDE DEF q
    <2> QED
      BY <2>1 DEF PlaceAdded
  <1>8. Placed(tc, q)
    BY <1>2, <1>4, AddTablePlaced, Zenon
  <1>9. /\ References(tc, new) = {<<c, x>>}
        /\ \A f : f # new => References(tc, f) = References(tb, f)
    BY <1>2, <1>4, <1>5, AddTableReferences
  <1>10. e.present /\ e.addr = new /\ e.writable /\ e.no_execute /\ ~ZERO.present
    BY <1>4, EntryFields, Zenon
  <1> HIDE DEF tc, q, e
  <1>11. KernelTables(tc) = KernelTables(tb) \cup {new}
    BY <1>4, <1>6 DEF KernelTables
  <1>12. FramesSound(b, tc, out)
    <2>1. \A f \in Fresh : IF f \in b.reserved \ out THEN \E r : References(tc, f) = {r}
                           ELSE References(tc, f) = {}
      <3> SUFFICES ASSUME NEW f \in Fresh
                   PROVE  IF f \in b.reserved \ out THEN \E r : References(tc, f) = {r}
                          ELSE References(tc, f) = {}
        BY Zenon
      <3>1. CASE f = new
        BY <1>3, <1>4, <1>9, <3>1, Zenon
      <3>2. CASE f # new
        BY <1>1, <1>3, <1>9, <3>2, Zenon
      <3> QED
        BY <3>1, <3>2, Zenon
    <2> QED
      BY <1>1, <1>3, <1>4, <1>11, <2>1, Zenon DEF FramesSound
  <1>13. BootKept(tc)
    BY <1>2, <1>5, <1>6 DEF BootKept
  <1>14. EntriesSound(tc, q)
    <2> SUFFICES ASSUME NEW t \in DOMAIN tc, NEW y \in Index
                 PROVE  /\ tc[t][y].present /\ ~BootEntry(t, y) =>
                             /\ tc[t][y].no_execute
                             /\ q[t].level < Levels => tc[t][y].writable
                             /\ q[t].level = Levels =>
                                  /\ tc[t][y].addr \notin KernelTables(tc)
                                  /\ tc[t][y].addr \notin Fresh =>
                                       Fanout * q[t].prefix + y \notin HeapPages
                        /\ BootEntry(t, y) => \A va \in HeapPages :
                             Covers(q[t], y, va) => q[t].level < Levels /\ tc[t][y].writable
      BY Zenon DEF EntriesSound
    <2>1. CASE t = new
      BY <1>4, <1>6, <1>10, <2>1, Zenon DEF BootEntry
    <2>2. CASE t = c /\ y = x
      <3>1. tc[t][y] = e /\ q[t].level < Levels /\ q[t].level \in Nat
        BY <1>2, <1>6, <1>7, <2>2, PlaceTypes, ZenonT(60)
      <3>2. q[t].level # Levels
        BY <3>1, LevelsAssumption
      <3> QED
        BY <1>5, <1>10, <2>2, <3>1, <3>2, Zenon
    <2>3. CASE t \in DOMAIN tb /\ ~(t = c /\ y = x)
      <3>1. tc[t][y] = tb[t][y] /\ q[t] = place[t]
        BY <1>6, <1>7, <2>3, Zenon
      <3>2. tb[t][y].present /\ ~BootEntry(t, y) => tb[t][y].addr # new
        BY <1>4, <2>3, ReferenceIs, Zenon
      <3> QED
        BY <1>2, <1>11, <2>3, <3>1, <3>2, Zenon DEF EntriesSound
    <2> QED
      BY <1>6, <2>1, <2>2, <2>3
  <1> QED
    BY <1>6, <1>7, <1>8, <1>12, <1>13, <1>14, Zenon DEF Sound, NewTableSound, new, b, tc, q

\* The tables with another entry x in the table c.
SetEntry(tb, c, x, e) == [tb EXCEPT ![c][x] = e]

LEMMA SetEntryValues ==
  ASSUME NEW tb, tb \in [DOMAIN tb -> [Index -> Entry]],
         NEW c \in DOMAIN tb, NEW x \in Index, NEW e \in Entry
  PROVE  LET tc == SetEntry(tb, c, x, e)
         IN  /\ DOMAIN tc = DOMAIN tb
             /\ tc \in [DOMAIN tc -> [Index -> Entry]]
             /\ \A t \in DOMAIN tb, y \in Index :
                  tc[t][y] = IF t = c /\ y = x THEN e ELSE tb[t][y]
  <1> DEFINE D == DOMAIN tb
             row == [tb[c] EXCEPT ![x] = e]
             tc == SetEntry(tb, c, x, e)
  <1>1. \A t \in D : tb[t] \in [Index -> Entry]
    OBVIOUS
  <1>2. row \in [Index -> Entry] /\ \A y \in Index : row[y] = IF y = x THEN e ELSE tb[c][y]
    BY <1>1
  <1>3. tc = [tb EXCEPT ![c] = row]
    BY DEF SetEntry
  <1> HIDE DEF row, tc
  <1>4. DOMAIN tc = D /\ tc \in [D -> [Index -> Entry]]
    BY <1>2, <1>3
  <1>5. \A t \in D : tc[t] = IF t = c THEN row ELSE tb[t]
    BY <1>3
  <1>6. \A t \in D, y \in Index : tc[t][y] = IF t = c /\ y = x THEN e ELSE tb[t][y]
    BY <1>2, <1>5, ZenonT(60)
  <1> QED
    BY <1>4, <1>6 DEF tc

\* An entry of the last level leads to no table.
LEMMA SetEntryPlaced ==
  ASSUME NEW tb, tb \in [DOMAIN tb -> [Index -> Entry]], NEW place, Placed(tb, place),
         NEW c \in DOMAIN tb, NEW x \in Index, NEW e \in Entry, place[c].level = Levels
  PROVE  Placed(SetEntry(tb, c, x, e), place)
  <1> DEFINE tc == SetEntry(tb, c, x, e)
  <1>1. /\ DOMAIN tc = DOMAIN tb
        /\ \A t \in DOMAIN tb, y \in Index :
             tc[t][y] = IF t = c /\ y = x THEN e ELSE tb[t][y]
    BY SetEntryValues
  <1> HIDE DEF tc
  <1>2. ASSUME NEW t \in DOMAIN tb, NEW y \in Index, place[t].level < Levels
        PROVE  tc[t][y] = tb[t][y]
    BY <1>1, <1>2, PlaceTypes, LevelsAssumption
  <1>3. ASSUME NEW t \in DOMAIN tc \ {Root}
        PROVE  \E u \in DOMAIN tc, y \in Index :
                 /\ place[u].level < Levels
                 /\ tc[u][y].present /\ ~tc[u][y].huge /\ tc[u][y].addr = t
    <2>1. PICK u \in DOMAIN tb, y \in Index :
            /\ place[u].level < Levels
            /\ tb[u][y].present /\ ~tb[u][y].huge /\ tb[u][y].addr = t
      BY <1>1, ZenonT(60) DEF Placed
    <2> QED
      BY <1>1, <1>2, <2>1, ZenonT(60)
  <1>4. ASSUME NEW t \in DOMAIN tc, NEW y \in Index, tc[t][y].present, place[t].level < Levels
        PROVE  IF tc[t][y].huge THEN \A va \in KernelPages : ~Covers(place[t], y, va)
               ELSE /\ tc[t][y].addr \in DOMAIN tc
                    /\ place[tc[t][y].addr] = [level  |-> place[t].level + 1,
                                               prefix |-> Fanout * place[t].prefix + y]
    <2>1. tc[t][y] = tb[t][y] /\ t \in DOMAIN tb
      BY <1>1, <1>2, <1>4, Zenon
    <2> QED
      BY <1>1, <1>4, <2>1 DEF Placed
  <1> QED
    BY <1>1, <1>3, <1>4 DEF Placed, tc

LEMMA SetEntryReferences ==
  ASSUME NEW tb, tb \in [DOMAIN tb -> [Index -> Entry]],
         NEW c \in DOMAIN tb, NEW x \in Index, NEW e \in Entry, ~BootEntry(c, x), NEW f
  PROVE  References(SetEntry(tb, c, x, e), f) =
           (References(tb, f) \ {<<c, x>>})
             \cup (IF e.present /\ e.addr = f THEN {<<c, x>>} ELSE {})
  <1> DEFINE tc == SetEntry(tb, c, x, e)
             R == (References(tb, f) \ {<<c, x>>})
                    \cup (IF e.present /\ e.addr = f THEN {<<c, x>>} ELSE {})
  <1>1. /\ DOMAIN tc = DOMAIN tb
        /\ \A t \in DOMAIN tb, y \in Index :
             tc[t][y] = IF t = c /\ y = x THEN e ELSE tb[t][y]
    BY SetEntryValues
  <1> HIDE DEF tc
  <1>2. References(tc, f) \subseteq (DOMAIN tb) \X Index /\ R \subseteq (DOMAIN tb) \X Index
    BY <1>1, ReferenceIs
  <1>3. ASSUME NEW r \in (DOMAIN tb) \X Index PROVE r \in References(tc, f) <=> r \in R
    <2>1. PICK t \in DOMAIN tb, y \in Index : r = <<t, y>>
      OBVIOUS
    <2>2. <<t, y>> \in References(tc, f) <=>
            tc[t][y].present /\ tc[t][y].addr = f /\ ~BootEntry(t, y)
      BY <1>1, ReferenceIs, Zenon
    <2>3. CASE t = c /\ y = x
      BY <1>1, <2>1, <2>2, <2>3
    <2>4. CASE ~(t = c /\ y = x)
      <3>1. tc[t][y] = tb[t][y] /\ r # <<c, x>>
        BY <1>1, <2>1, <2>4, Zenon
      <3>2. r \in References(tc, f) <=> r \in References(tb, f)
        BY <2>1, <2>2, <3>1, ReferenceIs
      <3> QED
        BY <3>1, <3>2, Zenon
    <2> QED
      BY <2>3, <2>4, Zenon
  <1> HIDE DEF R
  <1>4. References(tc, f) = R
    BY <1>2, <1>3, Zenon
  <1> QED
    BY <1>4, Zenon DEF tc, R

\* What another entry in a table of the last level leaves of Sound.
LEMMA SetEntryKeeps ==
  ASSUME NEW a, NEW tb, NEW out, NEW place, Sound(a, tb, out, place),
         NEW c \in DOMAIN tb, NEW x \in Index, place[c].level = Levels, ~BootEntry(c, x),
         NEW e \in Entry,
         e.present => /\ e.no_execute /\ e.addr \notin KernelTables(tb)
                      /\ e.addr \notin Fresh => Fanout * place[c].prefix + x \notin HeapPages
  PROVE  LET tc == SetEntry(tb, c, x, e)
         IN  BootKept(tc) /\ Placed(tc, place) /\ EntriesSound(tc, place)
             /\ KernelTables(tc) = KernelTables(tb)
  <1> DEFINE tc == SetEntry(tb, c, x, e)
  <1>1. /\ DOMAIN BootTables \subseteq DOMAIN tb
        /\ tb \in [DOMAIN tb -> [Index -> Entry]]
        /\ \A t \in DOMAIN BootTables, y \in Index : BootEntry(t, y) => tb[t][y] = BootTables[t][y]
        /\ Placed(tb, place) /\ EntriesSound(tb, place)
    BY Zenon DEF Sound, BootKept
  <1>2. /\ DOMAIN tc = DOMAIN tb
        /\ tc \in [DOMAIN tc -> [Index -> Entry]]
        /\ \A t \in DOMAIN tb, y \in Index :
             tc[t][y] = IF t = c /\ y = x THEN e ELSE tb[t][y]
    BY <1>1, SetEntryValues
  <1>3. Placed(tc, place)
    BY <1>1, SetEntryPlaced, Zenon
  <1> HIDE DEF tc
  <1>4. KernelTables(tc) = KernelTables(tb)
    BY <1>2, Zenon DEF KernelTables
  <1>5. BootKept(tc)
    BY <1>1, <1>2, ZenonT(60) DEF BootKept
  <1>6. EntriesSound(tc, place)
    <2> SUFFICES ASSUME NEW t \in DOMAIN tc, NEW y \in Index
                 PROVE  /\ tc[t][y].present /\ ~BootEntry(t, y) =>
                             /\ tc[t][y].no_execute
                             /\ place[t].level < Levels => tc[t][y].writable
                             /\ place[t].level = Levels =>
                                  /\ tc[t][y].addr \notin KernelTables(tc)
                                  /\ tc[t][y].addr \notin Fresh =>
                                       Fanout * place[t].prefix + y \notin HeapPages
                        /\ BootEntry(t, y) => \A va \in HeapPages :
                             Covers(place[t], y, va) => place[t].level < Levels /\ tc[t][y].writable
      BY Zenon DEF EntriesSound
    <2>1. CASE t = c /\ y = x
      <3>1. tc[t][y] = e /\ ~(place[t].level < Levels)
        BY <1>2, <2>1, LevelsAssumption
      <3> QED
        BY <1>4, <2>1, <3>1, Zenon
    <2>2. CASE ~(t = c /\ y = x)
      <3>1. tc[t][y] = tb[t][y] /\ t \in DOMAIN tb
        BY <1>2, <2>2, Zenon
      <3> QED
        BY <1>1, <1>4, <3>1, Zenon DEF EntriesSound
    <2> QED
      BY <2>1, <2>2, Zenon
  <1> QED
    BY <1>3, <1>4, <1>5, <1>6, Zenon DEF tc

\* A page is mapped, to a frame that is not in the tables or to device memory.
LEMMA LeafKeeps ==
  ASSUME NEW a, NEW tb, NEW out, NEW place, Sound(a, tb, out, place),
         NEW c \in DOMAIN tb, NEW x \in Index, place[c].level = Levels, ~tb[c][x].present,
         NEW w \in BOOLEAN, NEW pa \in Nat,
         pa \in out \/ (pa \notin Fresh /\ Fanout * place[c].prefix + x \notin HeapPages)
  PROVE  Sound(a, SetEntry(tb, c, x, ReplaceAddrWith(w, pa)), out \ {pa}, place)
  <1> DEFINE e == ReplaceAddrWith(w, pa)
             tc == SetEntry(tb, c, x, e)
             R(f) == References(tb, f)
  <1>1. /\ a \in Allocator /\ a.total_pages = TotalPages
        /\ BootReserved \subseteq a.reserved
        /\ out \subseteq a.reserved \ BootReserved
        /\ KernelTables(tb) \subseteq a.reserved \ (BootReserved \cup out)
        /\ \A f \in Fresh : IF f \in a.reserved \ out THEN \E r : R(f) = {r} ELSE R(f) = {}
    BY Zenon DEF Sound, FramesSound
  <1>2. tb \in [DOMAIN tb -> [Index -> Entry]] /\ ~BootEntry(c, x)
    BY DEF Sound, BootKept, BootEntry
  <1>3. e \in Entry /\ e.present /\ e.addr = pa /\ e.no_execute
    BY EntryFields
  <1>4. \A f : References(tc, f) = (R(f) \ {<<c, x>>}) \cup (IF pa = f THEN {<<c, x>>} ELSE {})
    <2> TAKE f
    <2> HIDE DEF e, R
    <2> QED
      BY <1>2, <1>3, SetEntryReferences DEF R
  <1>5. \A f : <<c, x>> \notin R(f)
    BY ReferenceIs, Zenon
  <1>6. pa \notin KernelTables(tb)
    <2>1. a.reserved \subseteq Bit
      BY <1>1, Zenon DEF Allocator
    <2> QED
      BY <1>1, <2>1, Zenon DEF Fresh
  <1>7. BootKept(tc) /\ Placed(tc, place) /\ EntriesSound(tc, place)
        /\ KernelTables(tc) = KernelTables(tb)
    <2> HIDE DEF e
    <2>1. pa \notin Fresh => Fanout * place[c].prefix + x \notin HeapPages
      BY <1>1, Zenon DEF Fresh, Allocator
    <2> QED
      BY <1>2, <1>3, <1>6, <2>1, SetEntryKeeps
  <1> HIDE DEF e, tc, R
  <1>8. \A f \in Fresh : IF f \in a.reserved \ (out \ {pa}) THEN \E r : References(tc, f) = {r}
                         ELSE References(tc, f) = {}
    <2> SUFFICES ASSUME NEW f \in Fresh
                 PROVE  IF f \in a.reserved \ (out \ {pa}) THEN \E r : References(tc, f) = {r}
                        ELSE References(tc, f) = {}
      BY Zenon
    <2>1. CASE f = pa
      <3>1. f \in out /\ R(f) = {}
        BY <1>1, <2>1
      <3>2. References(tc, f) = {<<c, x>>}
        BY <1>4, <2>1, <3>1
      <3> QED
        BY <1>1, <2>1, <3>1, <3>2, Zenon
    <2>2. CASE f # pa
      <3>1. References(tc, f) = R(f)
        BY <1>4, <1>5, <2>2
      <3> QED
        BY <1>1, <2>2, <3>1, Zenon
    <2> QED
      BY <2>1, <2>2, Zenon
  <1>9. FramesSound(a, tc, out \ {pa})
    <2>1. KernelTables(tb) \subseteq a.reserved \ (BootReserved \cup (out \ {pa}))
      BY <1>1
    <2> QED
      BY <1>1, <1>7, <1>8, <2>1, Zenon DEF FramesSound
  <1> QED
    BY <1>7, <1>9, Zenon DEF Sound, e, tc

\* A page of the heap is unmapped and its frame freed.
LEMMA UnmapKeeps ==
  ASSUME NEW a, NEW tb, NEW out, NEW place, Sound(a, tb, out, place),
         NEW c \in DOMAIN tb, NEW x \in Index, place[c].level = Levels, tb[c][x].present,
         ~BootEntry(c, x), Fanout * place[c].prefix + x \in HeapPages
  PROVE  /\ Sound(Free(a, tb[c][x].addr), SetEntry(tb, c, x, ZERO), out, place)
         /\ tb[c][x].addr \in Fresh
  <1> DEFINE p == tb[c][x].addr
             b == Free(a, p)
             tc == SetEntry(tb, c, x, ZERO)
             R(f) == References(tb, f)
  <1>1. /\ a \in Allocator /\ a.total_pages = TotalPages
        /\ BootReserved \subseteq a.reserved
        /\ out \subseteq a.reserved \ BootReserved
        /\ KernelTables(tb) \subseteq a.reserved \ (BootReserved \cup out)
        /\ \A f \in Fresh : IF f \in a.reserved \ out THEN \E r : R(f) = {r} ELSE R(f) = {}
    BY Zenon DEF Sound, FramesSound
  <1>2. tb \in [DOMAIN tb -> [Index -> Entry]]
    BY Zenon DEF Sound, BootKept
  <1>3. p \notin KernelTables(tb) /\ p \in Fresh
    BY Zenon DEF Sound, EntriesSound
  <1>4. ZERO \in Entry /\ ~ZERO.present
    BY EntryFields, Zenon
  <1>5. \A f : References(tc, f) = R(f) \ {<<c, x>>}
    BY <1>2, <1>4, SetEntryReferences
  <1>6. <<c, x>> \in R(p) /\ \A f : f # p => <<c, x>> \notin R(f)
    BY ReferenceIs
  <1>7. BootKept(tc) /\ Placed(tc, place) /\ EntriesSound(tc, place)
        /\ KernelTables(tc) = KernelTables(tb)
    BY <1>4, SetEntryKeeps
  <1>8. b \in Allocator /\ b.reserved = a.reserved \ {p} /\ b.total_pages = TotalPages
    BY <1>1, <1>3, FreeClears, Zenon
  <1> HIDE DEF p, b, tc, R
  <1>9. p \in a.reserved \ out /\ \E r : R(p) = {r}
    BY <1>1, <1>3, <1>6, ZenonT(60)
  <1>10. R(p) = {<<c, x>>}
    BY <1>6, <1>9
  <1>11. \A f \in Fresh : IF f \in b.reserved \ out THEN \E r : References(tc, f) = {r}
                          ELSE References(tc, f) = {}
    <2> SUFFICES ASSUME NEW f \in Fresh
                 PROVE  IF f \in b.reserved \ out THEN \E r : References(tc, f) = {r}
                        ELSE References(tc, f) = {}
      BY Zenon
    <2>1. CASE f = p
      BY <1>5, <1>8, <1>10, <2>1
    <2>2. CASE f # p
      <3>1. References(tc, f) = R(f)
        BY <1>5, <1>6, <2>2
      <3> QED
        BY <1>1, <1>8, <2>2, <3>1, ZenonT(60)
    <2> QED
      BY <2>1, <2>2, ZenonT(60)
  <1>12. FramesSound(b, tc, out)
    <2>1. BootReserved \subseteq b.reserved /\ out \subseteq b.reserved \ BootReserved
          /\ KernelTables(tb) \subseteq b.reserved \ (BootReserved \cup out)
      BY <1>1, <1>3, <1>8, <1>9, Zenon DEF Fresh
    <2> QED
      BY <1>7, <1>8, <1>11, <2>1, Zenon DEF FramesSound
  <1> QED
    BY <1>3, <1>7, <1>12, Zenon DEF Sound, p, b, tc

-----------------------------------------------------------------------------
\* Which pages a change of an entry maps or unmaps.

LEMMA CoversParts ==
  ASSUME NEW tb, NEW place, Placed(tb, place), NEW t \in DOMAIN tb, NEW x \in Index,
         NEW va \in VirtualPage
  PROVE  Covers(place[t], x, va) <=>
           Prefix(va, place[t].level - 1) = place[t].prefix /\ x = IndexAt(va, place[t].level)
  <1> DEFINE i == place[t].level
             p == place[t].prefix
             q == Prefix(va, i - 1)
             y == IndexAt(va, i)
  <1>1. i \in 1 .. Levels /\ p \in Nat
    BY PlaceTypes, Zenon
  <1>2. Prefix(va, i) = Fanout * q + y /\ q \in VirtualPage /\ y \in Index
    BY <1>1, PrefixStep, Zenon
  <1>3. q \in Nat
    BY <1>2 DEF VirtualPage
  <1>4. Covers(place[t], x, va) <=> Fanout * q + y = Fanout * p + x
    BY <1>2 DEF Covers, Prefix
  <1> HIDE DEF i, p, q, y
  <1>5. Fanout * q + y = Fanout * p + x <=> q = p /\ x = y
    BY <1>1, <1>2, <1>3, PartsUnique
  <1> QED
    BY <1>4, <1>5, Zenon DEF i, p, q, y

\* A walk stays at an entry that is not present or is huge.
LEMMA WalkStops ==
  ASSUME NEW tb, NEW va, NEW i \in 1 .. Levels,
         ~(Walk(tb, va)[i].present /\ ~Walk(tb, va)[i].huge)
  PROVE  Leaf(tb, va) = Walk(tb, va)[i]
  <1> DEFINE w == Walk(tb, va)
             S == {j \in 0 .. Levels : j >= i => w[j] = w[i]}
  <1>w. \A j \in 2 .. Levels : w[j] = Follow(tb, va, j, w[j - 1])
    BY WalkSteps
  <1>s. ~(w[i].present /\ ~w[i].huge)
    OBVIOUS
  <1> HIDE DEF w
  <1>1. 0 \in S
    BY LevelsAssumption
  <1>2. ASSUME NEW j \in 1 .. Levels, j - 1 \in S PROVE j \in S
    <2>0. j \in Nat /\ i \in Nat /\ i >= 1 /\ j <= Levels /\ Levels \in Nat
      BY LevelsAssumption
    <2>1. CASE j <= i
      <3>1. j >= i => j = i
        BY <2>0, <2>1
      <3> QED
        BY <2>0, <3>1
    <2>2. CASE j > i
      <3>1. j \in 2 .. Levels /\ j - 1 >= i
        BY <2>0, <2>2
      <3>2. w[j - 1] = w[i]
        BY <1>2, <3>1, Zenon
      <3>3. w[j] = w[j - 1]
        BY <1>w, <1>s, <3>1, <3>2, Zenon DEF Follow
      <3> QED
        BY <2>0, <3>2, <3>3
    <2> QED
      BY <2>0, <2>1, <2>2
  <1>3. S = 0 .. Levels
    <2>1. S \in SUBSET (0 .. Levels)
      BY Zenon
    <2> HIDE DEF S
    <2> QED
      BY <1>1, <1>2, <2>1, RangeInduction, LevelsAssumption, Zenon
  <1>4. Levels \in S /\ Levels >= i
    BY <1>3, LevelsAssumption
  <1> QED
    BY <1>4, Zenon DEF w, Leaf

\* The leaf of a page is an entry that covers it: one of the last level, one that is
\* not present or a huge one.
LEMMA LeafIsEntry ==
  ASSUME NEW tb, NEW place, Placed(tb, place), NEW va \in VirtualPage
  PROVE  \E t \in DOMAIN tb, x \in Index :
           /\ Leaf(tb, va) = tb[t][x]
           /\ Covers(place[t], x, va)
           /\ place[t].level = Levels \/ ~(tb[t][x].present /\ ~tb[t][x].huge)
  <1> DEFINE w == Walk(tb, va)
             At(j, t, x) == /\ w[j] = tb[t][x]
                            /\ Covers(place[t], x, va)
                            /\ place[t].level = j \/ ~(tb[t][x].present /\ ~tb[t][x].huge)
             S == {j \in 0 .. Levels : j > 0 => \E t \in DOMAIN tb, x \in Index : At(j, t, x)}
  <1>o. ASSUME NEW i \in 1 .. Levels, GoesTo(w, i)
        PROVE  LET t == TableAt(w, i)
               IN  /\ t \in DOMAIN tb
                   /\ place[t] = [level |-> i, prefix |-> Prefix(va, i - 1)]
                   /\ w[i] = tb[t][IndexAt(va, i)]
    BY <1>o, OnWalk, Zenon
  <1>w. \A j \in 2 .. Levels : w[j] = Follow(tb, va, j, w[j - 1])
    BY WalkSteps, Zenon
  <1> HIDE DEF w
  <1>a. ASSUME NEW i \in 1 .. Levels, GoesTo(w, i)
        PROVE  \E t \in DOMAIN tb, x \in Index : At(i, t, x)
    <2> DEFINE t == TableAt(w, i)
               x == IndexAt(va, i)
    <2>1. /\ t \in DOMAIN tb
          /\ place[t] = [level |-> i, prefix |-> Prefix(va, i - 1)]
          /\ w[i] = tb[t][x]
      BY <1>a, <1>o, Zenon
    <2>2. x \in Index
      BY PrefixStep, Zenon
    <2> HIDE DEF t, x
    <2>3. place[t].level = i /\ place[t].prefix = Prefix(va, i - 1)
      <3>1. place[t] = [level |-> i, prefix |-> Prefix(va, i - 1)]
        BY <2>1, Zenon
      <3> QED
        BY <3>1, PlaceFields
    <2>4. Covers(place[t], x, va)
      BY <2>1, <2>2, <2>3, CoversParts, Zenon DEF x
    <2> QED
      BY <2>1, <2>2, <2>3, <2>4, Zenon
  <1>1. 0 \in S
    BY LevelsAssumption
  <1>2. ASSUME NEW j \in 1 .. Levels, j - 1 \in S PROVE j \in S
    <2>0. j \in 0 .. Levels
      BY LevelsAssumption
    <2>1. CASE GoesTo(w, j)
      BY <1>a, <2>0, <2>1, Zenon
    <2>2. CASE ~GoesTo(w, j)
      <3>1. j # 1 /\ ~(w[j - 1].present /\ ~w[j - 1].huge)
        BY <2>2, Zenon DEF GoesTo
      <3>2. j \in 2 .. Levels /\ j - 1 > 0
        BY <3>1, LevelsAssumption
      <3>3. w[j] = w[j - 1]
        BY <1>w, <3>1, <3>2, Zenon DEF Follow
      <3>4. PICK t \in DOMAIN tb, x \in Index : At(j - 1, t, x)
        BY <1>2, <3>2, Zenon
      <3>5. At(j, t, x)
        BY <3>1, <3>3, <3>4, Zenon
      <3> QED
        BY <2>0, <3>5, Zenon
    <2> QED
      BY <2>1, <2>2, Zenon
  <1>3. S = 0 .. Levels
    <2>1. S \in SUBSET (0 .. Levels)
      BY Zenon
    <2> HIDE DEF S
    <2> QED
      BY <1>1, <1>2, <2>1, RangeInduction, LevelsAssumption, Zenon
  <1>4. Levels \in S /\ Levels > 0
    BY <1>3, LevelsAssumption
  <1>5. PICK t \in DOMAIN tb, x \in Index : At(Levels, t, x)
    BY <1>4, Zenon
  <1> QED
    BY <1>5, Zenon DEF w, Leaf

\* A walk does not see an entry that does not cover the page.
LEMMA WalkElsewhere ==
  ASSUME NEW tb, NEW place, Placed(tb, place), NEW tc, NEW c \in DOMAIN tb, NEW x \in Index,
         \A t \in DOMAIN tb, y \in Index : ~(t = c /\ y = x) => tc[t][y] = tb[t][y],
         NEW va \in VirtualPage, ~Covers(place[c], x, va)
  PROVE  Leaf(tc, va) = Leaf(tb, va)
  <1> DEFINE w == Walk(tb, va)
             wc == Walk(tc, va)
             S == {j \in 0 .. Levels : j > 0 => wc[j] = w[j]}
  <1>o. ASSUME NEW i \in 1 .. Levels, GoesTo(w, i)
        PROVE  LET t == TableAt(w, i)
               IN  /\ t \in DOMAIN tb
                   /\ place[t] = [level |-> i, prefix |-> Prefix(va, i - 1)]
                   /\ w[i] = tb[t][IndexAt(va, i)]
    BY <1>o, OnWalk
  <1>w. /\ \A j \in 2 .. Levels : w[j] = Follow(tb, va, j, w[j - 1])
        /\ \A j \in 2 .. Levels : wc[j] = Follow(tc, va, j, wc[j - 1])
        /\ wc[1] = tc[Root][IndexAt(va, 1)]
    BY WalkSteps
  <1> HIDE DEF w, wc
  <1>a. ASSUME NEW i \in 1 .. Levels, GoesTo(w, i)
        PROVE  w[i] = tc[TableAt(w, i)][IndexAt(va, i)]
    <2> DEFINE t == TableAt(w, i)
               y == IndexAt(va, i)
    <2>1. /\ t \in DOMAIN tb
          /\ place[t] = [level |-> i, prefix |-> Prefix(va, i - 1)]
          /\ w[i] = tb[t][y]
      BY <1>a, <1>o, Zenon
    <2>2. y \in Index
      BY PrefixStep, Zenon
    <2> HIDE DEF t, y
    <2>3. place[t].level = i /\ place[t].prefix = Prefix(va, i - 1)
      <3>1. place[t] = [level |-> i, prefix |-> Prefix(va, i - 1)]
        BY <2>1, Zenon
      <3> QED
        BY <3>1, PlaceFields
    <2>4. Covers(place[t], y, va)
      BY <2>1, <2>2, <2>3, CoversParts, Zenon DEF y
    <2>5. tc[t][y] = tb[t][y]
      BY <2>1, <2>2, <2>4, Zenon
    <2> QED
      BY <2>1, <2>5, Zenon DEF t, y
  <1>1. 0 \in S
    BY LevelsAssumption
  <1>2. ASSUME NEW j \in 1 .. Levels, j - 1 \in S PROVE j \in S
    <2>0. j \in 0 .. Levels
      BY LevelsAssumption
    <2>1. CASE j = 1
      <3>1. GoesTo(w, 1) /\ TableAt(w, 1) = Root
        BY Zenon DEF GoesTo, TableAt
      <3>2. wc[1] = w[1]
        BY <1>a, <1>w, <2>1, <3>1, Zenon
      <3> QED
        BY <2>0, <2>1, <3>2, Zenon
    <2>2. CASE j # 1
      <3>1. j \in 2 .. Levels /\ j - 1 > 0
        BY <2>2, LevelsAssumption
      <3>2. wc[j - 1] = w[j - 1]
        BY <1>2, <3>1, Zenon
      <3>3. CASE w[j - 1].present /\ ~w[j - 1].huge
        <4>1. GoesTo(w, j) /\ TableAt(w, j) = w[j - 1].addr
          BY <2>2, <3>3, ZenonT(60) DEF GoesTo, TableAt
        <4>2. wc[j] = tc[w[j - 1].addr][IndexAt(va, j)]
          BY <1>w, <3>1, <3>2, <3>3 DEF Follow
        <4>3. wc[j] = w[j]
          BY <1>a, <4>1, <4>2, Zenon
        <4> QED
          BY <2>0, <4>3, Zenon
      <3>4. CASE ~(w[j - 1].present /\ ~w[j - 1].huge)
        <4>1. wc[j] = wc[j - 1] /\ w[j] = w[j - 1]
          BY <1>w, <3>1, <3>2, <3>4, Zenon DEF Follow
        <4> QED
          BY <2>0, <3>2, <4>1, Zenon
      <3> QED
        BY <3>3, <3>4, Zenon
    <2> QED
      BY <2>1, <2>2, Zenon
  <1>3. S = 0 .. Levels
    <2>1. S \in SUBSET (0 .. Levels)
      BY Zenon
    <2> HIDE DEF S
    <2> QED
      BY <1>1, <1>2, <2>1, RangeInduction, LevelsAssumption, Zenon
  <1>4. Levels \in S /\ Levels > 0
    BY <1>3, LevelsAssumption
  <1>5. wc[Levels] = w[Levels]
    BY <1>4, Zenon
  <1> QED
    BY <1>5, ZenonT(60) DEF w, wc, Leaf

\* A page that an entry covers is read through it.
LEMMA WalkThrough ==
  ASSUME NEW tb, NEW place, Placed(tb, place), NEW c \in DOMAIN tb, NEW x \in Index,
         NEW va \in VirtualPage, Covers(place[c], x, va)
  PROVE  /\ place[c].level \in 1 .. Levels
         /\ Walk(tb, va)[place[c].level] = tb[c][x]
  <1>1. Prefix(va, place[c].level - 1) = place[c].prefix /\ x = IndexAt(va, place[c].level)
    BY CoversParts
  <1>2. Walk(tb, va)[place[c].level] = tb[c][IndexAt(va, place[c].level)]
    BY <1>1, TableOnWalk
  <1> QED
    BY <1>1, <1>2, PlaceTypes, Zenon

\* A new table maps no page and unmaps none.
LEMMA AddTableMapped ==
  ASSUME NEW tb, tb \in [DOMAIN tb -> [Index -> Entry]],
         NEW place, Placed(tb, place), NEW c \in DOMAIN tb, NEW x \in Index,
         ~tb[c][x].present, place[c].level < Levels,
         NewPlace(place, c, x).prefix \in VirtualPage,
         NEW new \in Nat, new \notin DOMAIN tb
  PROVE  MappedTo(AddTable(tb, c, x, new)) = MappedTo(tb)
  <1> DEFINE tc == AddTable(tb, c, x, new)
             q == AddPlace(tb, place, c, x, new)
             e == ReplaceAddrWith(TRUE, new)
             n == place[c].level
  <1>1. /\ DOMAIN tc = DOMAIN tb \cup {new}
        /\ \A y \in Index : tc[new][y] = ZERO
        /\ \A t \in DOMAIN tb, y \in Index :
             tc[t][y] = IF t = c /\ y = x THEN e ELSE tb[t][y]
    <2>1. TableAdded(tc, tb, c, x, new)
      BY AddTableValues
    <2> HIDE DEF tc
    <2> QED
      BY <2>1, Zenon DEF TableAdded
  <1>2. q[c] = place[c]
    <2>1. PlaceAdded(q, tb, place, c, x, new)
      BY AddPlaceValues
    <2> HIDE DEF q
    <2> QED
      BY <2>1, Zenon DEF PlaceAdded
  <1>3. Placed(tc, q)
    BY AddTablePlaced, Zenon
  <1>4. e.present /\ ~e.huge /\ e.addr = new /\ ~ZERO.present
    BY EntryFields, Zenon
  <1> HIDE DEF tc, q, e
  <1>5. ASSUME NEW va \in VirtualPage, Covers(place[c], x, va)
        PROVE  ~Leaf(tb, va).present /\ ~Leaf(tc, va).present
    <2>1. n \in 1 .. Levels /\ Walk(tb, va)[n] = tb[c][x]
      BY <1>5, WalkThrough
    <2>2. ~Leaf(tb, va).present
      BY <2>1, WalkStops
    <2>3. Walk(tc, va)[n] = e
      <3>1. Walk(tc, va)[n] = tc[c][x]
        BY <1>1, <1>2, <1>3, <1>5, WalkThrough
      <3> QED
        BY <1>1, <3>1, Zenon
    <2>4. n + 1 \in 2 .. Levels /\ n + 1 \in 1 .. Levels /\ (n + 1) - 1 = n
      BY <2>1, LevelsAssumption
    <2>5. IndexAt(va, n + 1) \in Index
      BY <2>4, PrefixStep, Zenon
    <2>6. Walk(tc, va)[n + 1] = tc[new][IndexAt(va, n + 1)]
      <3>1. Walk(tc, va)[n + 1] = Follow(tc, va, n + 1, Walk(tc, va)[(n + 1) - 1])
        BY <2>4, WalkSteps
      <3> QED
        BY <1>4, <2>3, <2>4, <3>1, Zenon DEF Follow
    <2>7. Walk(tc, va)[n + 1] = ZERO
      BY <1>1, <2>5, <2>6, Zenon
    <2>8. ~Leaf(tc, va).present
      BY <1>4, <2>4, <2>7, WalkStops
    <2> QED
      BY <2>2, <2>8, Zenon
  <1>6. ASSUME NEW va \in VirtualPage, ~Covers(place[c], x, va)
        PROVE  Leaf(tc, va) = Leaf(tb, va)
    <2>1. \A t \in DOMAIN tb, y \in Index : ~(t = c /\ y = x) => tc[t][y] = tb[t][y]
      BY <1>1
    <2> QED
      BY <1>6, <2>1, WalkElsewhere
  <1>7. Mapped(tc) = Mapped(tb)
    BY <1>5, <1>6, Zenon DEF Mapped
  <1>8. \A va \in Mapped(tb) : Leaf(tc, va) = Leaf(tb, va)
    BY <1>5, <1>6, Zenon DEF Mapped
  <1>9. MappedTo(tc) = MappedTo(tb)
    BY <1>7, <1>8, Zenon DEF MappedTo
  <1> QED
    BY <1>9, Zenon DEF tc

\* An entry of the last level is the leaf of one page.
LEMMA SetEntryLeaf ==
  ASSUME NEW tb, tb \in [DOMAIN tb -> [Index -> Entry]], NEW place, Placed(tb, place),
         NEW c \in DOMAIN tb, NEW x \in Index, NEW e \in Entry, place[c].level = Levels,
         NEW va \in VirtualPage, va = Fanout * place[c].prefix + x
  PROVE  /\ Leaf(tb, va) = tb[c][x]
         /\ Leaf(SetEntry(tb, c, x, e), va) = e
         /\ \A v \in VirtualPage \ {va} : Leaf(SetEntry(tb, c, x, e), v) = Leaf(tb, v)
  <1> DEFINE tc == SetEntry(tb, c, x, e)
  <1>1. /\ DOMAIN tc = DOMAIN tb
        /\ \A t \in DOMAIN tb, y \in Index :
             tc[t][y] = IF t = c /\ y = x THEN e ELSE tb[t][y]
    BY SetEntryValues
  <1>2. Placed(tc, place)
    BY SetEntryPlaced, Zenon
  <1> HIDE DEF tc
  <1>3. \A v \in VirtualPage : Covers(place[c], x, v) <=> v = va
    BY PrefixEnds, Zenon DEF Covers, Prefix
  <1>4. Leaf(tb, va) = tb[c][x]
    BY <1>3, WalkThrough DEF Leaf
  <1>5. Leaf(tc, va) = tc[c][x]
    BY <1>1, <1>2, <1>3, WalkThrough DEF Leaf
  <1>6. ASSUME NEW v \in VirtualPage \ {va} PROVE Leaf(tc, v) = Leaf(tb, v)
    BY <1>1, <1>3, WalkElsewhere
  <1> QED
    BY <1>1, <1>4, <1>5, <1>6, Zenon DEF tc

\* n is the map m with the page va mapped to pa.
Maps(m, n, va, pa, w) ==
  /\ va \notin DOMAIN m
  /\ n = [v \in DOMAIN m \cup {va} |-> IF v = va THEN [addr |-> pa, writable |-> w] ELSE m[v]]

LEMMA LeafMaps ==
  ASSUME NEW tb, tb \in [DOMAIN tb -> [Index -> Entry]], NEW place, Placed(tb, place),
         NEW c \in DOMAIN tb, NEW x \in Index, place[c].level = Levels, ~tb[c][x].present,
         NEW w \in BOOLEAN, NEW pa \in Nat,
         NEW va \in VirtualPage, va = Fanout * place[c].prefix + x
  PROVE  Maps(MappedTo(tb), MappedTo(SetEntry(tb, c, x, ReplaceAddrWith(w, pa))), va, pa, w)
  <1> DEFINE e == ReplaceAddrWith(w, pa)
             tc == SetEntry(tb, c, x, e)
  <1>1. e \in Entry /\ e.present /\ e.addr = pa /\ e.writable = w
    BY EntryFields, Zenon
  <1> HIDE DEF e
  <1>2. /\ Leaf(tb, va) = tb[c][x]
        /\ Leaf(tc, va) = e
        /\ \A v \in VirtualPage \ {va} : Leaf(tc, v) = Leaf(tb, v)
    BY <1>1, SetEntryLeaf
  <1> HIDE DEF tc
  <1>3. va \notin Mapped(tb) /\ Mapped(tc) = Mapped(tb) \cup {va}
    BY <1>1, <1>2, Zenon DEF Mapped
  <1>4. \A v \in Mapped(tb) : Leaf(tc, v) = Leaf(tb, v)
    BY <1>2, <1>3, Zenon DEF Mapped
  <1>5. MappedTo(tc) = [v \in Mapped(tb) \cup {va} |->
                          IF v = va THEN [addr |-> pa, writable |-> w] ELSE MappedTo(tb)[v]]
    BY <1>1, <1>2, <1>3, <1>4, Zenon DEF MappedTo
  <1>6. DOMAIN MappedTo(tb) = Mapped(tb)
    BY Zenon DEF MappedTo
  <1> QED
    BY <1>3, <1>5, <1>6, Zenon DEF Maps, tc, e

\* n is the map m without the page va.
Unmaps(m, n, va) == va \in DOMAIN m /\ n = [v \in DOMAIN m \ {va} |-> m[v]]

LEMMA UnmapMaps ==
  ASSUME NEW tb, tb \in [DOMAIN tb -> [Index -> Entry]], NEW place, Placed(tb, place),
         NEW c \in DOMAIN tb, NEW x \in Index, place[c].level = Levels, tb[c][x].present,
         NEW va \in VirtualPage, va = Fanout * place[c].prefix + x
  PROVE  Unmaps(MappedTo(tb), MappedTo(SetEntry(tb, c, x, ZERO)), va)
  <1> DEFINE tc == SetEntry(tb, c, x, ZERO)
  <1>1. ZERO \in Entry /\ ~ZERO.present
    BY EntryFields, Zenon
  <1>2. /\ Leaf(tb, va) = tb[c][x]
        /\ Leaf(tc, va) = ZERO
        /\ \A v \in VirtualPage \ {va} : Leaf(tc, v) = Leaf(tb, v)
    BY <1>1, SetEntryLeaf
  <1> HIDE DEF tc
  <1>3. va \in Mapped(tb) /\ Mapped(tc) = Mapped(tb) \ {va}
    BY <1>1, <1>2 DEF Mapped
  <1>4. \A v \in Mapped(tb) \ {va} : Leaf(tc, v) = Leaf(tb, v)
    BY <1>2, Zenon DEF Mapped
  <1>5. MappedTo(tc) = [v \in Mapped(tb) \ {va} |-> MappedTo(tb)[v]]
    BY <1>3, <1>4, Zenon DEF MappedTo
  <1>6. DOMAIN MappedTo(tb) = Mapped(tb)
    BY Zenon DEF MappedTo
  <1> QED
    BY <1>3, <1>5, <1>6, Zenon DEF Unmaps, tc
-----------------------------------------------------------------------------
\* The places of the bootloader's tables.
BootPlace ==
  CHOOSE place \in [DOMAIN BootTables -> Place] :
    /\ Placed(BootTables, place)
    /\ \A t \in DOMAIN BootTables, x \in Index, va \in HeapPages :
         BootEntry(t, x) /\ Covers(place[t], x, va) =>
           place[t].level < Levels /\ BootTables[t][x].writable

LEMMA BootPlaceIs ==
  /\ BootPlace \in [DOMAIN BootTables -> Place]
  /\ Placed(BootTables, BootPlace)
  /\ \A t \in DOMAIN BootTables, x \in Index, va \in HeapPages :
       BootEntry(t, x) /\ Covers(BootPlace[t], x, va) =>
         BootPlace[t].level < Levels /\ BootTables[t][x].writable
  BY BootTablesAssumption, Zenon DEF BootPlace

Kept(place) == \A t \in DOMAIN BootTables : place[t] = BootPlace[t]

\* What holds before and after every operation.
Consistent(a, tb, out) == \E place : Kept(place) /\ Sound(a, tb, out, place)

Results == {"None", "PageAlreadyExists", "OutOfPages", "Ok"}

\* What holds after i iterations of the loop of map_page_translation: the tables are
\* sound and the map is m, until the page is mapped.  While the loop runs, the
\* table it is at has the place that the address leads to.
Loop(s, i, va, pa, w, out, m) ==
  /\ s = [al |-> s.al, tables |-> s.tables, cur |-> s.cur, result |-> s.result]
  /\ s.result \in Results
  /\ \E place :
       /\ Kept(place)
       /\ s.result # "Ok" => Sound(s.al, s.tables, out, place) /\ MappedTo(s.tables) = m
       /\ s.result = "Ok" => /\ Sound(s.al, s.tables, out \ {pa}, place)
                             /\ Maps(m, MappedTo(s.tables), va, pa, w)
       /\ s.result = "None" =>
            /\ i < Levels
            /\ s.cur \in DOMAIN s.tables
            /\ place[s.cur] = [level |-> i + 1, prefix |-> Prefix(va, i)]

\* The cases of an iteration.
LevelCases(t, a, tb, c, result, i, pa, va, w) ==
  LET x == IndexAt(va, i)
      e == tb[c][x]
  IN  /\ result # "None" => t = [al |-> a, tables |-> tb, cur |-> c, result |-> result]
      /\ result = "None" /\ i = Levels /\ e.present =>
           t = [al |-> a, tables |-> tb, cur |-> c, result |-> "PageAlreadyExists"]
      /\ result = "None" /\ i = Levels /\ ~e.present =>
           t = [al |-> a, tables |-> SetEntry(tb, c, x, ReplaceAddrWith(w, pa)),
                cur |-> c, result |-> "Ok"]
      /\ result = "None" /\ i < Levels /\ ~e.present /\ ~HasFree(a) =>
           t = [al |-> a, tables |-> tb, cur |-> c, result |-> "OutOfPages"]
      /\ result = "None" /\ i < Levels /\ ~e.present /\ HasFree(a) =>
           t = [al |-> Reserve(a), tables |-> AddTable(tb, c, x, FirstFree(a)),
                cur |-> FirstFree(a), result |-> "None"]
      /\ result = "None" /\ i < Levels /\ e.present =>
           t = [al |-> a, tables |-> tb, cur |-> e.addr, result |-> "None"]

LEMMA MapLevelCases ==
  ASSUME NEW a, NEW tb, NEW c, NEW result, NEW i \in 1 .. Levels,
         NEW pa, NEW va, NEW w
  PROVE  LevelCases(MapLevel([al |-> a, tables |-> tb, cur |-> c, result |-> result],
                             i, pa, va, w),
                    a, tb, c, result, i, pa, va, w)
  <1> DEFINE s == [al |-> a, tables |-> tb, cur |-> c, result |-> result]
             x == IndexAt(va, i)
             e == tb[c][x]
             t == MapLevel(s, i, pa, va, w)
  <1>0. i \in Nat /\ Levels \in Nat
    BY LevelsAssumption
  <1>1. result # "None" => t = s
    BY Zenon DEF MapLevel
  <1>2. ASSUME result = "None", i = Levels, e.present
        PROVE  t = [al |-> a, tables |-> tb, cur |-> c, result |-> "PageAlreadyExists"]
    BY <1>0, <1>2 DEF MapLevel
  <1>3. ASSUME result = "None", i = Levels, ~e.present
        PROVE  t = [al |-> a, tables |-> SetEntry(tb, c, x, ReplaceAddrWith(w, pa)),
                    cur |-> c, result |-> "Ok"]
    <2>1. t = [s EXCEPT !.tables[s.cur][x] = ReplaceAddrWith(w, pa), !.result = "Ok"]
      BY <1>0, <1>3 DEF MapLevel
    <2>2. s.cur = c /\ s.tables = tb
      OBVIOUS
    <2> QED
      BY <2>1, <2>2, Zenon DEF SetEntry
  <1>4. ASSUME result = "None", i < Levels, ~e.present, ~HasFree(a)
        PROVE  t = [al |-> a, tables |-> tb, cur |-> c, result |-> "OutOfPages"]
    BY <1>0, <1>4 DEF MapLevel
  <1>5. ASSUME result = "None", i < Levels, ~e.present, HasFree(a)
        PROVE  t = [al |-> Reserve(a), tables |-> AddTable(tb, c, x, FirstFree(a)),
                    cur |-> FirstFree(a), result |-> "None"]
    BY <1>0, <1>5 DEF MapLevel, AddTable
  <1>6. ASSUME result = "None", i < Levels, e.present
        PROVE  t = [al |-> a, tables |-> tb, cur |-> e.addr, result |-> "None"]
    BY <1>0, <1>6 DEF MapLevel
  <1> HIDE DEF t
  <1>7. LevelCases(t, a, tb, c, result, i, pa, va, w)
    BY <1>1, <1>2, <1>3, <1>4, <1>5, <1>6, Zenon DEF LevelCases
  <1> QED
    BY <1>7, Zenon DEF t

\* The frame or the device memory that a call may map.
MayMap(va, pa, out) == pa \in Nat /\ (pa \in out \/ (pa \notin Fresh /\ va \notin HeapPages))

LEMMA KernelPagesVirtual == KernelPages \subseteq VirtualPage
  <1>1. \A i \in DOMAIN BootMaps : BootMaps[i] \in BootMap
    BY MapsAssumption
  <1>2. \A i \in DOMAIN BootMaps : BootMaps[i].va \in VirtualPage
    BY <1>1, Zenon DEF BootMap
  <1> QED
    BY <1>2, MapsAssumption, Zenon DEF KernelPages

LEMMA MapLevelKeeps ==
  ASSUME NEW va \in KernelPages, NEW pa, NEW w \in BOOLEAN, NEW out, NEW m,
         MayMap(va, pa, out), NEW i \in 1 .. Levels, NEW s, Loop(s, i - 1, va, pa, w, out, m)
  PROVE  Loop(MapLevel(s, i, pa, va, w), i, va, pa, w, out, m)
  <1> DEFINE a == s.al
             tb == s.tables
             c == s.cur
             x == IndexAt(va, i)
             e == tb[c][x]
             t == MapLevel(s, i, pa, va, w)
             new == FirstFree(a)
  <1>0. /\ va \in VirtualPage /\ i \in Nat /\ Levels \in Nat /\ i <= Levels
        /\ (i - 1) + 1 = i /\ i - 1 < Levels
    BY KernelPagesVirtual, LevelsAssumption
  <1>1. /\ s = [al |-> a, tables |-> tb, cur |-> c, result |-> s.result]
        /\ s.result \in Results
    BY Zenon DEF Loop
  <1>2. PICK place :
          /\ Kept(place)
          /\ s.result # "Ok" => Sound(a, tb, out, place) /\ MappedTo(tb) = m
          /\ s.result = "Ok" => /\ Sound(a, tb, out \ {pa}, place)
                                /\ Maps(m, MappedTo(tb), va, pa, w)
          /\ s.result = "None" =>
               /\ i - 1 < Levels
               /\ c \in DOMAIN tb
               /\ place[c] = [level |-> (i - 1) + 1, prefix |-> Prefix(va, i - 1)]
    BY Zenon DEF Loop
  <1>c. LevelCases(t, a, tb, c, s.result, i, pa, va, w)
    <2>1. LevelCases(MapLevel([al |-> a, tables |-> tb, cur |-> c, result |-> s.result],
                              i, pa, va, w),
                     a, tb, c, s.result, i, pa, va, w)
      BY MapLevelCases, Zenon
    <2> QED
      BY <1>1, <2>1, Zenon
  <1> HIDE DEF a, tb, c, new
  <1>3. CASE s.result # "None"
    <2>1. t = s
      BY <1>1, <1>3, <1>c, ZenonT(60) DEF LevelCases
    <2> QED
      BY <1>1, <1>2, <1>3, <2>1, Zenon DEF Loop, a, tb, c
  <1>4. CASE s.result = "None"
    <2>1. /\ c \in DOMAIN tb /\ place[c] = [level |-> i, prefix |-> Prefix(va, i - 1)]
          /\ Sound(a, tb, out, place) /\ MappedTo(tb) = m
      BY <1>0, <1>2, <1>4, ZenonT(60)
    <2>2. place[c].level = i /\ place[c].prefix = Prefix(va, i - 1)
      <3>1. place[c] = [level |-> i, prefix |-> Prefix(va, i - 1)]
        BY <2>1
      <3> QED
        BY <3>1, PlaceFields
    <2>3. /\ x \in Index /\ Prefix(va, i) \in VirtualPage
          /\ Prefix(va, i) = Fanout * place[c].prefix + x
      BY <1>0, <2>2, PrefixStep
    <2>4. tb \in [DOMAIN tb -> [Index -> Entry]] /\ Placed(tb, place)
      BY <2>1 DEF Sound, BootKept
    <2> HIDE DEF x, e, t
    <2>5. CASE i = Levels /\ e.present
      <3>1. t = [al |-> a, tables |-> tb, cur |-> c, result |-> "PageAlreadyExists"]
        BY <1>4, <1>c, <2>5, Zenon DEF LevelCases, x, e
      <3>2. /\ t.al = a /\ t.tables = tb /\ t.cur = c /\ t.result = "PageAlreadyExists"
        BY <3>1, Zenon
      <3>3. Loop(t, i, va, pa, w, out, m)
        BY <1>2, <2>1, <3>1, <3>2, ZenonT(60) DEF Loop, Results
      <3> QED
        BY <3>3, Zenon DEF t
    <2>6. CASE i = Levels /\ ~e.present
      <3> DEFINE tc == SetEntry(tb, c, x, ReplaceAddrWith(w, pa))
      <3>1. t = [al |-> a, tables |-> tc, cur |-> c, result |-> "Ok"]
        BY <1>4, <1>c, <2>6, Zenon DEF LevelCases, x, e
      <3>2. t.al = a /\ t.tables = tc /\ t.cur = c /\ t.result = "Ok"
        BY <3>1, Zenon
      <3>3. va = Fanout * place[c].prefix + x
        BY <1>0, <2>3, <2>6, PrefixEnds, Zenon
      <3>4. Sound(a, tc, out \ {pa}, place)
        BY <2>1, <2>2, <2>3, <2>6, <3>3, LeafKeeps, Zenon DEF MayMap, e
      <3>5. Maps(m, MappedTo(tc), va, pa, w)
        <4>1. pa \in Nat
          BY Zenon DEF MayMap
        <4>2. Maps(MappedTo(tb), MappedTo(tc), va, pa, w)
          BY <1>0, <2>1, <2>2, <2>3, <2>4, <2>6, <3>3, <4>1, LeafMaps DEF e
        <4> QED
          BY <2>1, <4>2, Zenon
      <3> HIDE DEF tc
      <3>6. Loop(t, i, va, pa, w, out, m)
        BY <1>2, <3>1, <3>2, <3>4, <3>5, Zenon DEF Loop, Results
      <3> QED
        BY <3>6 DEF t
    <2>7. CASE i < Levels /\ ~e.present /\ ~HasFree(a)
      <3>1. t = [al |-> a, tables |-> tb, cur |-> c, result |-> "OutOfPages"]
        BY <1>4, <1>c, <2>7, Zenon DEF LevelCases, x, e
      <3>2. t.al = a /\ t.tables = tb /\ t.cur = c /\ t.result = "OutOfPages"
        BY <3>1, Zenon
      <3>3. Loop(t, i, va, pa, w, out, m)
        BY <1>2, <2>1, <3>1, <3>2, Zenon DEF Loop, Results
      <3> QED
        BY <3>3 DEF t
    <2>8. CASE i < Levels /\ ~e.present /\ HasFree(a)
      <3> DEFINE tc == AddTable(tb, c, x, new)
                 q == AddPlace(tb, place, c, x, new)
      <3>0. place[c].level < Levels /\ ~tb[c][x].present
        BY <2>2, <2>8, Zenon DEF e
      <3>1. t = [al |-> Reserve(a), tables |-> tc, cur |-> new, result |-> "None"]
        BY <1>4, <1>c, <2>8, Zenon DEF LevelCases, x, e, new
      <3>2. t.al = Reserve(a) /\ t.tables = tc /\ t.cur = new /\ t.result = "None"
        BY <3>1, Zenon
      <3>3. NewPlace(place, c, x) = [level |-> i + 1, prefix |-> Prefix(va, i)]
        BY <2>2, <2>3, Zenon DEF NewPlace
      <3>4. NewPlace(place, c, x).prefix \in VirtualPage
        <4>1. NewPlace(place, c, x).prefix = Fanout * place[c].prefix + x
          BY Zenon DEF NewPlace
        <4> QED
          BY <2>3, <4>1, Zenon
      <3>5. Sound(Reserve(a), tc, out, q) /\ new \in DOMAIN tc /\ q[new] = NewPlace(place, c, x)
        <4>1. NewTableSound(a, tb, out, place, c, x, FirstFree(a))
          BY <2>1, <2>3, <2>8, <3>0, <3>4, NewTableKeeps, Zenon
        <4> QED
          BY <4>1, Zenon DEF NewTableSound, new
      <3>6. new \in Nat /\ new \notin DOMAIN tb
        <4>1. a \in Allocator /\ BootReserved \subseteq a.reserved
              /\ KernelTables(tb) \subseteq a.reserved
          BY <2>1, Zenon DEF Sound, FramesSound
        <4>2. new \in Bit /\ new \notin a.reserved
          BY <2>8, <4>1, FirstFreeClear, Zenon DEF new
        <4> QED
          BY <4>1, <4>2, BootTablesAssumption DEF KernelTables, Bit
      <3>7. MappedTo(tc) = m
        <4>1. MappedTo(tc) = MappedTo(tb)
          BY <2>1, <2>3, <2>4, <3>0, <3>4, <3>6, AddTableMapped
        <4> QED
          BY <2>1, <4>1, ZenonT(60)
      <3>8. Kept(q)
        <4>1. \A f \in DOMAIN tb : q[f] = place[f]
          <5>1. PlaceAdded(q, tb, place, c, x, new)
            BY <2>1, <2>3, <2>4, <3>0, <3>4, <3>6, AddPlaceValues, Zenon
          <5> HIDE DEF q
          <5> QED
            BY <5>1, Zenon DEF PlaceAdded
        <4>2. DOMAIN BootTables \subseteq DOMAIN tb
          BY <2>1, Zenon DEF Sound, BootKept
        <4> QED
          BY <1>2, <4>1, <4>2, Zenon DEF Kept
      <3> HIDE DEF tc, q
      <3>9. Loop(t, i, va, pa, w, out, m)
        BY <2>8, <3>1, <3>2, <3>3, <3>5, <3>7, <3>8, Zenon DEF Loop, Results
      <3> QED
        BY <3>9 DEF t
    <2>9. CASE i < Levels /\ e.present
      <3>1. t = [al |-> a, tables |-> tb, cur |-> e.addr, result |-> "None"]
        BY <1>4, <1>c, <2>9, Zenon DEF LevelCases, x, e
      <3>2. t.al = a /\ t.tables = tb /\ t.cur = e.addr /\ t.result = "None"
        BY <3>1, Zenon
      <3>3. Covers(place[c], x, va)
        BY <2>2, <2>3, Zenon DEF Covers, Prefix
      <3>4. ~e.huge
        BY <2>1, <2>2, <2>3, <2>4, <2>9, <3>3, Zenon DEF Placed, e
      <3>5. /\ e.addr \in DOMAIN tb
            /\ place[e.addr] = [level  |-> place[c].level + 1,
                                prefix |-> Fanout * place[c].prefix + x]
        BY <2>1, <2>2, <2>3, <2>4, <2>9, <3>4, ChildPlaced DEF e
      <3>6. place[e.addr] = [level |-> i + 1, prefix |-> Prefix(va, i)]
        BY <2>2, <2>3, <3>5, Zenon
      <3>7. Loop(t, i, va, pa, w, out, m)
        BY <1>2, <2>1, <2>9, <3>1, <3>2, <3>5, <3>6, Zenon DEF Loop, Results
      <3> QED
        BY <3>7 DEF t
    <2> QED
      BY <1>0, <2>5, <2>6, <2>7, <2>8, <2>9
  <1> QED
    BY <1>3, <1>4, Zenon

\* What a call of map_page_translation does to the bitmap, the tables and the map m.
Mapping(t, va, pa, w, out, m) ==
  /\ t.result # "Ok" => Consistent(t.al, t.tables, out) /\ MappedTo(t.tables) = m
  /\ t.result = "Ok" => Consistent(t.al, t.tables, out \ {pa})
                        /\ Maps(m, MappedTo(t.tables), va, pa, w)

LEMMA TranslationKeeps ==
  ASSUME NEW va \in KernelPages, NEW pa, NEW w \in BOOLEAN, NEW out,
         MayMap(va, pa, out), NEW a, NEW tb, Consistent(a, tb, out)
  PROVE  LET s == [al |-> a, tables |-> tb, cur |-> Root, result |-> "None"]
             t == MapPageTranslation(s, pa, va, w)
         IN  /\ Mapping(t, va, pa, w, out, MappedTo(tb))
             /\ t = [al |-> t.al, tables |-> t.tables, cur |-> t.cur, result |-> t.result]
  <1> DEFINE s == [al |-> a, tables |-> tb, cur |-> Root, result |-> "None"]
             t == MapPageTranslation(s, pa, va, w)
             m == MappedTo(tb)
  <1>1. PICK at : /\ at[0] = [s EXCEPT !.cur = Root]
                  /\ \A i \in 1 .. Levels : at[i] = MapLevel(at[i - 1], i, pa, va, w)
                  /\ t = at[Levels]
    BY MapLoop
  <1>2. at[0] = s
    BY <1>1, Zenon
  <1> DEFINE S == {i \in 0 .. Levels : Loop(at[i], i, va, pa, w, out, m)}
  <1>3. 0 \in S
    <2>1. PICK place : Kept(place) /\ Sound(a, tb, out, place)
      BY Zenon DEF Consistent
    <2>2. Root \in DOMAIN tb /\ place[Root] = [level |-> 1, prefix |-> 0]
      BY <2>1, Zenon DEF Sound, Placed
    <2>3. va \in VirtualPage
      BY KernelPagesVirtual, Zenon
    <2>4. Prefix(va, 0) = 0 /\ 0 < Levels /\ 0 + 1 = 1 /\ 0 \in 0 .. Levels
      BY <2>3, PrefixEnds, LevelsAssumption
    <2>5. s.al = a /\ s.tables = tb /\ s.cur = Root /\ s.result = "None"
      BY Zenon
    <2>6. place[s.cur] = [level |-> 0 + 1, prefix |-> Prefix(va, 0)]
      BY <2>2, <2>4, <2>5, Zenon
    <2> HIDE DEF m
    <2>7. Loop(s, 0, va, pa, w, out, m)
      BY <2>1, <2>2, <2>4, <2>5, <2>6, Zenon DEF Loop, Results, m
    <2> QED
      BY <1>2, <2>4, <2>7, Zenon
  <1>4. ASSUME NEW i \in 1 .. Levels, i - 1 \in S PROVE i \in S
    <2> HIDE DEF m, s, t
    <2>1. Loop(MapLevel(at[i - 1], i, pa, va, w), i, va, pa, w, out, m)
      BY <1>4, MapLevelKeeps, Zenon
    <2>2. at[i] = MapLevel(at[i - 1], i, pa, va, w) /\ i \in 0 .. Levels
      BY <1>1, LevelsAssumption
    <2> QED
      BY <2>1, <2>2, Zenon
  <1>5. S = 0 .. Levels
    <2>1. S \in SUBSET (0 .. Levels)
      BY Zenon
    <2> HIDE DEF S
    <2> QED
      BY <1>3, <1>4, <2>1, RangeInduction, LevelsAssumption, Zenon
  <1>6. Levels \in S
    BY <1>5, LevelsAssumption
  <1> HIDE DEF s, t, m
  <1>7. Loop(t, Levels, va, pa, w, out, m)
    BY <1>1, <1>6, Zenon
  <1>8. t = [al |-> t.al, tables |-> t.tables, cur |-> t.cur, result |-> t.result]
    BY <1>7, Zenon DEF Loop
  <1>9. Mapping(t, va, pa, w, out, m)
    BY <1>7, Zenon DEF Loop, Mapping, Consistent
  <1> QED
    BY <1>8, <1>9, Zenon DEF s, t, m

\* What a call of map_page does.
PageMapping(t, va, w, out, tb) ==
  /\ Consistent(t.al, t.tables, out)
  /\ t.result # "Ok" => MappedTo(t.tables) = MappedTo(tb)
  /\ t.result = "Ok" => \E pa \in Fresh : /\ References(tb, pa) = {}
                                          /\ Maps(MappedTo(tb), MappedTo(t.tables), va, pa, w)

LEMMA MapPageKeeps ==
  ASSUME NEW va \in KernelPages, NEW w \in BOOLEAN, NEW out,
         NEW a, NEW tb, Consistent(a, tb, out)
  PROVE  LET s == [al |-> a, tables |-> tb, cur |-> Root, result |-> "None"]
         IN  PageMapping(MapPage(s, va, w), va, w, out, tb)
  <1> DEFINE s == [al |-> a, tables |-> tb, cur |-> Root, result |-> "None"]
             r == MapPage(s, va, w)
             page == FirstFree(a)
             b == Reserve(a)
             s1 == [al |-> b, tables |-> tb, cur |-> Root, result |-> "None"]
             t == MapPageTranslation(s1, page, va, w)
  <1>1. CASE ~HasFree(a)
    <2>1. r = [al |-> a, tables |-> tb, cur |-> Root, result |-> "OutOfPages"]
      BY <1>1, Zenon DEF MapPage
    <2>2. r.al = a /\ r.tables = tb /\ r.result = "OutOfPages"
      BY <2>1
    <2> HIDE DEF r
    <2>3. PageMapping(r, va, w, out, tb)
      BY <2>2, Zenon DEF PageMapping
    <2> QED
      BY <2>3, Zenon DEF r
  <1>2. CASE HasFree(a)
    <2>1. r = IF t.result = "Ok" THEN t ELSE [t EXCEPT !.al = Free(t.al, page)]
      <3>1. [s EXCEPT !.al = Reserve(s.al)] = s1 /\ s.al = a
        OBVIOUS
      <3> HIDE DEF s, s1
      <3> QED
        BY <1>2, <3>1, Zenon DEF MapPage
    <2>2. PICK place : Kept(place) /\ Sound(a, tb, out, place)
      BY Zenon DEF Consistent
    <2>3. Sound(b, tb, out \cup {page}, place) /\ page \in Fresh /\ page \notin a.reserved
      BY <1>2, <2>2, ReserveKeeps, Zenon
    <2>4. page \notin out /\ References(tb, page) = {}
      BY <2>2, <2>3, Zenon DEF Sound, FramesSound
    <2>5. Consistent(b, tb, out \cup {page})
      BY <2>2, <2>3, ZenonT(60) DEF Consistent
    <2>6. MayMap(va, page, out \cup {page})
      BY <2>3 DEF MayMap, Fresh, Bit
    <2> HIDE DEF page, b, r
    <2>7. /\ Mapping(t, va, page, w, out \cup {page}, MappedTo(tb))
          /\ t = [al |-> t.al, tables |-> t.tables, cur |-> t.cur, result |-> t.result]
      BY <2>5, <2>6, TranslationKeeps
    <2> HIDE DEF t, s1
    <2>8. (out \cup {page}) \ {page} = out
      BY <2>4, Zenon
    <2>9. CASE t.result = "Ok"
      <3>1. r = t
        BY <2>1, <2>9, Zenon
      <3>2. Consistent(t.al, t.tables, out) /\ Maps(MappedTo(tb), MappedTo(t.tables), va, page, w)
        BY <2>7, <2>8, <2>9, Zenon DEF Mapping
      <3>3. PageMapping(r, va, w, out, tb)
        BY <2>3, <2>4, <2>9, <3>1, <3>2, Zenon DEF PageMapping
      <3> QED
        BY <3>3 DEF r
    <2>10. CASE t.result # "Ok"
      <3>1. r = [t EXCEPT !.al = Free(t.al, page)]
        BY <2>1, <2>10, Zenon
      <3>2. r.al = Free(t.al, page) /\ r.tables = t.tables /\ r.result = t.result
        BY <2>7, <3>1, Zenon
      <3>3. Consistent(t.al, t.tables, out \cup {page}) /\ MappedTo(t.tables) = MappedTo(tb)
        BY <2>7, <2>10, Zenon DEF Mapping
      <3>4. PICK q : Kept(q) /\ Sound(t.al, t.tables, out \cup {page}, q)
        BY <3>3, Zenon DEF Consistent
      <3>5. Sound(Free(t.al, page), t.tables, out, q)
        <4>1. Sound(Free(t.al, page), t.tables, (out \cup {page}) \ {page}, q)
          BY <3>4, FreeKeeps, Zenon
        <4> QED
          BY <2>8, <4>1, Zenon
      <3>6. Consistent(r.al, r.tables, out)
        BY <3>2, <3>4, <3>5, Zenon DEF Consistent
      <3>7. PageMapping(r, va, w, out, tb)
        BY <2>10, <3>2, <3>3, <3>6, Zenon DEF PageMapping
      <3> QED
        BY <3>7 DEF r
    <2> QED
      BY <2>9, <2>10, Zenon
  <1> QED
    BY <1>1, <1>2, Zenon

\* A walk meets the bootloader's entries as long as it met them at the start.
LEMMA BootWalkStays ==
  ASSUME NEW a, NEW tb, NEW out, NEW place, Kept(place), Sound(a, tb, out, place),
         NEW va \in VirtualPage, NEW j \in 1 .. Levels,
         GoesTo(Walk(BootTables, va), j), Walk(BootTables, va)[j].present
  PROVE  Walk(tb, va)[j] = Walk(BootTables, va)[j]
  <1> DEFINE b == Walk(BootTables, va)
             t == TableAt(b, j)
             x == IndexAt(va, j)
  <1>1. /\ t \in DOMAIN BootTables
        /\ BootPlace[t] = [level |-> j, prefix |-> Prefix(va, j - 1)]
        /\ b[j] = BootTables[t][x]
    BY BootPlaceIs, OnWalk, Zenon
  <1>2. x \in Index
    BY PrefixStep, Zenon
  <1>b. b[j].present
    OBVIOUS
  <1> HIDE DEF t, b
  <1>3. t \in DOMAIN tb /\ tb[t][x] = BootTables[t][x]
    BY <1>1, <1>2, <1>b, ZenonT(60) DEF Sound, BootKept, BootEntry
  <1>4. place[t].level = j /\ place[t].prefix = Prefix(va, j - 1)
    <2>1. place[t] = [level |-> j, prefix |-> Prefix(va, j - 1)]
      BY <1>1, Zenon DEF Kept
    <2> QED
      BY <2>1, PlaceFields
  <1>5. Placed(tb, place)
    BY Zenon DEF Sound
  <1>6. Walk(tb, va)[j] = tb[t][x]
    <2>1. Prefix(va, place[t].level - 1) = place[t].prefix
      BY <1>4, ZenonT(60)
    <2>2. Walk(tb, va)[place[t].level] = tb[t][IndexAt(va, place[t].level)]
      BY <1>3, <1>5, <2>1, TableOnWalk
    <2> QED
      BY <1>4, <2>2, Zenon
  <1> QED
    BY <1>1, <1>3, <1>6, Zenon DEF b

\* What the bootloader maps to its own address stays so.
LEMMA IdentityStays ==
  ASSUME NEW a, NEW tb, NEW out, Consistent(a, tb, out), NEW va \in VirtualPage,
         IsAddressIdentityMapped(BootTables, va)
  PROVE  IsAddressIdentityMapped(tb, va)
  <1> DEFINE b == Walk(BootTables, va)
             w == Walk(tb, va)
  <1>1. PICK place : Kept(place) /\ Sound(a, tb, out, place)
    BY Zenon DEF Consistent
  <1>2. PICK i \in 1 .. Levels :
          /\ \A j \in 1 .. i - 1 : b[j].present /\ ~b[j].huge
          /\ b[i].present
          /\ i = Levels \/ b[i].huge
          /\ b[i].addr = va - (va % Span[Levels - i])
    BY Zenon DEF IsAddressIdentityMapped
  <1>3. ASSUME NEW j \in 1 .. i PROVE w[j] = b[j]
    <2>0. j \in 1 .. Levels /\ (j = 1 \/ j - 1 \in 1 .. i - 1) /\ (j = i \/ j \in 1 .. i - 1)
      BY LevelsAssumption
    <2>1. GoesTo(b, j) /\ b[j].present
      BY <1>2, <2>0, Zenon DEF GoesTo
    <2> QED
      BY <1>1, <2>0, <2>1, BootWalkStays, Zenon
  <1>4. i \in 1 .. i /\ \A j \in 1 .. i - 1 : j \in 1 .. i
    BY LevelsAssumption
  <1> HIDE DEF b, w
  <1>5. /\ \A j \in 1 .. i - 1 : w[j].present /\ ~w[j].huge
        /\ w[i].present
        /\ i = Levels \/ w[i].huge
        /\ w[i].addr = va - (va % Span[Levels - i])
    BY <1>2, <1>3, <1>4, Zenon
  <1> QED
    BY <1>5, Zenon DEF IsAddressIdentityMapped, w

\* A page whose leaf the bootloader made was mapped by it.
LEMMA BootLeafGiven ==
  ASSUME NEW a, NEW tb, NEW out, NEW place, Kept(place), Sound(a, tb, out, place),
         NEW va \in VirtualPage, NEW t \in DOMAIN tb, NEW x \in Index,
         BootEntry(t, x), Covers(place[t], x, va), place[t].level = Levels \/ tb[t][x].huge
  PROVE  va \in Mapped(BootTables)
  <1> DEFINE i == BootPlace[t].level
             b == Walk(BootTables, va)
  <1>1. /\ t \in DOMAIN BootTables /\ BootTables[t][x].present
        /\ place[t] = BootPlace[t] /\ tb[t][x] = BootTables[t][x]
    BY ZenonT(60) DEF BootEntry, Kept, Sound, BootKept
  <1>2. i \in 1 .. Levels /\ b[i] = BootTables[t][x]
    <2>1. t \in DOMAIN BootTables /\ Covers(BootPlace[t], x, va)
      BY <1>1, Zenon
    <2>2. Placed(BootTables, BootPlace)
      BY BootPlaceIs, Zenon
    <2> QED
      BY <2>1, <2>2, WalkThrough
  <1> HIDE DEF b
  <1>3. Leaf(BootTables, va) = b[i]
    <2>1. CASE i = Levels
      BY <2>1, Zenon DEF Leaf, b
    <2>2. CASE i # Levels
      BY <1>1, <1>2, <2>2, WalkStops, ZenonT(60) DEF b
    <2> QED
      BY <2>1, <2>2, Zenon
  <1> QED
    BY <1>1, <1>2, <1>3, Zenon DEF Mapped

\* The frames of the pages that the kernel mapped are referenced.
LEMMA MappedIsReferenced ==
  ASSUME NEW a, NEW tb, NEW out, Consistent(a, tb, out),
         NEW va \in Mapped(tb) \ Mapped(BootTables)
  PROVE  References(tb, Leaf(tb, va).addr) # {}
  <1>1. PICK place : Kept(place) /\ Sound(a, tb, out, place)
    BY Zenon DEF Consistent
  <1>2. va \in VirtualPage /\ Leaf(tb, va).present /\ Placed(tb, place)
    BY <1>1, Zenon DEF Mapped, Sound
  <1>3. PICK t \in DOMAIN tb, x \in Index :
          /\ Leaf(tb, va) = tb[t][x]
          /\ Covers(place[t], x, va)
          /\ place[t].level = Levels \/ ~(tb[t][x].present /\ ~tb[t][x].huge)
    BY <1>2, LeafIsEntry, Zenon
  <1>4. ~BootEntry(t, x)
    <2>1. place[t].level = Levels \/ tb[t][x].huge
      BY <1>2, <1>3, Zenon
    <2> QED
      BY <1>1, <1>2, <1>3, <2>1, BootLeafGiven, Zenon
  <1>5. tb[t][x].present /\ tb[t][x].addr = Leaf(tb, va).addr
    BY <1>2, <1>3, Zenon
  <1>6. <<t, x>> \in References(tb, Leaf(tb, va).addr)
    BY <1>4, <1>5, ReferenceIs, Zenon
  <1> QED
    BY <1>6

\* The bootloader maps no page of the heap.
LEMMA HeapNotGiven ==
  ASSUME NEW va \in HeapPages
  PROVE  va \notin Mapped(BootTables)
  <1> SUFFICES ASSUME va \in Mapped(BootTables) PROVE FALSE
    BY Zenon
  <1>1. va \in VirtualPage /\ Leaf(BootTables, va).present /\ va \in KernelPages
    BY Zenon DEF Mapped, KernelPages
  <1>2. PICK t \in DOMAIN BootTables, x \in Index :
          /\ Leaf(BootTables, va) = BootTables[t][x]
          /\ Covers(BootPlace[t], x, va)
          /\ BootPlace[t].level = Levels \/ ~(BootTables[t][x].present /\ ~BootTables[t][x].huge)
    BY <1>1, BootPlaceIs, LeafIsEntry, Zenon
  <1>3. BootEntry(t, x)
    BY <1>1, <1>2, Zenon DEF BootEntry
  <1>4. BootPlace[t].level < Levels
    BY <1>2, <1>3, BootPlaceIs, ZenonT(60)
  <1>5. BootPlace[t].level # Levels
    BY <1>4, BootPlaceIs, PlaceTypes, LevelsAssumption
  <1>6. BootTables[t][x].huge
    BY <1>1, <1>2, <1>5, Zenon
  <1> QED
    BY <1>1, <1>2, <1>4, <1>6, BootPlaceIs, HugeElsewhere, Zenon

\* The walk for a page that the kernel maps meets no huge page.
LEMMA WalkGoesTo ==
  ASSUME NEW tb, NEW place, Placed(tb, place), NEW va \in KernelPages,
         NEW n \in 1 .. Levels, Walk(tb, va)[n].present
  PROVE  \A i \in 1 .. n : Walk(tb, va)[i].present /\ GoesTo(Walk(tb, va), i)
  <1> DEFINE w == Walk(tb, va)
             S == {j \in 0 .. Levels : j \in 1 .. n => GoesTo(w, j)}
  <1>v. va \in VirtualPage
    BY KernelPagesVirtual, Zenon
  <1>p. \A i \in 1 .. n : w[i].present
    <2> SUFFICES ASSUME NEW i \in 1 .. n, ~w[i].present PROVE FALSE
      BY Zenon
    <2>1. i \in 1 .. Levels /\ n \in i .. Levels
      BY LevelsAssumption
    <2>2. \A j \in i .. Levels : ~w[j].present
      BY <2>1, AbsentStays
    <2> QED
      BY <2>1, <2>2, Zenon
  <1>o. ASSUME NEW i \in 1 .. Levels, GoesTo(w, i)
        PROVE  LET t == TableAt(w, i)
               IN  /\ t \in DOMAIN tb
                   /\ place[t] = [level |-> i, prefix |-> Prefix(va, i - 1)]
                   /\ w[i] = tb[t][IndexAt(va, i)]
    BY <1>o, <1>v, OnWalk, Zenon
  <1> HIDE DEF w
  <1>1. 0 \in S
    BY LevelsAssumption
  <1>2. ASSUME NEW j \in 1 .. Levels, j - 1 \in S PROVE j \in S
    <2>0. j \in 0 .. Levels
      BY LevelsAssumption
    <2>1. CASE j = 1
      BY <2>0, <2>1 DEF GoesTo
    <2>2. CASE j # 1 /\ j \in 1 .. n
      <3> DEFINE i == j - 1
                 t == TableAt(w, i)
                 x == IndexAt(va, i)
      <3>1. i \in 1 .. Levels /\ i \in 1 .. n /\ i < Levels
        BY <2>2, LevelsAssumption
      <3> HIDE DEF i
      <3>2. GoesTo(w, i)
        BY <1>2, <3>1, Zenon DEF i
      <3>3. /\ t \in DOMAIN tb
            /\ place[t] = [level |-> i, prefix |-> Prefix(va, i - 1)]
            /\ w[i] = tb[t][x]
        BY <1>o, <3>1, <3>2, Zenon
      <3>4. x \in Index
        BY <1>v, <3>1, PrefixStep, ZenonT(60)
      <3> HIDE DEF t, x
      <3>5. place[t].level = i /\ place[t].prefix = Prefix(va, i - 1)
        BY <3>3
      <3>6. Covers(place[t], x, va)
        BY <1>v, <3>3, <3>4, <3>5, CoversParts, Zenon DEF x
      <3>7. w[i].present
        BY <1>p, <3>1, Zenon
      <3>8. ~w[i].huge
        BY <3>1, <3>3, <3>4, <3>5, <3>6, <3>7, Zenon DEF Placed
      <3>9. GoesTo(w, j)
        BY <3>7, <3>8 DEF GoesTo, i
      <3> QED
        BY <2>0, <3>9
    <2>3. CASE j \notin 1 .. n
      BY <2>0, <2>3
    <2> QED
      BY <2>1, <2>2, <2>3, Zenon
  <1>3. S = 0 .. Levels
    <2>1. S \in SUBSET (0 .. Levels)
      BY Zenon
    <2> HIDE DEF S
    <2> QED
      BY <1>1, <1>2, <2>1, RangeInduction, LevelsAssumption, Zenon
  <1>4. \A i \in 1 .. n : i \in S
    BY <1>3, LevelsAssumption
  <1> QED
    BY <1>p, <1>4, Zenon DEF w

LEMMA WalkGoesOn ==
  ASSUME NEW tb, NEW place, Placed(tb, place), NEW va \in KernelPages, Leaf(tb, va).present
  PROVE  \A i \in 1 .. Levels : Walk(tb, va)[i].present /\ GoesTo(Walk(tb, va), i)
  <1>1. Levels \in 1 .. Levels
    BY LevelsAssumption
  <1> QED
    BY <1>1, WalkGoesTo, Zenon DEF Leaf

-----------------------------------------------------------------------------
\* The steps of the map that the tables implement.

LEMMA MapsIsMap ==
  ASSUME NEW a, NEW tb, NEW out, Consistent(a, tb, out), NEW va, NEW pa \in Nat, NEW w,
         pa \in Fresh => References(tb, pa) = {}, NEW n, Maps(MappedTo(tb), n, va, pa, w)
  PROVE  Abstract!Map(MappedTo(tb), n, va)
  <1> DEFINE m == MappedTo(tb)
  <1>1. DOMAIN m = Mapped(tb) /\ \A v \in Mapped(tb) : m[v].addr = Leaf(tb, v).addr
    BY Zenon DEF MappedTo
  <1>2. pa \in Fresh => pa \notin Abstract!Frames(m)
    <2> SUFFICES ASSUME pa \in Fresh, pa \in Abstract!Frames(m) PROVE FALSE
      BY Zenon
    <2>1. PICK v \in DOMAIN m \ Mapped(BootTables) : pa = m[v].addr
      BY Zenon DEF Abstract!Frames
    <2> HIDE DEF m
    <2>2. v \in Mapped(tb) \ Mapped(BootTables) /\ pa = Leaf(tb, v).addr
      BY <1>1, <2>1, Zenon
    <2>3. References(tb, pa) # {}
      BY <2>2, MappedIsReferenced, Zenon
    <2> QED
      BY <2>3, Zenon
  <1> HIDE DEF m
  <1>3. /\ va \notin DOMAIN m
        /\ n = [v \in DOMAIN m \cup {va} |-> IF v = va THEN [addr |-> pa, writable |-> w] ELSE m[v]]
    BY Zenon DEF Maps, m
  <1>4. /\ DOMAIN n = DOMAIN m \cup {va}
        /\ \A v \in DOMAIN m : n[v] = m[v]
        /\ n[va].addr = pa
    BY <1>3, Zenon
  <1> QED
    BY <1>2, <1>3, <1>4, Zenon DEF Abstract!Map, Fresh, m

\* unmap_and_free_page
LEMMA UnmapStep ==
  ASSUME NEW a, NEW tb, NEW out, Consistent(a, tb, out), NEW va \in HeapPages,
         \A i \in 1 .. Levels : Walk(tb, va)[i].present
  PROVE  LET w == Walk(tb, va)
             f == IF Levels = 1 THEN Root ELSE w[Levels - 1].addr
             tc == [tb EXCEPT ![f][IndexAt(va, Levels)] = ZERO]
         IN  /\ Consistent(Free(a, w[Levels].addr), tc, out)
             /\ Abstract!Unmap(MappedTo(tb), MappedTo(tc), va)
  <1> DEFINE w == Walk(tb, va)
             f == IF Levels = 1 THEN Root ELSE w[Levels - 1].addr
             x == IndexAt(va, Levels)
             tc == SetEntry(tb, f, x, ZERO)
  <1>1. PICK place : Kept(place) /\ Sound(a, tb, out, place)
    BY Zenon DEF Consistent
  <1>2. /\ tb \in [DOMAIN tb -> [Index -> Entry]] /\ Placed(tb, place) /\ EntriesSound(tb, place)
    BY <1>1, Zenon DEF Sound, BootKept
  <1>3. va \in KernelPages /\ va \in VirtualPage /\ Levels \in 1 .. Levels
    <2>1. va \in KernelPages
      BY Zenon DEF KernelPages
    <2> QED
      BY <2>1, KernelPagesVirtual, LevelsAssumption
  <1>4. w[Levels].present /\ GoesTo(w, Levels)
    <2>1. Leaf(tb, va).present
      BY <1>3, Zenon DEF Leaf
    <2> QED
      BY <1>2, <1>3, <2>1, WalkGoesOn, Zenon
  <1>5. f = TableAt(w, Levels)
    BY Zenon DEF TableAt
  <1>6. /\ f \in DOMAIN tb
        /\ place[f] = [level |-> Levels, prefix |-> Prefix(va, Levels - 1)]
        /\ w[Levels] = tb[f][x]
    BY <1>2, <1>3, <1>4, <1>5, OnWalk
  <1> HIDE DEF w, f
  <1>7. x \in Index /\ Prefix(va, Levels) = Fanout * Prefix(va, Levels - 1) + x
        /\ Prefix(va, Levels) = va
    BY <1>3, PrefixStep, PrefixEnds, ZenonT(60)
  <1>8. place[f].level = Levels /\ place[f].prefix = Prefix(va, Levels - 1)
    BY <1>6
  <1> HIDE DEF x
  <1>9. va = Fanout * place[f].prefix + x
    BY <1>7, <1>8, Zenon
  <1>10. ~BootEntry(f, x)
    <2>1. Covers(place[f], x, va)
      BY <1>7, <1>8, Zenon DEF Covers, Prefix
    <2>2. ~(place[f].level < Levels)
      BY <1>8, LevelsAssumption
    <2> QED
      BY <1>2, <1>6, <1>7, <2>1, <2>2, Zenon DEF EntriesSound
  <1>11. Sound(Free(a, tb[f][x].addr), tc, out, place)
    BY <1>1, <1>4, <1>6, <1>7, <1>8, <1>9, <1>10, UnmapKeeps, Zenon
  <1>12. Consistent(Free(a, w[Levels].addr), tc, out)
    BY <1>1, <1>6, <1>11, Zenon DEF Consistent
  <1>13. Unmaps(MappedTo(tb), MappedTo(tc), va)
    <2>1. tb[f][x].present
      BY <1>4, <1>6, Zenon
    <2> QED
      BY <1>2, <1>3, <1>6, <1>7, <1>8, <1>9, <2>1, UnmapMaps, Zenon
  <1>14. Abstract!Unmap(MappedTo(tb), MappedTo(tc), va)
    BY <1>13, HeapNotGiven, Zenon DEF Abstract!Unmap, Unmaps
  <1> QED
    BY <1>12, <1>14, Zenon DEF w, f, x, SetEntry
-----------------------------------------------------------------------------
\* The inductive invariant: the bitmap, the tables and the frames of other clients
\* agree, and what is left to do was to be done at the start.
IInv ==
  /\ Consistent(al, tables, others)
  /\ todo \in Seq(BootMap)
  /\ \A i \in DOMAIN todo : \E j \in DOMAIN BootMaps : todo[i] = BootMaps[j]

LEMMA InitIInv == Init => IInv
  <1> SUFFICES ASSUME Init PROVE IInv
    OBVIOUS
  <1>1. al = NewAllocator(BootReserved, TotalPages) /\ tables = BootTables /\ others = {}
        /\ todo = BootMaps
    BY DEF Init
  <1>2. Cardinality(Bit \ BootReserved) \in Nat
    <2>1. IsFiniteSet(Bit)
      BY BitmapBitsAssumption, FS_Interval DEF Bit
    <2>2. IsFiniteSet(Bit \ BootReserved)
      BY <2>1, FS_Subset, Zenon
    <2> QED
      BY <2>2, FS_CardinalityType
  <1>3. al \in Allocator /\ al.reserved = BootReserved /\ al.total_pages = TotalPages
    BY <1>1, <1>2, ReservedAssumption DEF NewAllocator, Allocator
  <1>4. \A f : References(BootTables, f) = {}
    BY Zenon DEF References, BootEntry
  <1>5. FramesSound(al, tables, others)
    BY <1>1, <1>3, <1>4, Zenon DEF FramesSound, KernelTables, Fresh
  <1>6. BootKept(tables)
    BY <1>1, BootTablesAssumption, Zenon DEF BootKept
  <1>7. Placed(tables, BootPlace) /\ Kept(BootPlace)
    BY <1>1, BootPlaceIs, Zenon DEF Kept
  <1>8. EntriesSound(tables, BootPlace)
    BY <1>1, BootPlaceIs, Zenon DEF EntriesSound, BootEntry
  <1>9. Consistent(al, tables, others)
    BY <1>5, <1>6, <1>7, <1>8, Zenon DEF Consistent, Sound
  <1> QED
    BY <1>1, <1>9, MapsAssumption DEF IInv

\* A step of the map, or none.
MapStep == Abstract!Next \/ UNCHANGED MappedTo(tables)

\* map_page of a page that the kernel maps
LEMMA MapPageStep ==
  ASSUME IInv, NEW va \in KernelPages, Becomes(MapPage(State, va, TRUE)), others' = others
  PROVE  Consistent(al, tables, others)' /\ MapStep
  <1> DEFINE s == [al |-> al, tables |-> tables, cur |-> Root, result |-> "None"]
             t == MapPage(s, va, TRUE)
  <1>1. Consistent(al, tables, others) /\ va \in VirtualPage
    BY KernelPagesVirtual, Zenon DEF IInv
  <1>2. PageMapping(t, va, TRUE, others, tables)
    BY <1>1, MapPageKeeps, Zenon
  <1>3. al' = t.al /\ tables' = t.tables
    BY DEF Becomes, State
  <1> HIDE DEF t
  <1>4. Consistent(al', tables', others')
    BY <1>2, <1>3 DEF PageMapping
  <1>5. CASE t.result # "Ok"
    <2>1. MappedTo(tables') = MappedTo(tables)
      BY <1>2, <1>3, <1>5, Zenon DEF PageMapping
    <2> QED
      BY <1>4, <2>1, Zenon DEF MapStep
  <1>6. CASE t.result = "Ok"
    <2>1. PICK pa \in Fresh : /\ References(tables, pa) = {}
                              /\ Maps(MappedTo(tables), MappedTo(tables'), va, pa, TRUE)
      BY <1>2, <1>3, <1>6, Zenon DEF PageMapping
    <2>2. pa \in Nat
      BY DEF Fresh, Bit
    <2>3. Abstract!Map(MappedTo(tables), MappedTo(tables'), va)
      BY <1>1, <2>1, <2>2, MapsIsMap, Zenon
    <2> QED
      BY <1>1, <1>4, <2>3, Zenon DEF MapStep, Abstract!Next
  <1> QED
    BY <1>5, <1>6, Zenon

\* map_page_translation of a page that the kernel maps, to device memory
LEMMA TranslationStep ==
  ASSUME IInv, NEW va \in KernelPages, va \notin HeapPages, NEW pa \in Nat, pa \notin Fresh,
         Becomes(MapPageTranslation(State, pa, va, TRUE)), others' = others
  PROVE  Consistent(al, tables, others)' /\ MapStep
  <1> DEFINE s == [al |-> al, tables |-> tables, cur |-> Root, result |-> "None"]
             t == MapPageTranslation(s, pa, va, TRUE)
  <1>1. Consistent(al, tables, others) /\ va \in VirtualPage
    BY KernelPagesVirtual DEF IInv
  <1>2. Mapping(t, va, pa, TRUE, others, MappedTo(tables))
    BY <1>1, TranslationKeeps, Zenon DEF MayMap
  <1>3. al' = t.al /\ tables' = t.tables
    BY DEF Becomes, State
  <1> HIDE DEF t
  <1>4. others \ {pa} = others
    <2>1. others \subseteq Fresh
      BY <1>1 DEF Consistent, Sound, FramesSound, Fresh, Allocator
    <2> QED
      BY <2>1
  <1>5. CASE t.result # "Ok"
    <2>1. Consistent(al', tables', others') /\ MappedTo(tables') = MappedTo(tables)
      BY <1>2, <1>3, <1>5, Zenon DEF Mapping
    <2> QED
      BY <2>1, Zenon DEF MapStep
  <1>6. CASE t.result = "Ok"
    <2>1. /\ Consistent(al', tables', others')
          /\ Maps(MappedTo(tables), MappedTo(tables'), va, pa, TRUE)
      BY <1>2, <1>3, <1>4, <1>6, Zenon DEF Mapping
    <2>2. Abstract!Map(MappedTo(tables), MappedTo(tables'), va)
      BY <1>1, <2>1, MapsIsMap, Zenon
    <2> QED
      BY <1>1, <2>1, <2>2, Zenon DEF MapStep, Abstract!Next
  <1> QED
    BY <1>5, <1>6

LEMMA BootStep == IInv /\ Boot => IInv' /\ MapStep
  <1> SUFFICES ASSUME IInv, Boot PROVE IInv' /\ MapStep
    BY Zenon
  <1> DEFINE m == Head(todo)
             s == CASE m.op = "map_page" -> MapPage(State, m.va, TRUE)
                    [] m.op = "translation" -> MapPageTranslation(State, m.pa, m.va, TRUE)
                    [] m.op = "io_apic" -> IF IsAddressIdentityMapped(tables, m.va)
                                           THEN [State EXCEPT !.result = "Ok"]
                                           ELSE MapPageTranslation(State, m.va, m.va, TRUE)
  <1>1. todo # <<>> /\ Becomes(s) /\ todo' = Tail(todo) /\ others' = others
    BY Zenon DEF Boot
  <1>2. /\ todo \in Seq(BootMap)
        /\ \A i \in DOMAIN todo : \E j \in DOMAIN BootMaps : todo[i] = BootMaps[j]
    BY Zenon DEF IInv
  <1>3. /\ todo' \in Seq(BootMap)
        /\ \A i \in DOMAIN todo' : \E j \in DOMAIN BootMaps : todo'[i] = BootMaps[j]
    <2>1. todo' \in Seq(BootMap)
      BY <1>1, <1>2
    <2>2. ASSUME NEW i \in DOMAIN todo' PROVE i + 1 \in DOMAIN todo /\ todo'[i] = todo[i + 1]
      BY <1>1, <1>2
    <2> QED
      BY <1>2, <2>1, <2>2, ZenonT(60)
  <1>4. PICK j \in DOMAIN BootMaps : m = BootMaps[j]
    BY <1>1, <1>2
  <1>5. /\ m \in BootMap
        /\ m.op # "map_page" =>
             /\ m.va \notin HeapPages
             /\ (IF m.op = "translation" THEN m.pa ELSE m.va) \notin Fresh
    BY <1>4, MapsAssumption DEF Fresh
  <1>6. (m.op = "io_apic" => ~IsAddressIdentityMapped(BootTables, m.va)) => m.va \in KernelPages
    BY <1>4, Zenon DEF KernelPages
  <1>7. m.op \in {"map_page", "translation", "io_apic"} /\ m.va \in VirtualPage /\ m.pa \in Nat
    BY <1>5, Zenon DEF BootMap
  <1> HIDE DEF m
  <1>8. Consistent(al, tables, others)' /\ MapStep
    <2>1. CASE m.op = "map_page"
      <3>1. Becomes(MapPage(State, m.va, TRUE))
        BY <1>1, <2>1, Zenon
      <3> QED
        BY <1>1, <1>6, <2>1, <3>1, MapPageStep, Zenon
    <2>2. CASE m.op = "translation"
      <3>1. Becomes(MapPageTranslation(State, m.pa, m.va, TRUE))
        BY <1>1, <2>2, Zenon
      <3> QED
        BY <1>1, <1>5, <1>6, <1>7, <2>2, <3>1, TranslationStep, Zenon
    <2>3. CASE m.op = "io_apic" /\ IsAddressIdentityMapped(tables, m.va)
      <3>1. Becomes([State EXCEPT !.result = "Ok"])
        BY <1>1, <2>3
      <3>2. al' = al /\ tables' = tables
        BY <3>1 DEF Becomes, State
      <3> QED
        BY <1>1, <3>2 DEF MapStep, IInv
    <2>4. CASE m.op = "io_apic" /\ ~IsAddressIdentityMapped(tables, m.va)
      <3>1. Becomes(MapPageTranslation(State, m.va, m.va, TRUE))
        BY <1>1, <2>4, Zenon
      <3>2. ~IsAddressIdentityMapped(BootTables, m.va)
        BY <1>7, <2>4, IdentityStays DEF IInv
      <3>3. m.va \in Nat
        BY <1>7 DEF VirtualPage
      <3> QED
        BY <1>1, <1>5, <1>6, <2>4, <3>1, <3>2, <3>3, TranslationStep, Zenon
    <2> QED
      BY <1>7, <2>1, <2>2, <2>3, <2>4, Zenon
  <1> QED
    BY <1>3, <1>8, Zenon DEF IInv

LEMMA NextIInv == IInv /\ [Next]_vars => IInv' /\ MapStep
  <1> SUFFICES ASSUME IInv, [Next]_vars PROVE IInv' /\ MapStep
    OBVIOUS
  <1>1. CASE Boot
    BY <1>1, BootStep, Zenon
  <1>2. CASE ReserveOther
    <2>1. /\ HasFree(al) /\ al' = Reserve(al) /\ others' = others \cup {FirstFree(al)}
          /\ tables' = tables /\ todo' = todo
      BY <1>2, Zenon DEF ReserveOther
    <2>2. PICK place : Kept(place) /\ Sound(al, tables, others, place)
      BY Zenon DEF IInv, Consistent
    <2>3. Sound(al', tables', others', place)
      BY <2>1, <2>2, ReserveKeeps, Zenon
    <2> QED
      BY <2>1, <2>2, <2>3, Zenon DEF IInv, Consistent, MapStep
  <1>3. ASSUME NEW f \in others, FreeOther(f) PROVE IInv' /\ MapStep
    <2>1. al' = Free(al, f) /\ others' = others \ {f} /\ tables' = tables /\ todo' = todo
      BY <1>3, Zenon DEF FreeOther
    <2>2. PICK place : Kept(place) /\ Sound(al, tables, others, place)
      BY Zenon DEF IInv, Consistent
    <2>3. Sound(al', tables', others', place)
      BY <2>1, <2>2, FreeKeeps, Zenon
    <2> QED
      BY <2>1, <2>2, <2>3, Zenon DEF IInv, Consistent, MapStep
  <1>4. ASSUME NEW va \in HeapPages, HeapMap(va) PROVE IInv' /\ MapStep
    <2>1. Becomes(MapPage(State, va, TRUE)) /\ todo' = todo /\ others' = others
      BY <1>4, Zenon DEF HeapMap
    <2>2. va \in KernelPages
      BY DEF KernelPages
    <2>3. Consistent(al, tables, others)' /\ MapStep
      BY <2>1, <2>2, MapPageStep, ZenonT(60)
    <2> QED
      BY <2>1, <2>3, Zenon DEF IInv
  <1>5. ASSUME NEW va \in HeapPages, UnmapAndFreePage(va) PROVE IInv' /\ MapStep
    <2> DEFINE w == Walk(tables, va)
               f == IF Levels = 1 THEN Root ELSE w[Levels - 1].addr
               tc == [tables EXCEPT ![f][IndexAt(va, Levels)] = ZERO]
    <2>1. /\ \A i \in 1 .. Levels : w[i].present
          /\ tables' = tc /\ al' = Free(al, w[Levels].addr)
          /\ todo' = todo /\ others' = others
      BY <1>5, Zenon DEF UnmapAndFreePage
    <2>2. /\ Consistent(Free(al, w[Levels].addr), tc, others)
          /\ Abstract!Unmap(MappedTo(tables), MappedTo(tc), va)
      BY <2>1, UnmapStep, ZenonT(60) DEF IInv
    <2> HIDE DEF w, tc
    <2>3. Consistent(al, tables, others)'
      BY <2>1, <2>2, Zenon
    <2>4. MapStep
      BY <2>1, <2>2, MapsAssumption, Zenon DEF MapStep, Abstract!Next
    <2> QED
      BY <2>1, <2>3, <2>4 DEF IInv
  <1>6. CASE UNCHANGED vars
    BY <1>6, Zenon DEF vars, IInv, MapStep
  <1> QED
    BY <1>1, <1>2, <1>3, <1>4, <1>5, <1>6 DEF Next

LEMMA Invariant == Spec => []IInv
  BY InitIInv, NextIInv, PTL DEF Spec

LEMMA AccountedFromIInv == IInv => FramesAccounted
  <1> SUFFICES ASSUME IInv, NEW f \in Bit \ BootReserved
               PROVE  Cardinality(References(tables, f)) =
                        IF f \in al.reserved \ others THEN 1 ELSE 0
    BY Zenon DEF FramesAccounted
  <1>1. PICK place : Sound(al, tables, others, place)
    BY Zenon DEF IInv, Consistent
  <1>2. IF f \in al.reserved \ others THEN \E r : References(tables, f) = {r}
        ELSE References(tables, f) = {}
    BY <1>1, Zenon DEF Sound, FramesSound, Fresh
  <1>3. CASE f \in al.reserved \ others
    BY <1>2, <1>3, FS_Singleton, ZenonT(60)
  <1>4. CASE f \notin al.reserved \ others
    BY <1>2, <1>4, FS_EmptySet
  <1> QED
    BY <1>3, <1>4, Zenon

\* A walk to a page of the heap has the flags of its leaf at every level, if the
\* bootloader made no entry above it that allows execution.
LEMMA HeapWalkFlags ==
  ASSUME IInv, NEW va \in HeapPages, NEW w \in BOOLEAN,
         HasFlags(Leaf(tables, va), w), ~UnderExecutable(va),
         NEW i \in 1 .. Levels
  PROVE  LET walk == Walk(tables, va)
             t == TableAt(walk, i)
         IN  /\ t \in DOMAIN tables /\ walk[i] = tables[t][IndexAt(va, i)]
             /\ HasFlags(walk[i], w)
  <1> DEFINE walk == Walk(tables, va)
             t == TableAt(walk, i)
             x == IndexAt(va, i)
  <1>1. PICK place : Kept(place) /\ Sound(al, tables, others, place)
    BY Zenon DEF IInv, Consistent
  <1>2. Placed(tables, place) /\ EntriesSound(tables, place)
    BY <1>1, Zenon DEF Sound
  <1>3. va \in KernelPages /\ va \in VirtualPage
    BY MapsAssumption, Zenon DEF KernelPages
  <1>f. Leaf(tables, va).present /\ (w => Leaf(tables, va).writable)
    BY Zenon DEF HasFlags
  <1>4. walk[i].present /\ GoesTo(walk, i)
    BY <1>2, <1>3, <1>f, WalkGoesOn, Zenon
  <1>5. /\ t \in DOMAIN tables
        /\ place[t] = [level |-> i, prefix |-> Prefix(va, i - 1)]
        /\ walk[i] = tables[t][x]
    BY <1>2, <1>3, <1>4, OnWalk, Zenon
  <1>6. x \in Index
    BY <1>3, PrefixStep, ZenonT(60)
  <1>l. i = Levels /\ w => walk[i].writable
    BY <1>f, Zenon DEF Leaf
  <1> HIDE DEF t, x, walk
  <1>7. place[t].level = i /\ place[t].prefix = Prefix(va, i - 1)
    BY <1>5
  <1>8. Covers(place[t], x, va)
    BY <1>2, <1>3, <1>5, <1>6, <1>7, CoversParts, Zenon DEF x
  <1>9. w => walk[i].writable
    <2>1. CASE i = Levels
      BY <1>l, <2>1, Zenon
    <2>2. CASE i # Levels
      <3>1. place[t].level < Levels
        BY <1>7, <2>2, LevelsAssumption
      <3>2. tables[t][x].writable
        BY <1>2, <1>4, <1>5, <1>6, <1>8, <3>1, Zenon DEF EntriesSound
      <3> QED
        BY <1>5, <3>2, Zenon
    <2> QED
      BY <2>1, <2>2
  <1>10. walk[i].no_execute
    <2>1. CASE ~BootEntry(t, x)
      BY <1>2, <1>4, <1>5, <1>6, <2>1, Zenon DEF EntriesSound
    <2>2. CASE BootEntry(t, x)
      <3>1. /\ t \in DOMAIN BootTables /\ BootTables[t][x].present
            /\ place[t] = BootPlace[t] /\ tables[t][x] = BootTables[t][x]
        BY <1>1, <1>6, <2>2, ZenonT(60) DEF BootEntry, Kept, Sound, BootKept
      <3>2. Covers(BootPlace[t], x, va) /\ BootPlace[t].level = i
        BY <1>7, <1>8, <3>1, Zenon
      <3>3. Placed(BootTables, BootPlace)
        BY BootPlaceIs, Zenon
      <3>4. Walk(BootTables, va)[BootPlace[t].level] = BootTables[t][x]
        BY <1>3, <1>6, <3>1, <3>2, <3>3, WalkThrough
      <3> QED
        BY <1>5, <3>1, <3>2, <3>4, Zenon DEF UnderExecutable
    <2> QED
      BY <2>1, <2>2
  <1> QED
    BY <1>4, <1>5, <1>9, <1>10, Zenon DEF HasFlags, t, x, walk

\* The tables that check_flags goes through for a page of the heap are those of
\* the walk: it meets no huge page.
LEMMA PathIsWalk ==
  ASSUME NEW place, Placed(tables, place), NEW va \in KernelPages, NEW w \in BOOLEAN,
         NEW path, FindsFlags(va, w, path)
  PROVE  \A i \in 1 .. Levels : HasFlags(Walk(tables, va)[i], w)
  <1> DEFINE walk == Walk(tables, va)
             S == {j \in 0 .. Levels : j > 0 => GoesTo(walk, j) /\ path[j] = TableAt(walk, j)}
  <1>v. va \in VirtualPage
    BY KernelPagesVirtual, Zenon
  <1>f. /\ path[1] = Root
        /\ \A i \in 1 .. Levels :
             /\ HasFlags(tables[path[i]][IndexAt(va, i)], w)
             /\ i < Levels => path[i + 1] = tables[path[i]][IndexAt(va, i)].addr
    BY Zenon DEF FindsFlags
  <1>o. ASSUME NEW i \in 1 .. Levels, GoesTo(walk, i)
        PROVE  LET t == TableAt(walk, i)
               IN  /\ t \in DOMAIN tables
                   /\ place[t] = [level |-> i, prefix |-> Prefix(va, i - 1)]
                   /\ walk[i] = tables[t][IndexAt(va, i)]
    BY <1>o, <1>v, OnWalk, Zenon
  <1> HIDE DEF walk
  <1>1. 0 \in S
    BY LevelsAssumption
  <1>2. ASSUME NEW j \in 1 .. Levels, j - 1 \in S PROVE j \in S
    <2>0. j \in 0 .. Levels
      BY LevelsAssumption
    <2>1. CASE j = 1
      BY <1>f, <2>0, <2>1 DEF GoesTo, TableAt
    <2>2. CASE j # 1
      <3> DEFINE i == j - 1
                 t == TableAt(walk, i)
                 x == IndexAt(va, i)
      <3>1. i \in 1 .. Levels /\ i > 0 /\ i < Levels /\ i + 1 = j
        BY <2>2, LevelsAssumption
      <3> HIDE DEF i
      <3>2. GoesTo(walk, i) /\ path[i] = t
        BY <1>2, <3>1, Zenon DEF i
      <3>3. /\ t \in DOMAIN tables
            /\ place[t] = [level |-> i, prefix |-> Prefix(va, i - 1)]
            /\ walk[i] = tables[t][x]
        BY <1>o, <3>1, <3>2, Zenon
      <3>4. x \in Index
        BY <1>v, <3>1, PrefixStep, ZenonT(60)
      <3>5. HasFlags(walk[i], w) /\ path[j] = walk[i].addr
        BY <1>f, <3>1, <3>2, <3>3, Zenon
      <3> HIDE DEF t, x
      <3>6. place[t].level = i /\ place[t].prefix = Prefix(va, i - 1)
        BY <3>3
      <3>7. Covers(place[t], x, va)
        BY <1>v, <3>3, <3>4, <3>6, CoversParts, Zenon DEF x
      <3>8. walk[i].present
        BY <3>5, Zenon DEF HasFlags
      <3>9. ~walk[i].huge
        BY <3>1, <3>3, <3>4, <3>6, <3>7, <3>8, Zenon DEF Placed
      <3>10. GoesTo(walk, j) /\ path[j] = TableAt(walk, j)
        BY <2>2, <3>5, <3>8, <3>9 DEF GoesTo, TableAt, i
      <3> QED
        BY <2>0, <3>10
    <2> QED
      BY <2>1, <2>2, Zenon
  <1>3. S = 0 .. Levels
    <2>1. S \in SUBSET (0 .. Levels)
      BY Zenon
    <2> HIDE DEF S
    <2> QED
      BY <1>1, <1>2, <2>1, RangeInduction, LevelsAssumption, Zenon
  <1>4. \A i \in 1 .. Levels : i \in S /\ i > 0
    BY <1>3, LevelsAssumption
  <1>5. ASSUME NEW i \in 1 .. Levels PROVE HasFlags(walk[i], w)
    <2>1. GoesTo(walk, i) /\ path[i] = TableAt(walk, i)
      BY <1>4, Zenon
    <2>2. walk[i] = tables[path[i]][IndexAt(va, i)]
      BY <1>o, <2>1, Zenon
    <2> QED
      BY <1>f, <2>2, Zenon
  <1> QED
    BY <1>5, Zenon DEF walk

\* check_flags finds the flags at every level of a page only if the bootloader
\* made no entry above it that allows execution.
LEMMA FlagsFound ==
  ASSUME IInv, NEW va \in HeapPages, NEW w \in BOOLEAN, NEW path, FindsFlags(va, w, path)
  PROVE  HasFlags(Leaf(tables, va), w) /\ ~UnderExecutable(va)
  <1> DEFINE b == Walk(BootTables, va)
  <1>1. PICK place : Kept(place) /\ Sound(al, tables, others, place)
    BY Zenon DEF IInv, Consistent
  <1>2. va \in KernelPages /\ va \in VirtualPage
    BY MapsAssumption, Zenon DEF KernelPages
  <1>3. \A i \in 1 .. Levels : HasFlags(Walk(tables, va)[i], w)
    <2>1. Placed(tables, place)
      BY <1>1, Zenon DEF Sound
    <2> QED
      BY <1>2, <2>1, PathIsWalk, Zenon
  <1>4. Levels \in 1 .. Levels
    BY LevelsAssumption
  <1>5. ASSUME NEW i \in 1 .. Levels, b[i].present PROVE b[i].no_execute
    <2>1. GoesTo(b, i)
      <3>1. i \in 1 .. i
        BY LevelsAssumption
      <3> QED
        BY <1>2, <1>5, <3>1, BootPlaceIs, WalkGoesTo, Zenon
    <2>2. Walk(tables, va)[i] = b[i]
      BY <1>1, <1>2, <1>5, <2>1, BootWalkStays, Zenon
    <2> QED
      BY <1>3, <2>2, Zenon DEF HasFlags
  <1> QED
    BY <1>3, <1>4, <1>5, Zenon DEF Leaf, UnderExecutable

LEMMA FlagsFromIInv == IInv => CheckFlagsExact
  <1> SUFFICES ASSUME IInv, NEW first \in HeapPages, NEW last \in HeapPages, NEW w \in BOOLEAN
               PROVE  CheckFlags(first, last, w) <=>
                        \A va \in first .. last :
                          HasFlags(Leaf(tables, va), w) /\ ~UnderExecutable(va)
    BY Zenon DEF CheckFlagsExact
  <1>1. first .. last \subseteq HeapPages
    BY MapsAssumption
  <1>2. ASSUME CheckFlags(first, last, w), NEW va \in first .. last
        PROVE  HasFlags(Leaf(tables, va), w) /\ ~UnderExecutable(va)
    BY <1>1, <1>2, FlagsFound, Zenon DEF CheckFlags
  <1>3. ASSUME \A va \in first .. last : HasFlags(Leaf(tables, va), w) /\ ~UnderExecutable(va)
        PROVE  CheckFlags(first, last, w)
    <2> SUFFICES ASSUME NEW va \in first .. last
                 PROVE  \E path \in [1 .. Levels -> DOMAIN tables] : FindsFlags(va, w, path)
      BY Zenon DEF CheckFlags
    <2> DEFINE walk == Walk(tables, va)
               path == [i \in 1 .. Levels |-> TableAt(walk, i)]
    <2>1. \A i \in 1 .. Levels :
            /\ path[i] = TableAt(walk, i) /\ path[i] \in DOMAIN tables
            /\ walk[i] = tables[path[i]][IndexAt(va, i)]
            /\ HasFlags(walk[i], w)
      BY <1>1, <1>3, HeapWalkFlags, Zenon
    <2>2. path \in [1 .. Levels -> DOMAIN tables]
      BY <2>1, Zenon
    <2> HIDE DEF walk, path
    <2>3. path[1] = Root
      <3>1. 1 \in 1 .. Levels
        BY LevelsAssumption
      <3> QED
        BY <2>1, <3>1, Zenon DEF TableAt
    <2>4. ASSUME NEW i \in 1 .. Levels, i < Levels PROVE path[i + 1] = walk[i].addr
      <3>1. i + 1 \in 1 .. Levels /\ i + 1 # 1 /\ (i + 1) - 1 = i
        BY <2>4, LevelsAssumption
      <3>2. path[i + 1] = TableAt(walk, i + 1)
        BY <2>1, <3>1, Zenon
      <3> QED
        BY <3>1, <3>2, Zenon DEF TableAt
    <2>5. FindsFlags(va, w, path)
      BY <2>1, <2>3, <2>4, Zenon DEF FindsFlags
    <2> QED
      BY <2>2, <2>5, Zenon
  <1> QED
    BY <1>2, <1>3, Zenon

\* Every frame that was reserved after the start is held by another client or
\* referenced by one entry that the kernel made, and no free frame is referenced:
\* map_page gives its page back on each of its error paths, and the parents that
\* map_page_translation leaves behind stay in the tree.
THEOREM FramesStayAccounted == Spec => []FramesAccounted
  BY Invariant, AccountedFromIInv, PTL

\* check_flags on pages of the heap, READ or READ_WRITE, is as good as a look at the
\* last entry where the bootloader's entries above them forbid execution, and false
\* below one that allows it.  The parents that map_page_translation makes restrict
\* no page.
THEOREM CheckFlagsStaysExact == Spec => []CheckFlagsExact
  BY Invariant, FlagsFromIInv, PTL

LEMMA InitIsMap == Init => Abstract!Init
  <1> SUFFICES ASSUME Init PROVE Abstract!Init
    OBVIOUS
  <1>1. tables = BootTables
    BY Zenon DEF Init
  <1>2. \A v \in Mapped(BootTables) : Leaf(BootTables, v) \in Entry
    <2> TAKE v \in Mapped(BootTables)
    <2>1. v \in VirtualPage
      BY Zenon DEF Mapped
    <2>2. \E t \in DOMAIN BootTables, x \in Index : Leaf(BootTables, v) = BootTables[t][x]
      BY <2>1, BootPlaceIs, LeafIsEntry
    <2> QED
      BY <2>2, BootTablesAssumption
  <1>3. MappedTo(BootTables) \in [Mapped(BootTables) -> [addr : Nat, writable : BOOLEAN]]
    BY <1>2, Zenon DEF MappedTo, Entry
  <1>4. DOMAIN MappedTo(BootTables) = Mapped(BootTables)
    BY DEF MappedTo
  <1> QED
    BY <1>1, <1>3, <1>4, Zenon DEF Abstract!Init

\* The operations of PageAllocatorInternal on the kernel's tables implement a map
\* from virtual pages to frames: map_page_translation adds a page that was not
\* mapped, with device memory or a frame of its own, or changes nothing, and
\* unmap_and_free_page removes a page that the bootloader did not map.
THEOREM TablesImplementMap == Spec => ImplementsAddressMap
  <1>1. IInv /\ [Next]_vars => [Abstract!Next]_(MappedTo(tables))
    BY NextIInv DEF MapStep
  <1> QED
    BY <1>1, InitIsMap, Invariant, PTL DEF Spec, ImplementsAddressMap, Abstract!Spec
=============================================================================
