----------------------- MODULE UserPageMapperProofs -------------------------
(***************************************************************************)
(* Proofs about UserPageMapper: its tables stay sound until map_blank_page *)
(* has failed, and its tasks keep the translations of the other pages, for *)
(* any number of levels, entries of a table, frames, tasks and calls.      *)
(*                                                                         *)
(* TablesSound speaks of the tables that are reached, and is not           *)
(* inductive.  unmap_page clears the entry of a table that is not empty    *)
(* and frees it; the tables below are cut off and stay reserved.  Such a   *)
(* table may keep its entries, and what matters of them is that they refer *)
(* to no frame that is used again.  The invariant Sound is therefore about *)
(* a set T of frames that holds the tables that are reached and those that *)
(* were cut off.  Every table in T has one level; an entry of T refers to  *)
(* a table of T at the next level or, at the last level, to a page that is *)
(* no table; and no two entries of T refer to one frame.  T and the levels *)
(* are no state of the program: the invariant says that they exist, and    *)
(* each operation is shown to have new ones.                               *)
(*                                                                         *)
(* A loop of the code is a recursive function, and the proofs about it     *)
(* have three steps.  The function exists and takes the values that its    *)
(* definition gives (Iteration and TraceOf, in NaturalsFacts).  One        *)
(* iteration keeps what is wanted.  So do all of them (RangeInduction).    *)
(***************************************************************************)
EXTENDS UserPageMapper, NaturalsFacts, FiniteSetTheorems, TLAPS

Tables == [Bit -> [Index -> Entry]]
Frame == Bit \cup {None}

\* The numbers that the tasks count with.
LEMMA Counting ==
  /\ \A x, y \in Int : x + y \in Int /\ x - y \in Int
  /\ \A x \in Nat : Previous(x) \in Nat
  <1>1. \A x, y \in Int : x + y \in Int /\ x - y \in Int
    OBVIOUS
  <1>2. \A x \in Nat : Previous(x) \in Nat
    BY DEF Previous
  <1> QED
    BY <1>1, <1>2, Zenon

\* An entry stands for at least one page.
LEMMA SpanValues == \A n \in 0 .. Levels : Span[n] \in Nat \ {0}
  <1> DEFINE S == Nat \ {0}
             step == [i \in 1 .. Levels |-> [m \in S |-> Fanout * m]]
             Is(f) == f = [n \in 0 .. Levels |-> IF n = 0 THEN 1 ELSE Fanout * f[n - 1]]
  <1>1. step \in [1 .. Levels -> [S -> S]]
    BY LevelsAssumption
  <1>2. Levels \in Nat /\ 1 \in S
    BY LevelsAssumption
  <1> HIDE DEF step, S
  <1>p. PICK f : IsTrace(f, S, Levels, 1, step)
    BY <1>1, <1>2, Iteration, Zenon
  <1>3. f \in [0 .. Levels -> S] /\ f[0] = 1 /\ \A i \in 1 .. Levels : f[i] = step[i][f[i - 1]]
    BY <1>p, Zenon DEF IsTrace
  <1> USE DEF step, S
  <1>4. \A n \in 0 .. Levels : f[n] = IF n = 0 THEN 1 ELSE Fanout * f[n - 1]
    <2> TAKE n \in 0 .. Levels
    <2>1. CASE n = 0
      BY <1>3, <2>1
    <2>2. CASE n # 0
      <3>1. n \in 1 .. Levels /\ n - 1 \in 0 .. Levels
        BY <2>2, LevelsAssumption
      <3> QED
        BY <1>3, <2>2, <3>1, Zenon
    <2> QED
      BY <2>1, <2>2
  <1>5. Is(f)
    BY <1>3, <1>4
  <1>6. Is(Span)
    BY <1>5, Zenon DEF Span
  <1> HIDE DEF step
  <1> DEFINE T == {n \in 0 .. Levels : Span[n] \in S}
  <1>7. 0 \in T
    BY <1>6, LevelsAssumption
  <1>8. ASSUME NEW n \in 1 .. Levels, n - 1 \in T PROVE n \in T
    <2>1. Span[n] = Fanout * Span[n - 1]
      BY <1>6, LevelsAssumption
    <2>2. Fanout * Span[n - 1] \in S
      BY <1>8, LevelsAssumption
    <2> QED
      BY <2>1, <2>2, LevelsAssumption
  <1>9. T = 0 .. Levels
    <2>1. T \in SUBSET (0 .. Levels)
      OBVIOUS
    <2> HIDE DEF T
    <2> QED
      BY <1>7, <1>8, <2>1, RangeInduction, LevelsAssumption
  <1> QED
    BY <1>9

\* The index of a page lies within a table.
LEMMA IndexType ==
  ASSUME NEW va \in Nat, NEW i \in 0 .. Levels - 1
  PROVE  IndexAt(va, i) \in Index
  <1>1. Levels - 1 - i \in 0 .. Levels
    BY LevelsAssumption
  <1>2. Span[Levels - 1 - i] \in Nat \ {0}
    BY <1>1, SpanValues
  <1> DEFINE q == va \div Span[Levels - 1 - i]
  <1>3. q \in Nat
    BY <1>2, DivMod
  <1> HIDE DEF q
  <1>4. q % Fanout \in Nat /\ q % Fanout < Fanout
    BY <1>3, DivMod, LevelsAssumption
  <1> QED
    BY <1>4, LevelsAssumption DEF IndexAt, Index, q

\* The end of a walk that fails is no frame.
LEMMA NoneNotBit == None \notin Bit
  BY DEF None, Bit

\* The fields of an entry of a table have their types.
LEMMA EntryFields ==
  ASSUME NEW tb \in Tables, NEW f \in Bit, NEW x \in Index
  PROVE  tb[f][x] \in Entry /\ tb[f][x].present \in BOOLEAN /\ tb[f][x].addr \in Bit
  BY DEF Tables, Entry

\* The first entry of a walk is the root's, and the following ones are found in
\* the table before them.
LEMMA WalkSteps ==
  ASSUME NEW tb \in Tables, NEW va \in Nat
  PROVE  /\ Walk(tb, va) \in [0 .. Levels -> Frame]
         /\ Walk(tb, va)[0] = Root
         /\ \A i \in 1 .. Levels : Walk(tb, va)[i] = Follow(tb, va, i - 1)[Walk(tb, va)[i - 1]]
  <1> DEFINE step == [i \in 1 .. Levels |-> Follow(tb, va, i - 1)]
             Is(f) == f = [i \in 0 .. Levels |->
                             IF i = 0 THEN Root ELSE Follow(tb, va, i - 1)[f[i - 1]]]
             w == Walk(tb, va)
  <1>1. ASSUME NEW i \in 0 .. Levels - 1 PROVE Follow(tb, va, i) \in [Frame -> Frame]
    <2>1. IndexAt(va, i) \in Index
      BY IndexType
    <2>2. \A f \in Bit : tb[f][IndexAt(va, i)].addr \in Bit
      BY <2>1, EntryFields
    <2> QED
      BY <2>2 DEF Follow, Frame
  <1>2. step \in [1 .. Levels -> [Frame -> Frame]]
    <2>1. \A i \in 1 .. Levels : i - 1 \in 0 .. Levels - 1
      BY LevelsAssumption
    <2> QED
      BY <1>1, <2>1
  <1>3. Root \in Frame
    BY RootAssumption DEF Frame
  <1>n. Levels \in Nat
    BY LevelsAssumption
  <1> HIDE DEF step
  <1>p. PICK f : IsTrace(f, Frame, Levels, Root, step)
    BY <1>2, <1>3, <1>n, Iteration, Zenon
  <1>4. /\ f \in [0 .. Levels -> Frame] /\ f[0] = Root
        /\ \A i \in 1 .. Levels : f[i] = step[i][f[i - 1]]
    BY <1>p, Zenon DEF IsTrace
  <1> USE DEF step
  <1>5. \A i \in 0 .. Levels : f[i] = IF i = 0 THEN Root ELSE Follow(tb, va, i - 1)[f[i - 1]]
    <2> TAKE i \in 0 .. Levels
    <2>1. i # 0 => i \in 1 .. Levels
      BY LevelsAssumption
    <2> QED
      BY <1>4, <2>1
  <1>6. Is(f)
    BY <1>4, <1>5
  <1>7. Is(w)
    BY <1>6, Zenon DEF Walk
  <1> HIDE DEF w, step
  <1>8. w[0] = Root
    BY <1>7, LevelsAssumption
  <1>9. \A i \in 1 .. Levels : w[i] = Follow(tb, va, i - 1)[w[i - 1]]
    <2> TAKE i \in 1 .. Levels
    <2>1. i \in 0 .. Levels /\ i # 0
      BY LevelsAssumption
    <2> QED
      BY <1>7, <2>1, Zenon
  <1> DEFINE T == {i \in 0 .. Levels : w[i] \in Frame}
  <1>10. T = 0 .. Levels
    <2>1. T \in SUBSET (0 .. Levels) /\ 0 \in T
      BY <1>3, <1>8, LevelsAssumption
    <2>2. ASSUME NEW i \in 1 .. Levels, i - 1 \in T PROVE i \in T
      <3>1. i - 1 \in 0 .. Levels - 1 /\ i \in 0 .. Levels
        BY LevelsAssumption
      <3>2. Follow(tb, va, i - 1)[w[i - 1]] \in Frame
        BY <1>1, <2>2, <3>1
      <3> QED
        BY <1>9, <3>1, <3>2
    <2> HIDE DEF T
    <2> QED
      BY <2>1, <2>2, RangeInduction, LevelsAssumption
  <1>11. w \in [0 .. Levels -> Frame]
    <2>1. DOMAIN w = 0 .. Levels /\ w = [i \in DOMAIN w |-> w[i]]
      BY <1>7
    <2> QED
      BY <1>10, <2>1
  <1> QED
    BY <1>8, <1>9, <1>11 DEF w

\* Where a walk goes from a table: on, if the entry is present.
LEMMA WalkGoes ==
  ASSUME NEW tb \in Tables, NEW va \in Nat, NEW i \in 0 .. Levels - 1
  PROVE  LET w == Walk(tb, va)
             e == tb[w[i]][IndexAt(va, i)]
         IN  IF w[i] = None \/ ~e.present THEN w[i + 1] = None
             ELSE w[i + 1] = e.addr /\ w[i] \in Bit
  <1>1. i + 1 \in 1 .. Levels /\ (i + 1) - 1 = i /\ i \in 0 .. Levels
    BY LevelsAssumption
  <1>2. Walk(tb, va)[i] \in Frame
    BY <1>1, WalkSteps, Zenon
  <1>3. Walk(tb, va)[i + 1] = Follow(tb, va, i)[Walk(tb, va)[i]]
    BY <1>1, WalkSteps
  <1> QED
    BY <1>2, <1>3, NoneNotBit DEF Follow, Frame

\* A walk that gets to a page goes through present entries all the way.
OnTheWay(tb, va, w, i) ==
  /\ w[i] \in Bit
  /\ tb[w[i]][IndexAt(va, i)].present
  /\ tb[w[i]][IndexAt(va, i)].addr = w[i + 1]

\* Every entry on the way to a page that is mapped is present.
LEMMA WalkMapped ==
  ASSUME NEW tb \in Tables, NEW va \in Nat, IsMapped(tb, va)
  PROVE  \A i \in 0 .. Levels - 1 : OnTheWay(tb, va, Walk(tb, va), i)
  <1> DEFINE w == Walk(tb, va)
             T == {k \in 0 .. Levels : w[Levels - k] # None}
  <1>1. T = 0 .. Levels
    <2>1. T \in SUBSET (0 .. Levels)
      OBVIOUS
    <2>2. 0 \in T
      BY LevelsAssumption DEF IsMapped
    <2>3. ASSUME NEW k \in 1 .. Levels, k - 1 \in T PROVE k \in T
      <3>1. /\ Levels - k \in 0 .. Levels - 1 /\ k \in 0 .. Levels
            /\ (Levels - k) + 1 = Levels - (k - 1)
        BY LevelsAssumption
      <3>2. w[Levels - k] # None
        BY <2>3, <3>1, WalkGoes
      <3> QED
        BY <3>1, <3>2
    <2> HIDE DEF T
    <2> QED
      BY <2>1, <2>2, <2>3, RangeInduction, LevelsAssumption
  <1> TAKE i \in 0 .. Levels - 1
  <1>2. i \in 0 .. Levels /\ i + 1 \in 0 .. Levels
    BY LevelsAssumption
  <1>3. \A j \in 0 .. Levels : w[j] # None
    <2> TAKE j \in 0 .. Levels
    <2>1. Levels - j \in 0 .. Levels /\ Levels - (Levels - j) = j
      BY LevelsAssumption
    <2>2. Levels - j \in T
      BY <1>1, <2>1
    <2> QED
      BY <2>1, <2>2
  <1>4. w[i] # None /\ w[i + 1] # None
    BY <1>2, <1>3
  <1> QED
    BY <1>4, WalkGoes DEF OnTheWay
-----------------------------------------------------------------------------
\* The allocator: a free page is reserved, a page in use is freed, and the
\* counter stays exact.
Counted(a) == a.total_pages = BitmapBits /\ a.free_pages = Cardinality(Bit \ a.reserved)

\* The frames, and any of them, can be counted.
LEMMA BitFinite == IsFiniteSet(Bit) /\ \A S \in SUBSET Bit : IsFiniteSet(S)
  <1>1. IsFiniteSet(Bit)
    BY FS_Interval, BitmapBitsAssumption DEF Bit
  <1> QED
    BY <1>1, FS_Subset

\* reserve_page finds a frame that is not in use.
LEMMA FirstFreeClear ==
  ASSUME NEW a \in Allocator, HasFree(a)
  PROVE  FirstFree(a) \in Bit /\ FirstFree(a) \notin a.reserved
  <1>1. Bit \ a.reserved \in SUBSET Nat
    BY BitmapBitsAssumption DEF Bit
  <1>2. \E p \in Bit \ a.reserved : \A q \in Bit \ a.reserved : p <= q
    BY <1>1, LeastNatural, Zenon DEF HasFree
  <1> QED
    BY <1>2 DEF FirstFree

\* What reserve_page makes of the allocator.
LEMMA ReserveIs ==
  ASSUME NEW a \in Allocator, HasFree(a)
  PROVE  /\ Reserve(a) \in Allocator
         /\ Reserve(a).reserved = a.reserved \cup {FirstFree(a)}
         /\ Counted(a) => Counted(Reserve(a))
  <1> DEFINE p == FirstFree(a)
             S == a.reserved \cup {p}
             n == a.free_pages - 1
             b == Reserve(a)
  <1>1. p \in Bit /\ p \notin a.reserved
    BY FirstFreeClear
  <1>2. a.reserved \in SUBSET Bit /\ S \in SUBSET Bit /\ n \in Int
    BY <1>1 DEF Allocator
  <1>3. b = [a EXCEPT !.reserved = S, !.free_pages = n]
    BY DEF Reserve
  <1> HIDE DEF p, S, n, b
  <1>4. /\ b \in Allocator /\ b.reserved = S /\ b.free_pages = n
        /\ b.total_pages = a.total_pages
    BY <1>2, <1>3, Zenon DEF Allocator
  <1>5. ASSUME Counted(a) PROVE Counted(b)
    <2>1. IsFiniteSet(Bit \ a.reserved)
      BY BitFinite
    <2>2. Bit \ S = (Bit \ a.reserved) \ {p}
      BY Zenon DEF S
    <2>3. Cardinality(Bit \ S) = Cardinality(Bit \ a.reserved) - 1
      BY <1>1, <2>1, <2>2, FS_RemoveElement, ZenonT(60)
    <2> QED
      BY <1>4, <1>5, <2>3 DEF Counted, n
  <1> QED
    BY <1>4, <1>5 DEF b, S, p

\* What free_page makes of the allocator, for a frame that is in use.
LEMMA FreeIs ==
  ASSUME NEW a \in Allocator, NEW f \in Bit
  PROVE  /\ Free(a, f) \in Allocator
         /\ a.total_pages = BitmapBits => Free(a, f).reserved = a.reserved \ {f}
         /\ Counted(a) /\ f \in a.reserved => Counted(Free(a, f))
  <1> DEFINE S == a.reserved \ {f}
             n == a.free_pages + 1
             b == [a EXCEPT !.reserved = S, !.free_pages = n]
  <1>1. a.reserved \in SUBSET Bit /\ S \in SUBSET Bit /\ n \in Int
    BY DEF Allocator
  <1>2. Free(a, f) = IF f >= a.total_pages THEN a ELSE b
    BY DEF Free
  <1>3. a.total_pages = BitmapBits => ~(f >= a.total_pages)
    BY BitmapBitsAssumption DEF Bit
  <1> HIDE DEF S, n
  <1>4. b \in Allocator /\ b.reserved = S /\ b.free_pages = n /\ b.total_pages = a.total_pages
    BY <1>1, Zenon DEF Allocator
  <1> HIDE DEF b
  <1>5. ASSUME Counted(a), f \in a.reserved PROVE Counted(b)
    <2>1. IsFiniteSet(Bit \ a.reserved)
      BY BitFinite
    <2>2. Bit \ S = (Bit \ a.reserved) \cup {f} /\ f \notin Bit \ a.reserved
      BY <1>5, Zenon DEF S
    <2>3. Cardinality(Bit \ S) = Cardinality(Bit \ a.reserved) + 1
      BY <2>1, <2>2, FS_AddElement, Zenon
    <2> QED
      BY <1>4, <1>5, <2>3 DEF Counted, n
  <1>6. ASSUME a.total_pages = BitmapBits PROVE Free(a, f) = b
    BY <1>2, <1>3, <1>6
  <1>7. Free(a, f) \in Allocator
    BY <1>2, <1>4
  <1>8. ASSUME a.total_pages = BitmapBits PROVE Free(a, f).reserved = a.reserved \ {f}
    BY <1>4, <1>6, <1>8 DEF S
  <1>9. ASSUME Counted(a), f \in a.reserved PROVE Counted(Free(a, f))
    BY <1>5, <1>6, <1>9 DEF Counted
  <1> QED
    BY <1>7, <1>8, <1>9

\* free_page for several frames leaves an allocator.
LEMMA FreeAllIs ==
  ASSUME NEW a \in Allocator, NEW frames \in SUBSET Bit
  PROVE  FreeAll(a, frames) \in Allocator
  <1> DEFINE freed == {f \in frames : f < a.total_pages}
             S == a.reserved \ freed
             n == a.free_pages + Cardinality(freed)
  <1>1. freed \in SUBSET Bit
    OBVIOUS
  <1> HIDE DEF freed
  <1>2. Cardinality(freed) \in Nat
    BY <1>1, BitFinite, FS_CardinalityType
  <1>3. S \in SUBSET Bit /\ n \in Int
    BY <1>2 DEF Allocator
  <1>4. FreeAll(a, frames) = [a EXCEPT !.reserved = S, !.free_pages = n]
    BY DEF FreeAll, freed
  <1> HIDE DEF S, n
  <1> QED
    BY <1>3, <1>4, Zenon DEF Allocator

-----------------------------------------------------------------------------
\* What the steps of an operation make of its state.
Results == {"Ok", "OutOfMemory", "PageAlreadyExists", "copy_from_slice", "null_table"}
LoopState ==
  [al : Allocator, tables : Tables, count : Int, result : Results, f : Bit, created : SUBSET Bit]

\* The entries that are written are entries.
LEMMA EntryTypes ==
  /\ ZERO \in Entry /\ ~ZERO.present
  /\ \A w, n \in BOOLEAN, a \in Bit :
       EntryOf(w, n, a) \in Entry /\ EntryOf(w, n, a).present /\ EntryOf(w, n, a).addr = a
  <1>1. 0 \in Bit
    BY BitmapBitsAssumption DEF Bit
  <1> QED
    BY <1>1 DEF ZERO, EntryOf, Entry

\* The tables after an entry of f has been set, where new is a new table.
WithPage(tc, tb, f, x, e, new) ==
  /\ tc \in Tables
  /\ \A t \in Bit, y \in Index :
       tc[t][y] = IF t = f /\ y = x THEN e ELSE IF t = new THEN ZERO ELSE tb[t][y]

\* What adding a page makes of the state of an operation.
LEMMA AddPageIs ==
  ASSUME NEW s \in LoopState, NEW x \in Index, NEW w \in BOOLEAN, NEW parent \in BOOLEAN,
         HasFree(s.al)
  PROVE  LET u == AddPage(s, x, w, parent)
             new == FirstFree(s.al)
         IN  /\ u \in LoopState /\ u.al = Reserve(s.al) /\ u.result = s.result
             /\ u.f = s.f /\ u.created = s.created
             /\ WithPage(u.tables, s.tables, s.f, x, EntryOf(w, ~parent, new), new)
  <1> DEFINE u == AddPage(s, x, w, parent)
             new == FirstFree(s.al)
             e == EntryOf(w, ~parent, new)
             zeros == [y \in Index |-> ZERO]
             zeroed == [s.tables EXCEPT ![new] = zeros]
             tc == [zeroed EXCEPT ![s.f][x] = e]
             b == Reserve(s.al)
             n == s.count + 1
  <1>1. /\ s.al \in Allocator /\ s.tables \in Tables /\ s.f \in Bit
        /\ n \in Int
    BY DEF LoopState
  <1>2. new \in Bit /\ b \in Allocator
    BY <1>1, FirstFreeClear, ReserveIs
  <1>3. e \in Entry
    BY <1>2, EntryTypes, Zenon
  <1>4. zeros \in [Index -> Entry]
    BY EntryTypes
  <1> HIDE DEF e, zeros, new
  <1>5. zeroed \in Tables /\ \A t \in Bit : zeroed[t] = IF t = new THEN zeros ELSE s.tables[t]
    BY <1>1, <1>2, <1>4 DEF Tables
  <1> HIDE DEF zeroed
  <1>6. tc \in Tables /\ \A t \in Bit, y \in Index :
          tc[t][y] = IF t = s.f /\ y = x THEN e ELSE zeroed[t][y]
    BY <1>1, <1>3, <1>5 DEF Tables
  <1>7. \A y \in Index : zeros[y] = ZERO
    BY DEF zeros
  <1> HIDE DEF tc
  <1>8. WithPage(tc, s.tables, s.f, x, e, new)
    BY <1>5, <1>6, <1>7 DEF WithPage
  <1>9. u = [s EXCEPT !.al = b, !.tables = tc, !.count = n]
    BY DEF AddPage, zeros, zeroed, tc, e, new
  <1> HIDE DEF u, b, n
  <1>10. /\ u \in LoopState /\ u.al = b /\ u.tables = tc /\ u.result = s.result
         /\ u.f = s.f /\ u.created = s.created
    BY <1>1, <1>2, <1>6, <1>9, Zenon DEF LoopState
  <1> QED
    BY <1>8, <1>10 DEF u, b, e, new

-----------------------------------------------------------------------------
\* The invariant of the tables.  T is a set of frames that are used as tables,
\* each at one level; it holds every table that can be reached, and tables that
\* unmap_page has cut off when it freed the table above them.
Refers(a, tb, T, lev, t, x) ==
  /\ tb[t][x].addr \in a.reserved \ {Root}
  /\ lev[t] = Levels - 1 => tb[t][x].addr \notin T
  /\ lev[t] # Levels - 1 => tb[t][x].addr \in T /\ lev[tb[t][x].addr] = lev[t] + 1

OneReference(tb, T) ==
  \A t, u \in T, x, y \in Index :
    tb[t][x].present /\ tb[u][y].present /\ tb[t][x].addr = tb[u][y].addr => t = u /\ x = y

Frames(a, tb, T, lev) ==
  /\ a \in Allocator /\ Counted(a) /\ tb \in Tables
  /\ T \subseteq a.reserved /\ lev \in [Bit -> 0 .. Levels - 1]
  /\ Root \in T /\ lev[Root] = 0

Sound(a, tb, T, lev) ==
  /\ Frames(a, tb, T, lev)
  /\ \A t \in T, x \in Index : tb[t][x].present => Refers(a, tb, T, lev, t, x)
  /\ OneReference(tb, T)

\* The entries of the tables in T that were present are as they were.
Extends(T, tb, tc) ==
  \A t \in T, x \in Index : tb[t][x].present => tc[t][x] = tb[t][x]

\* The tables of the invariant are frames.
LEMMA TablesAreFrames ==
  ASSUME NEW a, NEW tb, NEW T, NEW lev, Frames(a, tb, T, lev)
  PROVE  T \subseteq Bit /\ a.reserved \subseteq Bit
  BY DEF Frames, Allocator

\* The set of tables and their levels, with a page that is added below the table f.
Grown(T, lev, f, new) == IF lev[f] = Levels - 1 THEN T ELSE T \cup {new}
Placed(lev, f, new) == IF lev[f] = Levels - 1 THEN lev ELSE [lev EXCEPT ![new] = lev[f] + 1]

GrowsTo(T, lev, f, new, U, l) ==
  /\ new \notin T
  /\ U \subseteq T \cup {new} /\ T \subseteq U
  /\ new \in U <=> lev[f] # Levels - 1
  /\ l \in [Bit -> 0 .. Levels - 1]
  /\ \A t \in T : l[t] = lev[t]
  /\ lev[f] # Levels - 1 => l[new] = lev[f] + 1

\* The larger set of tables, with their levels, extends the one before it.
LEMMA GrownIs ==
  ASSUME NEW a, NEW tb, NEW T, NEW lev, Frames(a, tb, T, lev), NEW f \in T,
         NEW new \in Bit, new \notin a.reserved
  PROVE  GrowsTo(T, lev, f, new, Grown(T, lev, f, new), Placed(lev, f, new))
  <1>1. new \notin T /\ f \in Bit /\ T \subseteq Bit
    BY TablesAreFrames DEF Frames
  <1>2. /\ Grown(T, lev, f, new) \subseteq T \cup {new} /\ T \subseteq Grown(T, lev, f, new)
        /\ new \in Grown(T, lev, f, new) <=> lev[f] # Levels - 1
    BY <1>1 DEF Grown
  <1>3. lev \in [Bit -> 0 .. Levels - 1]
    BY DEF Frames
  <1>4. CASE lev[f] = Levels - 1
    BY <1>1, <1>2, <1>3, <1>4 DEF Placed, GrowsTo
  <1>5. CASE lev[f] # Levels - 1
    <2>1. lev[f] \in 0 .. Levels - 1
      BY <1>1, <1>3
    <2>2. lev[f] + 1 \in 0 .. Levels - 1
      BY <2>1, <1>5, LevelsAssumption
    <2>3. Placed(lev, f, new) = [lev EXCEPT ![new] = lev[f] + 1]
      BY <1>5 DEF Placed
    <2>4. \A t \in T : t # new /\ t \in Bit
      BY <1>1
    <2> QED
      BY <1>1, <1>2, <1>3, <2>2, <2>3, <2>4 DEF GrowsTo
  <1> QED
    BY <1>4, <1>5

\* A page that was free is zeroed and entered where nothing was.
LEMMA AddKeeps ==
  ASSUME NEW a, NEW tb, NEW T, NEW lev, Sound(a, tb, T, lev), HasFree(a),
         NEW f \in T, NEW x \in Index, ~tb[f][x].present,
         NEW e \in Entry, e.present, e.addr = FirstFree(a),
         NEW tc, WithPage(tc, tb, f, x, e, FirstFree(a))
  PROVE  LET new == FirstFree(a)
         IN  /\ Sound(Reserve(a), tc, Grown(T, lev, f, new), Placed(lev, f, new))
             /\ Extends(T, tb, tc)
  <1> DEFINE new == FirstFree(a)
             b == Reserve(a)
             U == Grown(T, lev, f, new)
             l == Placed(lev, f, new)
  <1>0. a \in Allocator /\ Counted(a) /\ Frames(a, tb, T, lev) /\ lev \in [Bit -> 0 .. Levels - 1]
    BY DEF Sound, Frames
  <1>1. new \in Bit /\ new \notin a.reserved
    BY <1>0, FirstFreeClear
  <1>2. b \in Allocator /\ Counted(b) /\ b.reserved = a.reserved \cup {new}
    BY <1>0, ReserveIs
  <1>3. /\ new \notin T /\ U \subseteq T \cup {new} /\ T \subseteq U
        /\ new \in U <=> lev[f] # Levels - 1
        /\ l \in [Bit -> 0 .. Levels - 1]
        /\ \A t \in T : l[t] = lev[t]
        /\ lev[f] # Levels - 1 => l[new] = lev[f] + 1
    <2>1. GrowsTo(T, lev, f, new, U, l)
      BY <1>0, <1>1, GrownIs, Zenon
    <2> QED
      BY <2>1, Zenon DEF GrowsTo
  <1>4. /\ T \subseteq a.reserved /\ T \subseteq Bit /\ Root \in T /\ lev[Root] = 0
    BY <1>0, TablesAreFrames DEF Frames
  <1> HIDE DEF new, b, U, l
  <1>5. /\ tc \in Tables
        /\ \A t \in T, y \in Index : tc[t][y] = IF t = f /\ y = x THEN e ELSE tb[t][y]
        /\ \A y \in Index : tc[new][y] = ZERO
    <2>1. \A t \in T : t # new /\ t \in Bit
      BY <1>3, <1>4
    <2> QED
      BY <1>1, <2>1 DEF WithPage, new
  <1>6. Frames(b, tc, U, l)
    <2>1. U \subseteq b.reserved
      BY <1>2, <1>3, <1>4
    <2>2. Root \in U /\ l[Root] = 0
      BY <1>3, <1>4
    <2> QED
      BY <1>2, <1>3, <1>5, <2>1, <2>2 DEF Frames
  <1>7. \A t \in U, y \in Index : tc[t][y].present => t \in T
    BY <1>3, <1>5, EntryTypes
  <1>8. \A t \in T, y \in Index : tb[t][y].present => Refers(a, tb, T, lev, t, y)
    BY DEF Sound
  <1>9. ASSUME NEW t \in T, NEW y \in Index, tc[t][y].present
        PROVE  Refers(b, tc, U, l, t, y)
    <2>1. CASE t = f /\ y = x
      <3>1. tc[t][y].addr = new
        BY <1>5, <2>1 DEF new
      <3>2. new \in b.reserved \ {Root}
        BY <1>1, <1>2, <1>4
      <3> QED
        BY <1>3, <2>1, <3>1, <3>2 DEF Refers
    <2>2. CASE ~(t = f /\ y = x)
      <3>1. tc[t][y] = tb[t][y]
        BY <1>5, <2>2
      <3> DEFINE c == tb[t][y].addr
      <3>2. Refers(a, tb, T, lev, t, y)
        BY <1>8, <1>9, <3>1
      <3>3. /\ c \in a.reserved \ {Root}
            /\ lev[t] = Levels - 1 => c \notin T
            /\ lev[t] # Levels - 1 => c \in T /\ lev[c] = lev[t] + 1
        BY <3>2 DEF Refers
      <3>4. c # new
        BY <1>1, <3>3
      <3> HIDE DEF c
      <3>5. /\ c \in b.reserved \ {Root}
            /\ lev[t] = Levels - 1 => c \notin U
            /\ lev[t] # Levels - 1 => c \in U /\ l[c] = lev[t] + 1
        BY <1>2, <1>3, <3>3, <3>4
      <3> QED
        BY <1>3, <3>1, <3>5 DEF Refers, c
    <2> QED
      BY <2>1, <2>2
  <1>10. OneReference(tc, U)
    <2> SUFFICES ASSUME NEW t \in U, NEW u \in U, NEW y \in Index, NEW z \in Index,
                        tc[t][y].present, tc[u][z].present, tc[t][y].addr = tc[u][z].addr
                 PROVE  t = u /\ y = z
      BY DEF OneReference
    <2>1. t \in T /\ u \in T
      BY <1>7
    <2>2. ASSUME NEW r \in T, NEW v \in Index, ~(r = f /\ v = x), tc[r][v].present
          PROVE  tc[r][v] = tb[r][v] /\ tc[r][v].addr # new
      <3>1. tc[r][v] = tb[r][v]
        BY <1>5, <2>2
      <3>2. Refers(a, tb, T, lev, r, v)
        BY <1>8, <2>2, <3>1
      <3> QED
        BY <1>1, <3>1, <3>2 DEF Refers
    <2>3. tc[f][x].addr = new
      BY <1>5 DEF new
    <2>4. CASE t = f /\ y = x
      BY <2>1, <2>2, <2>3, <2>4
    <2>5. CASE u = f /\ z = x
      BY <2>1, <2>2, <2>3, <2>5
    <2>6. CASE ~(t = f /\ y = x) /\ ~(u = f /\ z = x)
      <3>1. tc[t][y] = tb[t][y] /\ tc[u][z] = tb[u][z]
        BY <2>1, <2>2, <2>6
      <3> QED
        BY <2>1, <3>1 DEF Sound, OneReference
    <2> QED
      BY <2>4, <2>5, <2>6
  <1>11. Extends(T, tb, tc)
    BY <1>5 DEF Extends
  <1>12. \A t \in U, y \in Index : tc[t][y].present => Refers(b, tc, U, l, t, y)
    BY <1>7, <1>9
  <1>13. Sound(b, tc, U, l)
    BY <1>6, <1>10, <1>12 DEF Sound
  <1> QED
    BY <1>11, <1>13 DEF b, U, l, new

\* The tables after an entry of f has been set.
WithEntry(tc, tb, f, x, e) ==
  /\ tc \in Tables
  /\ \A t \in Bit, y \in Index : tc[t][y] = IF t = f /\ y = x THEN e ELSE tb[t][y]

\* The frame that an entry refers to is freed and the entry cleared; if the
\* frame was a table, it is one no longer.
LEMMA FreeKeeps ==
  ASSUME NEW a, NEW tb, NEW T, NEW lev, Sound(a, tb, T, lev),
         NEW f \in T, NEW x \in Index, tb[f][x].present,
         NEW e \in Entry, ~e.present, NEW tc, WithEntry(tc, tb, f, x, e)
  PROVE  Sound(Free(a, tb[f][x].addr), tc, T \ {tb[f][x].addr}, lev)
  <1> DEFINE old == tb[f][x].addr
             b == Free(a, old)
             U == T \ {old}
  <1>0. a \in Allocator /\ Counted(a) /\ Frames(a, tb, T, lev) /\ tb \in Tables
    BY DEF Sound, Frames
  <1>1. \A t \in T, y \in Index : tb[t][y].present => Refers(a, tb, T, lev, t, y)
    BY DEF Sound
  <1>2. old \in a.reserved \ {Root} /\ old \in Bit
    BY <1>0, <1>1, TablesAreFrames DEF Refers
  <1> HIDE DEF old
  <1>3. b \in Allocator /\ Counted(b) /\ b.reserved = a.reserved \ {old}
    BY <1>0, <1>2, FreeIs DEF Counted
  <1>4. /\ T \subseteq a.reserved /\ T \subseteq Bit /\ Root \in T /\ lev[Root] = 0
        /\ lev \in [Bit -> 0 .. Levels - 1]
    BY <1>0, TablesAreFrames DEF Frames
  <1> HIDE DEF b
  <1>5. tc \in Tables /\ \A t \in T, y \in Index : tc[t][y] = IF t = f /\ y = x THEN e ELSE tb[t][y]
    BY <1>4 DEF WithEntry
  <1>6. Frames(b, tc, U, lev)
    BY <1>2, <1>3, <1>4, <1>5 DEF Frames
  <1>7. ASSUME NEW t \in U, NEW y \in Index, tc[t][y].present
        PROVE  tc[t][y] = tb[t][y] /\ tb[t][y].addr # old
    <2>1. ~(t = f /\ y = x) /\ tc[t][y] = tb[t][y]
      BY <1>5, <1>7
    <2> QED
      BY <1>7, <2>1 DEF Sound, OneReference, old
  <1>8. ASSUME NEW t \in U, NEW y \in Index, tc[t][y].present
        PROVE  Refers(b, tc, U, lev, t, y)
    <2>1. tc[t][y] = tb[t][y] /\ tb[t][y].addr # old
      BY <1>7, <1>8
    <2>2. Refers(a, tb, T, lev, t, y)
      BY <1>1, <1>8, <2>1
    <2> QED
      BY <1>3, <2>1, <2>2 DEF Refers
  <1>9. OneReference(tc, U)
    <2> SUFFICES ASSUME NEW t \in U, NEW u \in U, NEW y \in Index, NEW z \in Index,
                        tc[t][y].present, tc[u][z].present, tc[t][y].addr = tc[u][z].addr
                 PROVE  t = u /\ y = z
      BY DEF OneReference
    <2>1. tc[t][y] = tb[t][y] /\ tc[u][z] = tb[u][z]
      BY <1>7
    <2> QED
      BY <2>1 DEF Sound, OneReference
  <1>10. Sound(b, tc, U, lev)
    BY <1>6, <1>8, <1>9, Zenon DEF Sound
  <1> QED
    BY <1>10 DEF b, old

\* The flags of an entry are changed.
LEMMA FlagsKeep ==
  ASSUME NEW a, NEW tb, NEW T, NEW lev, Sound(a, tb, T, lev),
         NEW f \in T, NEW x \in Index, tb[f][x].present,
         NEW e \in Entry, e.present, e.addr = tb[f][x].addr,
         NEW tc, WithEntry(tc, tb, f, x, e)
  PROVE  Sound(a, tc, T, lev)
  <1>0. Frames(a, tb, T, lev) /\ T \subseteq Bit
    BY TablesAreFrames DEF Sound
  <1>1. /\ tc \in Tables
        /\ \A t \in T, y \in Index : tc[t][y].present <=> tb[t][y].present
        /\ \A t \in T, y \in Index : tc[t][y].addr = tb[t][y].addr
    BY <1>0 DEF WithEntry
  <1>2. Frames(a, tc, T, lev)
    BY <1>0, <1>1 DEF Frames
  <1>3. \A t \in T, y \in Index : tc[t][y].present => Refers(a, tc, T, lev, t, y)
    <2> TAKE t \in T, y \in Index
    <2> HAVE tc[t][y].present
    <2>1. Refers(a, tb, T, lev, t, y)
      BY <1>1 DEF Sound
    <2> QED
      BY <1>1, <2>1 DEF Refers
  <1>4. OneReference(tc, T)
    BY <1>1 DEF Sound, OneReference
  <1> QED
    BY <1>2, <1>3, <1>4 DEF Sound

\* A walk goes through tables, level by level.
LEMMA WalkInTables ==
  ASSUME NEW a, NEW tb, NEW T, NEW lev, Sound(a, tb, T, lev), NEW va \in Nat
  PROVE  \A i \in 0 .. Levels - 1 :
           Walk(tb, va)[i] # None => Walk(tb, va)[i] \in T /\ lev[Walk(tb, va)[i]] = i
  <1> DEFINE w == Walk(tb, va)
             S == {i \in 0 .. Levels - 1 : w[i] # None => w[i] \in T /\ lev[w[i]] = i}
  <1>0. tb \in Tables /\ Root \in T /\ lev[Root] = 0 /\ Levels - 1 \in Nat
    BY LevelsAssumption DEF Sound, Frames
  <1>1. 0 \in S
    <2>1. w[0] = Root
      BY <1>0, WalkSteps
    <2> QED
      BY <1>0, <2>1
  <1>2. ASSUME NEW i \in 1 .. Levels - 1, i - 1 \in S PROVE i \in S
    <2>1. /\ i - 1 \in 0 .. Levels - 1 /\ i \in 0 .. Levels - 1
          /\ (i - 1) + 1 = i /\ i - 1 # Levels - 1
      BY LevelsAssumption
    <2> SUFFICES ASSUME w[i] # None PROVE w[i] \in T /\ lev[w[i]] = i
      BY <2>1
    <2> DEFINE e == tb[w[i - 1]][IndexAt(va, i - 1)]
    <2>2. w[i - 1] # None /\ e.present /\ w[i] = e.addr
      BY <1>0, <2>1, WalkGoes
    <2>3. w[i - 1] \in T /\ lev[w[i - 1]] = i - 1
      BY <1>2, <2>2
    <2>4. IndexAt(va, i - 1) \in Index
      BY <2>1, IndexType
    <2>5. Refers(a, tb, T, lev, w[i - 1], IndexAt(va, i - 1))
      BY <2>2, <2>3, <2>4 DEF Sound
    <2> HIDE DEF w
    <2> QED
      BY <2>1, <2>2, <2>3, <2>5, Zenon DEF Refers
  <1>3. S = 0 .. Levels - 1
    <2>1. S \in SUBSET (0 .. Levels - 1)
      OBVIOUS
    <2> HIDE DEF S
    <2> QED
      BY <1>0, <1>1, <1>2, <2>1, RangeInduction
  <1> QED
    BY <1>3

-----------------------------------------------------------------------------
\* The descent to the last level.  An iteration keeps the types.
LEMMA ParentType ==
  ASSUME NEW s \in LoopState, NEW va \in Nat, NEW i \in 0 .. Levels - 1
  PROVE  Parent(s, va, i) \in LoopState
  <1> DEFINE x == IndexAt(va, i)
             e == s.tables[s.f][x]
             new == FirstFree(s.al)
             added == AddPage(s, x, TRUE, TRUE)
             more == added.created \cup {new}
  <1>1. x \in Index
    BY IndexType
  <1>2. s.al \in Allocator /\ s.tables \in Tables /\ s.f \in Bit /\ s.created \in SUBSET Bit
    BY DEF LoopState
  <1>3. e.addr \in Bit
    BY <1>1, <1>2, EntryFields
  <1> HIDE DEF x
  <1>4. [s EXCEPT !.f = e.addr] \in LoopState
    <2> HIDE DEF e
    <2> QED
      BY <1>3, Zenon DEF LoopState
  <1>5. [s EXCEPT !.result = "OutOfMemory"] \in LoopState
    BY Zenon DEF LoopState, Results
  <1>6. ASSUME HasFree(s.al)
        PROVE  [added EXCEPT !.f = new, !.created = more] \in LoopState
    <2>1. new \in Bit
      BY <1>2, <1>6, FirstFreeClear
    <2>2. added \in LoopState /\ added.created = s.created
      BY <1>1, <1>6, AddPageIs, Zenon
    <2>3. more \in SUBSET Bit
      BY <1>2, <2>1, <2>2, Zenon
    <2> HIDE DEF added, more, new
    <2> QED
      BY <2>1, <2>2, <2>3, Zenon DEF LoopState
  <1>7. Parent(s, va, i) \in {s, [s EXCEPT !.f = e.addr], [s EXCEPT !.result = "OutOfMemory"]}
        \/ (HasFree(s.al) /\ Parent(s, va, i) = [added EXCEPT !.f = new, !.created = more])
    BY DEF Parent, x
  <1> HIDE DEF e, added, more, new
  <1> QED
    BY <1>4, <1>5, <1>6, <1>7

Descent(at, s, va) ==
  /\ at \in [0 .. Levels - 1 -> LoopState]
  /\ at[0] = s
  /\ \A i \in 1 .. Levels - 1 : at[i] = Parent(at[i - 1], va, i - 1)

\* Parents is what the iterations lead to, one after the other.
LEMMA ParentsTrace ==
  ASSUME NEW s \in LoopState, NEW va \in Nat
  PROVE  \E at : Descent(at, s, va) /\ Parents(s, va) = at[Levels - 1]
  <1> DEFINE n == Levels - 1
             step == [i \in 1 .. n |-> [u \in LoopState |-> Parent(u, va, i - 1)]]
             Is(f) == f = [i \in 0 .. n |-> IF i = 0 THEN s ELSE Parent(f[i - 1], va, i - 1)]
             g == CHOOSE f : Is(f)
  <1>0. n \in Nat /\ \A i \in 1 .. n : i - 1 \in 0 .. n /\ i \in 0 .. n /\ i # 0
    BY LevelsAssumption
  <1>1. step \in [1 .. n -> [LoopState -> LoopState]]
    BY <1>0, ParentType
  <1>2. \A i \in 1 .. n, u \in LoopState : step[i][u] = Parent(u, va, i - 1)
    OBVIOUS
  <1> HIDE DEF step
  <1>3. PICK f : IsTrace(f, LoopState, n, s, step)
    BY <1>0, <1>1, Iteration, Zenon
  <1>4. /\ f \in [0 .. n -> LoopState] /\ f[0] = s
        /\ \A i \in 1 .. n : f[i] = step[i][f[i - 1]]
    BY <1>3, Zenon DEF IsTrace
  <1>5. \A i \in 0 .. n : f[i] = IF i = 0 THEN s ELSE Parent(f[i - 1], va, i - 1)
    <2> TAKE i \in 0 .. n
    <2>1. CASE i = 0
      BY <1>4, <2>1
    <2>2. CASE i # 0
      <3>1. i \in 1 .. n /\ i - 1 \in 0 .. n
        BY <1>0, <2>2
      <3>2. f[i - 1] \in LoopState
        BY <1>4, <3>1
      <3> QED
        BY <1>2, <1>4, <2>2, <3>1, <3>2
    <2> QED
      BY <2>1, <2>2
  <1>6. Is(f)
    BY <1>4, <1>5
  <1>7. Is(g)
    BY <1>6, Zenon
  <1>8. Parents(s, va) = g[n]
    BY DEF Parents
  <1> HIDE DEF g
  <1>9. g = [i \in 0 .. n |-> g[i]] /\ g[0] = s
    BY <1>0, <1>7
  <1>10. \A i \in 1 .. n : g[i] = Parent(g[i - 1], va, i - 1)
    BY <1>0, <1>7, Zenon
  <1>11. \A i \in 1 .. n : g[i - 1] \in LoopState => g[i] = step[i][g[i - 1]]
    BY <1>2, <1>10
  <1> HIDE DEF n
  <1>12. IsTrace(g, LoopState, n, s, step)
    BY <1>0, <1>1, <1>9, <1>11, TraceOf, Zenon
  <1>13. Descent(g, s, va)
    BY <1>9, <1>10, <1>12, Zenon DEF Descent, IsTrace, n
  <1> QED
    BY <1>8, <1>13 DEF n

\* Whether an operation has come to a table of the level i, from the tables tb
\* and the set T of them.
Descends(T, tb, s, i) ==
  /\ s \in LoopState
  /\ Extends(T, tb, s.tables)
  /\ \E U, lev : /\ Sound(s.al, s.tables, U, lev) /\ T \subseteq U
                 /\ s.result = "Ok" => s.f \in U /\ lev[s.f] = i

\* What is kept twice is kept.
LEMMA ExtendsOn ==
  ASSUME NEW T, NEW U, T \subseteq U, NEW tb, NEW tc, NEW td, Extends(T, tb, tc), Extends(U, tc, td)
  PROVE  Extends(T, tb, td)
  BY DEF Extends

\* An iteration goes to a table of the next level and keeps the tables sound.
LEMMA ParentKeeps ==
  ASSUME NEW T, NEW tb, NEW s, NEW va \in Nat, NEW i \in 0 .. Levels - 2, Descends(T, tb, s, i)
  PROVE  Descends(T, tb, Parent(s, va, i), i + 1)
  <1> DEFINE x == IndexAt(va, i)
             e == s.tables[s.f][x]
             new == FirstFree(s.al)
             p == Parent(s, va, i)
  <1> SUFFICES Descends(T, tb, p, i + 1)
    OBVIOUS
  <1>0. i \in 0 .. Levels - 1 /\ i # Levels - 1
    BY LevelsAssumption
  <1>1. s \in LoopState /\ p \in LoopState /\ Extends(T, tb, s.tables)
    BY <1>0, ParentType DEF Descends
  <1>2. PICK U, lev : /\ Sound(s.al, s.tables, U, lev) /\ T \subseteq U
                      /\ s.result = "Ok" => s.f \in U /\ lev[s.f] = i
    BY DEF Descends
  <1>3. CASE s.result # "Ok"
    <2>1. p = s
      BY <1>3 DEF Parent
    <2> QED
      BY <1>1, <1>2, <1>3, <2>1 DEF Descends
  <1>4. CASE s.result = "Ok" /\ e.present
    <2>1. p = [s EXCEPT !.f = e.addr]
      BY <1>4 DEF Parent
    <2>2. p.al = s.al /\ p.tables = s.tables /\ p.result = s.result /\ p.f = e.addr
      BY <1>1, <2>1 DEF LoopState
    <2>3. x \in Index
      BY <1>0, IndexType
    <2>4. Refers(s.al, s.tables, U, lev, s.f, x)
      BY <1>2, <1>4, <2>3 DEF Sound
    <2>5. e.addr \in U /\ lev[e.addr] = i + 1
      BY <1>0, <1>2, <1>4, <2>4, Zenon DEF Refers
    <2> HIDE DEF p, e
    <2> QED
      BY <1>1, <1>2, <2>2, <2>5 DEF Descends
  <1>5. CASE s.result = "Ok" /\ ~e.present /\ ~HasFree(s.al)
    <2>1. p = [s EXCEPT !.result = "OutOfMemory"]
      BY <1>5 DEF Parent
    <2>2. p.al = s.al /\ p.tables = s.tables /\ p.result = "OutOfMemory"
      BY <1>1, <2>1 DEF LoopState
    <2> HIDE DEF p, e
    <2> QED
      BY <1>1, <1>2, <2>2 DEF Descends
  <1>6. CASE s.result = "Ok" /\ ~e.present /\ HasFree(s.al)
    <2> DEFINE added == AddPage(s, x, TRUE, TRUE)
               d == EntryOf(TRUE, ~TRUE, new)
               V == Grown(U, lev, s.f, new)
               l == Placed(lev, s.f, new)
    <2>1. p = [added EXCEPT !.f = new, !.created = @ \cup {new}]
      BY <1>6 DEF Parent
    <2>2. x \in Index /\ s.al \in Allocator
      BY <1>0, <1>1, IndexType DEF LoopState
    <2>3. new \in Bit /\ new \notin s.al.reserved
      BY <1>6, <2>2, FirstFreeClear
    <2>4. /\ added \in LoopState /\ added.al = Reserve(s.al) /\ added.result = s.result
          /\ WithPage(added.tables, s.tables, s.f, x, d, new)
      BY <1>1, <1>6, <2>2, AddPageIs, Zenon
    <2>5. d \in Entry /\ d.present /\ d.addr = new
      BY <2>3, EntryTypes, Zenon
    <2> HIDE DEF added, d, x
    <2>6. p.al = Reserve(s.al) /\ p.tables = added.tables /\ p.result = "Ok" /\ p.f = new
      BY <1>6, <2>1, <2>4 DEF LoopState
    <2>7. Sound(Reserve(s.al), added.tables, V, l) /\ Extends(U, s.tables, added.tables)
      BY <1>2, <1>6, <2>2, <2>4, <2>5, AddKeeps, ZenonT(60)
    <2>8. GrowsTo(U, lev, s.f, new, V, l)
      BY <1>2, <1>6, <2>3, GrownIs, ZenonT(60) DEF Sound
    <2> HIDE DEF p, V, l, new
    <2>9. T \subseteq V /\ new \in V /\ l[new] = i + 1
      <3>1. lev[s.f] = i /\ lev[s.f] # Levels - 1 /\ T \subseteq U
        BY <1>0, <1>2, <1>6, Zenon
      <3>2. new \in V /\ U \subseteq V /\ l[new] = lev[s.f] + 1
        BY <2>8, <3>1, Zenon DEF GrowsTo
      <3> QED
        BY <3>1, <3>2, Zenon
    <2>10. Extends(T, tb, added.tables)
      BY <1>1, <1>2, <2>7, ExtendsOn
    <2> QED
      BY <1>1, <2>6, <2>7, <2>9, <2>10 DEF Descends
  <1> QED
    BY <1>1, <1>3, <1>4, <1>5, <1>6

\* So do all iterations, down to a table of the last level.
LEMMA ParentsKeep ==
  ASSUME NEW T, NEW tb, NEW s, NEW va \in Nat, Descends(T, tb, s, 0)
  PROVE  Descends(T, tb, Parents(s, va), Levels - 1)
  <1>0. s \in LoopState /\ Levels - 1 \in Nat
    BY LevelsAssumption DEF Descends
  <1>1. PICK at : Descent(at, s, va) /\ Parents(s, va) = at[Levels - 1]
    BY <1>0, ParentsTrace
  <1> DEFINE S == {i \in 0 .. Levels - 1 : Descends(T, tb, at[i], i)}
  <1>2. 0 \in S
    BY <1>0, <1>1 DEF Descent
  <1>3. ASSUME NEW i \in 1 .. Levels - 1, i - 1 \in S PROVE i \in S
    <2>1. i - 1 \in 0 .. Levels - 2 /\ (i - 1) + 1 = i /\ i \in 0 .. Levels - 1
      BY LevelsAssumption
    <2>2. at[i] = Parent(at[i - 1], va, i - 1)
      BY <1>1 DEF Descent
    <2>3. Descends(T, tb, Parent(at[i - 1], va, i - 1), (i - 1) + 1)
      BY <1>3, <2>1, ParentKeeps
    <2> QED
      BY <2>1, <2>2, <2>3
  <1>4. S = 0 .. Levels - 1
    <2>1. S \in SUBSET (0 .. Levels - 1)
      OBVIOUS
    <2> HIDE DEF S
    <2> QED
      BY <1>0, <1>2, <1>3, <2>1, RangeInduction
  <1>5. Levels - 1 \in S
    BY <1>0, <1>4
  <1> QED
    BY <1>1, <1>5

-----------------------------------------------------------------------------
\* map_blank_page.
Healthy(a, tb) == \E T, lev : Sound(a, tb, T, lev)

\* The result of the descent has the type of a state of an operation.
LEMMA ParentsType ==
  ASSUME NEW s \in LoopState, NEW va \in Nat
  PROVE  Parents(s, va) \in LoopState
  <1>1. Levels - 1 \in 0 .. Levels - 1
    BY LevelsAssumption
  <1>2. PICK at : Descent(at, s, va) /\ Parents(s, va) = at[Levels - 1]
    BY ParentsTrace
  <1> QED
    BY <1>1, <1>2 DEF Descent

\* There is a last level, and every page has an index in it.
LEMMA LastLevel ==
  Levels - 1 \in 0 .. Levels - 1 /\ \A va \in Nat : IndexAt(va, Levels - 1) \in Index
  <1>1. Levels - 1 \in 0 .. Levels - 1
    BY LevelsAssumption
  <1> QED
    BY <1>1, IndexType

\* The result of map_blank_page has the type of a state of an operation.
LEMMA MapBlankType ==
  ASSUME NEW s \in LoopState, NEW va \in Nat, NEW w \in BOOLEAN
  PROVE  /\ MapBlankPage(s, va, w) \in LoopState
         /\ MapBlankPage(s, va, w).result \in {"Ok", "OutOfMemory", "PageAlreadyExists"}
  <1> DEFINE p == Parents(s, va)
             x == IndexAt(va, Levels - 1)
             freed == FreeAll(p.al, p.created)
             n == p.count + 1 - Cardinality(p.created)
             exists == [p EXCEPT !.result = "PageAlreadyExists"]
             back == [p EXCEPT !.al = freed, !.count = n, !.result = "OutOfMemory"]
  <1>1. p \in LoopState /\ x \in Index
    BY ParentsType, LastLevel
  <1>2. MapBlankPage(s, va, w) \in {exists, back}
        \/ (HasFree(p.al) /\ p.result = "Ok" /\ MapBlankPage(s, va, w) = AddPage(p, x, w, FALSE))
    BY Zenon DEF MapBlankPage
  <1> HIDE DEF p, x
  <1>3. p.al \in Allocator /\ p.created \in SUBSET Bit /\ p.count \in Int
    BY <1>1 DEF LoopState
  <1>4. freed \in Allocator
    BY <1>3, FreeAllIs
  <1>5. n \in Int
    <2>1. Cardinality(p.created) \in Nat
      BY <1>3, BitFinite, FS_CardinalityType
    <2> QED
      BY <1>3, <2>1
  <1> HIDE DEF freed, n
  <1>6. exists \in LoopState /\ back \in LoopState
    BY <1>1, <1>4, <1>5, Zenon DEF LoopState, Results
  <1>7. exists.result = "PageAlreadyExists" /\ back.result = "OutOfMemory"
    BY <1>1 DEF LoopState
  <1>8. HasFree(p.al) => LET u == AddPage(p, x, w, FALSE) IN u \in LoopState /\ u.result = p.result
    BY <1>1, AddPageIs, Zenon
  <1> HIDE DEF back, exists
  <1> QED
    BY <1>2, <1>6, <1>7, <1>8, Zenon

\* map_blank_page, unless it runs out of memory, keeps the tables sound and what
\* is mapped.
LEMMA MapBlankKeeps ==
  ASSUME NEW T, NEW tb, NEW s, Descends(T, tb, s, 0), NEW va \in Nat, NEW w \in BOOLEAN
  PROVE  LET u == MapBlankPage(s, va, w)
         IN  Extends(T, tb, u.tables) /\ (u.result = "Ok" => Healthy(u.al, u.tables))
  <1> DEFINE p == Parents(s, va)
             x == IndexAt(va, Levels - 1)
             back == [p EXCEPT !.al = FreeAll(p.al, p.created),
                               !.count = p.count + 1 - Cardinality(p.created),
                               !.result = "OutOfMemory"]
             added == AddPage(p, x, w, FALSE)
             new == FirstFree(p.al)
             e == EntryOf(w, ~FALSE, new)
             u == MapBlankPage(s, va, w)
  <1>1. Descends(T, tb, p, Levels - 1) /\ x \in Index
    BY ParentsKeep, LastLevel
  <1>2. u \in {[p EXCEPT !.result = "PageAlreadyExists"], back}
        \/ (p.result = "Ok" /\ ~p.tables[p.f][x].present /\ HasFree(p.al) /\ u = added)
    BY Zenon DEF MapBlankPage
  <1> HIDE DEF p, x, u
  <1>3. p \in LoopState /\ Extends(T, tb, p.tables) /\ p.al \in Allocator
    BY <1>1 DEF Descends, LoopState
  <1>4. CASE u = [p EXCEPT !.result = "PageAlreadyExists"] \/ u = back
    <2>1. u.tables = p.tables /\ u.result # "Ok"
      BY <1>3, <1>4, Zenon DEF LoopState
    <2> QED
      BY <1>3, <2>1 DEF u
  <1>5. CASE p.result = "Ok" /\ ~p.tables[p.f][x].present /\ HasFree(p.al) /\ u = added
    <2>1. PICK U, lev : /\ Sound(p.al, p.tables, U, lev) /\ T \subseteq U
                        /\ p.f \in U /\ lev[p.f] = Levels - 1
      BY <1>1, <1>5 DEF Descends
    <2>2. new \in Bit /\ new \notin p.al.reserved
      BY <1>3, <1>5, FirstFreeClear
    <2>3. added.al = Reserve(p.al) /\ WithPage(added.tables, p.tables, p.f, x, e, new)
      BY <1>1, <1>3, <1>5, AddPageIs, Zenon
    <2>4. e \in Entry /\ e.present /\ e.addr = new
      BY <2>2, EntryTypes, Zenon
    <2> DEFINE V == Grown(U, lev, p.f, new)
               l == Placed(lev, p.f, new)
    <2> HIDE DEF added, e
    <2>5. Sound(Reserve(p.al), added.tables, V, l) /\ Extends(U, p.tables, added.tables)
      BY <1>1, <1>5, <2>1, <2>3, <2>4, AddKeeps, Zenon
    <2> HIDE DEF V, l
    <2>6. Extends(T, tb, added.tables)
      BY <1>3, <2>1, <2>5, ExtendsOn
    <2>7. Healthy(added.al, added.tables)
      BY <2>3, <2>5 DEF Healthy
    <2> QED
      BY <1>5, <2>6, <2>7 DEF u
  <1> QED
    BY <1>2, <1>4, <1>5, Zenon

-----------------------------------------------------------------------------
\* unmap_page.  What freeing an entry makes of the state of an operation.
LEMMA FreeEntryIs ==
  ASSUME NEW s \in LoopState, NEW f \in Bit, NEW x \in Index
  PROVE  LET u == FreeEntry(s, f, x)
         IN  /\ u \in LoopState /\ u.al = Free(s.al, s.tables[f][x].addr)
             /\ WithEntry(u.tables, s.tables, f, x, ZERO)
  <1> DEFINE u == FreeEntry(s, f, x)
             b == Free(s.al, s.tables[f][x].addr)
             tc == [s.tables EXCEPT ![f][x] = ZERO]
             n == s.count + 1
  <1>1. s.al \in Allocator /\ s.tables \in Tables /\ n \in Int
    BY DEF LoopState
  <1>2. b \in Allocator
    BY <1>1, EntryFields, FreeIs
  <1>3. WithEntry(tc, s.tables, f, x, ZERO)
    BY <1>1, EntryTypes DEF WithEntry, Tables
  <1>4. u = [s EXCEPT !.al = b, !.tables = tc, !.count = n]
    BY DEF FreeEntry
  <1> HIDE DEF u, b, tc, n
  <1>5. u \in LoopState /\ u.al = b /\ u.tables = tc
    BY <1>1, <1>2, <1>3, <1>4, Zenon DEF LoopState, WithEntry
  <1> QED
    BY <1>3, <1>5 DEF u, b

\* Entries are kept or cleared.
Zeroed(tb, tc) ==
  \A t \in Bit, y \in Index : tc[t][y] = tb[t][y] \/ ~tc[t][y].present

\* An entry that is freed is cleared, and the others stay kept or cleared.
LEMMA FreeEntryZeroes ==
  ASSUME NEW s \in LoopState, NEW f \in Bit, NEW x \in Index, NEW tb, Zeroed(tb, s.tables)
  PROVE  Zeroed(tb, FreeEntry(s, f, x).tables)
  <1>1. WithEntry(FreeEntry(s, f, x).tables, s.tables, f, x, ZERO)
    BY FreeEntryIs
  <1> QED
    BY <1>1, EntryTypes DEF Zeroed, WithEntry

Ascent(up, s, va) ==
  /\ up \in [0 .. Levels -> {u \in LoopState : Zeroed(s.tables, u.tables)}]
  /\ up[0] = s
  /\ \A n \in 1 .. Levels :
       up[n] = FreeEntry(up[n - 1], Walk(s.tables, va)[Levels - n], IndexAt(va, Levels - n))

\* unmap_page is what its iterations lead to, one after the other.
LEMMA UnmapTrace ==
  ASSUME NEW s \in LoopState, NEW va \in Nat, IsMapped(s.tables, va)
  PROVE  \E up : /\ Ascent(up, s, va)
                 /\ \A depth \in Nat : \E m \in 0 .. Levels : UnmapPage(s, va, depth) = up[m]
  <1> DEFINE S == {u \in LoopState : Zeroed(s.tables, u.tables)}
             w == Walk(s.tables, va)
             To(u, n) == FreeEntry(u, w[Levels - n], IndexAt(va, Levels - n))
             step == [n \in 1 .. Levels |-> [u \in S |-> To(u, n)]]
             Is(f) == f = [n \in 0 .. Levels |-> IF n = 0 THEN s ELSE To(f[n - 1], n)]
             g == CHOOSE f : Is(f)
  <1>0. /\ Levels \in Nat
        /\ \A n \in 1 .. Levels :
             n - 1 \in 0 .. Levels /\ n \in 0 .. Levels /\ n # 0 /\ Levels - n \in 0 .. Levels - 1
    BY LevelsAssumption
  <1>1. s \in S
    BY DEF Zeroed
  <1>2. ASSUME NEW n \in 1 .. Levels, NEW u \in S PROVE To(u, n) \in S
    <2>1. s.tables \in Tables
      BY DEF LoopState
    <2>2. w[Levels - n] \in Bit /\ IndexAt(va, Levels - n) \in Index
      BY <1>0, <2>1, WalkMapped, IndexType DEF OnTheWay
    <2>3. To(u, n) \in LoopState /\ Zeroed(s.tables, To(u, n).tables)
      BY <2>2, FreeEntryIs, FreeEntryZeroes, Zenon
    <2> HIDE DEF To
    <2> QED
      BY <2>3
  <1> HIDE DEF S, To
  <1>3. step \in [1 .. Levels -> [S -> S]]
    BY <1>2
  <1>4. \A n \in 1 .. Levels, u \in S : step[n][u] = To(u, n)
    OBVIOUS
  <1> HIDE DEF step
  <1>5. PICK f : IsTrace(f, S, Levels, s, step)
    BY <1>0, <1>1, <1>3, Iteration, Zenon
  <1>6. f \in [0 .. Levels -> S] /\ f[0] = s /\ \A n \in 1 .. Levels : f[n] = step[n][f[n - 1]]
    BY <1>5, Zenon DEF IsTrace
  <1>7. \A n \in 0 .. Levels : f[n] = IF n = 0 THEN s ELSE To(f[n - 1], n)
    <2> TAKE n \in 0 .. Levels
    <2>1. CASE n = 0
      BY <1>6, <2>1
    <2>2. CASE n # 0
      <3>1. n \in 1 .. Levels /\ n - 1 \in 0 .. Levels
        BY <1>0, <2>2
      <3>2. f[n - 1] \in S
        BY <1>6, <3>1
      <3> QED
        BY <1>4, <1>6, <2>2, <3>1, <3>2
    <2> QED
      BY <2>1, <2>2
  <1>8. Is(f)
    BY <1>6, <1>7
  <1>9. Is(g)
    BY <1>8, Zenon
  <1>10. ASSUME NEW depth \in Nat PROVE \E m \in 0 .. Levels : UnmapPage(s, va, depth) = g[m]
    <2> DEFINE m == IF depth < Levels THEN depth + 1 ELSE Levels
    <2>1. UnmapPage(s, va, depth) = g[m]
      BY DEF UnmapPage, IsMapped, To
    <2>2. m \in 0 .. Levels
      BY <1>0
    <2> HIDE DEF m, g
    <2> QED
      BY <2>1, <2>2
  <1> HIDE DEF g
  <1>11. g = [n \in 0 .. Levels |-> g[n]] /\ g[0] = s
    BY <1>0, <1>9
  <1>12. \A n \in 1 .. Levels : g[n] = To(g[n - 1], n)
    BY <1>0, <1>9, Zenon
  <1>13. \A n \in 1 .. Levels : g[n - 1] \in S => g[n] = step[n][g[n - 1]]
    BY <1>4, <1>12
  <1>14. IsTrace(g, S, Levels, s, step)
    BY <1>0, <1>1, <1>3, <1>11, <1>13, TraceOf, Zenon
  <1>15. Ascent(g, s, va)
    BY <1>11, <1>12, <1>14, Zenon DEF Ascent, IsTrace, S, To
  <1> QED
    BY <1>10, <1>15

\* The tables above those that unmap_page has freed, after n of its iterations.
Climbed(u, w, va, n) ==
  \E T, lev : /\ Sound(u.al, u.tables, T, lev)
              /\ \A i \in 0 .. Levels - 1 - n :
                   w[i] \in T /\ lev[w[i]] = i /\ OnTheWay(u.tables, va, w, i)

\* An iteration of unmap_page frees the entry of a table that is still in use,
\* and leaves the tables above it as they are.
LEMMA FreeEntryClimbs ==
  ASSUME NEW u \in LoopState, NEW w, NEW va \in Nat, NEW n \in 1 .. Levels,
         Climbed(u, w, va, n - 1)
  PROVE  Climbed(FreeEntry(u, w[Levels - n], IndexAt(va, Levels - n)), w, va, n)
  <1> DEFINE j == Levels - n
             f == w[j]
             x == IndexAt(va, j)
             old == u.tables[f][x].addr
             v == FreeEntry(u, f, x)
  <1>0. /\ Levels - 1 - (n - 1) = j /\ j \in 0 .. j /\ j \in 0 .. Levels - 1
        /\ \A i \in 0 .. Levels - 1 - n :
             i \in 0 .. j /\ i \in Int /\ i # j /\ i # j + 1 /\ i \in 0 .. Levels - 1
    BY LevelsAssumption
  <1>1. PICK T, lev : /\ Sound(u.al, u.tables, T, lev)
                      /\ \A i \in 0 .. j :
                           w[i] \in T /\ lev[w[i]] = i /\ OnTheWay(u.tables, va, w, i)
    BY <1>0 DEF Climbed
  <1>2. f \in T /\ lev[f] = j /\ OnTheWay(u.tables, va, w, j)
    BY <1>0, <1>1
  <1>3. f \in Bit /\ x \in Index /\ u.tables[f][x].present
    <2>1. j \in 0 .. Levels - 1
      BY <1>0, Zenon
    <2>2. x \in Index
      BY <2>1, IndexType, Zenon
    <2> QED
      BY <1>2, <2>2, Zenon DEF OnTheWay
  <1> HIDE DEF j, x, f
  <1>4. v \in LoopState /\ v.al = Free(u.al, old) /\ WithEntry(v.tables, u.tables, f, x, ZERO)
    BY <1>3, FreeEntryIs
  <1> HIDE DEF v
  <1>5. Sound(Free(u.al, old), v.tables, T \ {old}, lev)
    <2>1. ZERO \in Entry /\ ~ZERO.present /\ WithEntry(v.tables, u.tables, f, x, ZERO)
      BY <1>4, EntryTypes
    <2> QED
      BY <1>1, <1>2, <1>3, <2>1, FreeKeeps, Zenon
  <1>6. Refers(u.al, u.tables, T, lev, f, x)
    BY <1>1, <1>2, <1>3 DEF Sound
  <1>7. old \in T => lev[old] = j + 1
    BY <1>2, <1>6 DEF Refers
  <1>8. ASSUME NEW i \in 0 .. Levels - 1 - n
        PROVE  w[i] \in T \ {old} /\ lev[w[i]] = i /\ OnTheWay(v.tables, va, w, i)
    <2>1. w[i] \in T /\ lev[w[i]] = i /\ OnTheWay(u.tables, va, w, i) /\ i # j /\ i # j + 1
      BY <1>0, <1>1
    <2>2. w[i] # f /\ w[i] # old
      BY <1>2, <1>7, <2>1
    <2>3. w[i] \in Bit /\ IndexAt(va, i) \in Index
      <3>1. w[i] \in Bit
        BY <2>1, Zenon DEF OnTheWay
      <3>2. i \in 0 .. Levels - 1
        BY <1>0, Zenon
      <3> QED
        BY <3>1, <3>2, IndexType, Zenon
    <2>4. v.tables[w[i]][IndexAt(va, i)] = u.tables[w[i]][IndexAt(va, i)]
      BY <1>4, <2>2, <2>3 DEF WithEntry
    <2> QED
      BY <2>1, <2>2, <2>4, Zenon DEF OnTheWay
  <1>9. Climbed(v, w, va, n)
    <2>1. Sound(v.al, v.tables, T \ {old}, lev)
      BY <1>4, <1>5, Zenon
    <2>2. \A i \in 0 .. Levels - 1 - n :
            w[i] \in T \ {old} /\ lev[w[i]] = i /\ OnTheWay(v.tables, va, w, i)
      BY <1>8, Zenon
    <2> DEFINE S == T \ {old}
    <2>3. Sound(v.al, v.tables, S, lev)
      BY <2>1
    <2>4. \A i \in 0 .. Levels - 1 - n : w[i] \in S /\ lev[w[i]] = i /\ OnTheWay(v.tables, va, w, i)
      BY <2>2
    <2> HIDE DEF S
    <2> QED
      BY <2>3, <2>4, Zenon DEF Climbed
  <1> QED
    BY <1>9 DEF v, f, x, j

\* unmap_page keeps the tables sound, also where the tables that it frees are
\* not empty; whatever the tables are like, it only clears entries.
LEMMA UnmapKeeps ==
  ASSUME NEW s \in LoopState, NEW va \in Nat, NEW depth \in Nat
  PROVE  LET u == UnmapPage(s, va, depth)
         IN  /\ u \in LoopState /\ Zeroed(s.tables, u.tables)
             /\ Healthy(s.al, s.tables) => Healthy(u.al, u.tables)
  <1> DEFINE w == Walk(s.tables, va)
             u == UnmapPage(s, va, depth)
  <1>1. CASE ~IsMapped(s.tables, va)
    <2>1. u = s
      BY <1>1 DEF UnmapPage, IsMapped
    <2> QED
      BY <2>1 DEF Zeroed
  <1>2. CASE IsMapped(s.tables, va)
    <2>1. PICK up : /\ Ascent(up, s, va)
                    /\ \A d \in Nat : \E m \in 0 .. Levels : UnmapPage(s, va, d) = up[m]
      BY <1>2, UnmapTrace
    <2>2. PICK m \in 0 .. Levels : u = up[m]
      BY <2>1
    <2>3. u \in LoopState /\ Zeroed(s.tables, u.tables)
      BY <2>1, <2>2, Zenon DEF Ascent
    <2>4. ASSUME Healthy(s.al, s.tables) PROVE Healthy(u.al, u.tables)
      <3> DEFINE S == {n \in 0 .. Levels : Climbed(up[n], w, va, n)}
      <3>1. 0 \in S
        <4>1. PICK T, lev : Sound(s.al, s.tables, T, lev)
          BY <2>4 DEF Healthy
        <4>2. s.tables \in Tables
          BY DEF LoopState
        <4>3. \A i \in 0 .. Levels - 1 : OnTheWay(s.tables, va, w, i)
          BY <1>2, <4>2, WalkMapped
        <4>4. \A i \in 0 .. Levels - 1 : w[i] \in T /\ lev[w[i]] = i
          BY <4>1, <4>3, WalkInTables, NoneNotBit DEF OnTheWay
        <4>5. Levels - 1 - 0 = Levels - 1 /\ 0 \in 0 .. Levels /\ up[0] = s
          BY <2>1, LevelsAssumption DEF Ascent
        <4> HIDE DEF w
        <4>6. Climbed(s, w, va, 0)
          BY <4>1, <4>3, <4>4, <4>5 DEF Climbed
        <4> QED
          BY <4>5, <4>6
      <3>2. ASSUME NEW n \in 1 .. Levels, n - 1 \in S PROVE n \in S
        <4>1. n \in 0 .. Levels /\ n - 1 \in 0 .. Levels
          BY LevelsAssumption
        <4>2. up[n - 1] \in LoopState
          BY <2>1, <4>1, Zenon DEF Ascent
        <4>3. up[n] = FreeEntry(up[n - 1], w[Levels - n], IndexAt(va, Levels - n))
          BY <2>1 DEF Ascent
        <4>4. Climbed(up[n - 1], w, va, n - 1)
          BY <3>2
        <4> HIDE DEF w
        <4>5. Climbed(up[n], w, va, n)
          BY <4>2, <4>3, <4>4, FreeEntryClimbs
        <4> QED
          BY <4>1, <4>5
      <3>3. S = 0 .. Levels
        <4>1. S \in SUBSET (0 .. Levels)
          OBVIOUS
        <4> HIDE DEF S
        <4> QED
          BY <3>1, <3>2, <4>1, RangeInduction, LevelsAssumption
      <3>4. Climbed(u, w, va, m)
        BY <2>2, <3>3
      <3> HIDE DEF u, w
      <3> QED
        BY <3>4 DEF Climbed, Healthy
    <2> QED
      BY <2>3, <2>4
  <1> QED
    BY <1>1, <1>2

\* The number of tables to check is a number.
LEMMA DepthType ==
  ASSUME NEW va \in Nat, NEW next \in Nat
  PROVE  FreeTableCheckDepth(va, next) \in Nat
  <1> DEFINE S == {i \in 0 .. Levels - 1 : \E j \in 0 .. i : IndexAt(va, j) # IndexAt(next, j)}
  <1>1. IsFiniteSet(0 .. Levels - 1) /\ S \subseteq 0 .. Levels - 1
    BY FS_Interval, LevelsAssumption
  <1> HIDE DEF S
  <1>2. Cardinality(S) \in Nat
    BY <1>1, FS_Subset, FS_CardinalityType, Zenon
  <1> QED
    BY <1>2 DEF FreeTableCheckDepth, S

-----------------------------------------------------------------------------
\* map_mem_copy_from_buffer: an iteration keeps the tables sound.
LEMMA CopyPageKeeps ==
  ASSUME NEW s \in LoopState, NEW va \in Nat, NEW offset, NEW left
  PROVE  LET u == CopyPage(s, va, offset, left)
         IN  u \in LoopState /\ (Healthy(s.al, s.tables) => Healthy(u.al, u.tables))
  <1> DEFINE r == [s EXCEPT !.f = Root]
             p == Parents(r, va)
             x == IndexAt(va, Levels - 1)
             Copied(v) == IF left > PageBytes - offset
                          THEN [v EXCEPT !.result = "copy_from_slice"] ELSE v
             u == CopyPage(s, va, offset, left)
             added == AddPage(p, x, FALSE, FALSE)
             new == FirstFree(p.al)
             e == EntryOf(FALSE, ~FALSE, new)
  <1>1. r \in LoopState /\ r.al = s.al /\ r.tables = s.tables /\ r.f = Root
    BY RootAssumption, Zenon DEF LoopState
  <1> HIDE DEF r
  <1>2. p \in LoopState /\ x \in Index
    BY <1>1, ParentsType, LastLevel
  <1>3. ASSUME Healthy(s.al, s.tables) PROVE \E T : Descends(T, s.tables, p, Levels - 1)
    <2>1. PICK T, lev : Sound(s.al, s.tables, T, lev)
      BY <1>3 DEF Healthy
    <2>2. Root \in T /\ lev[Root] = 0 /\ Extends(T, s.tables, s.tables)
      BY <2>1 DEF Sound, Frames, Extends
    <2>3. Descends(T, s.tables, r, 0)
      BY <1>1, <2>1, <2>2 DEF Descends
    <2> QED
      BY <2>3, ParentsKeep
  <1>4. \/ u \in {p, [p EXCEPT !.result = "OutOfMemory"], Copied(p)}
        \/ p.result = "Ok" /\ ~p.tables[p.f][x].present /\ HasFree(p.al) /\ u = Copied(added)
    BY Zenon DEF CopyPage, r
  <1> HIDE DEF p, x
  <1>5. ASSUME NEW v \in LoopState
        PROVE  /\ Copied(v) \in LoopState /\ Copied(v).al = v.al /\ Copied(v).tables = v.tables
               /\ [v EXCEPT !.result = "OutOfMemory"] \in LoopState
               /\ [v EXCEPT !.result = "OutOfMemory"].al = v.al
               /\ [v EXCEPT !.result = "OutOfMemory"].tables = v.tables
    <2>1. [v EXCEPT !.result = "copy_from_slice"] \in LoopState
      BY Zenon DEF LoopState, Results
    <2>2. [v EXCEPT !.result = "OutOfMemory"] \in LoopState
      BY Zenon DEF LoopState, Results
    <2>3. [v EXCEPT !.result = "copy_from_slice"].al = v.al
          /\ [v EXCEPT !.result = "copy_from_slice"].tables = v.tables
          /\ [v EXCEPT !.result = "OutOfMemory"].al = v.al
          /\ [v EXCEPT !.result = "OutOfMemory"].tables = v.tables
      BY DEF LoopState
    <2> QED
      BY <2>1, <2>2, <2>3
  <1> HIDE DEF Copied
  <1>6. CASE u \in {p, [p EXCEPT !.result = "OutOfMemory"], Copied(p)}
    <2>1. u \in LoopState /\ u.al = p.al /\ u.tables = p.tables
      BY <1>2, <1>5, <1>6, Zenon
    <2>2. ASSUME Healthy(s.al, s.tables) PROVE Healthy(p.al, p.tables)
      BY <1>3, <2>2 DEF Descends, Healthy
    <2> QED
      BY <2>1, <2>2
  <1>7. CASE p.result = "Ok" /\ ~p.tables[p.f][x].present /\ HasFree(p.al) /\ u = Copied(added)
    <2>1. added \in LoopState /\ added.al = Reserve(p.al)
          /\ WithPage(added.tables, p.tables, p.f, x, e, new)
      BY <1>2, <1>7, AddPageIs, Zenon
    <2>2. u \in LoopState /\ u.al = added.al /\ u.tables = added.tables
      BY <1>5, <1>7, <2>1, Zenon
    <2>3. ASSUME Healthy(s.al, s.tables) PROVE Healthy(added.al, added.tables)
      <3>1. PICK T : Descends(T, s.tables, p, Levels - 1)
        BY <1>3, <2>3
      <3>2. PICK U, lev : Sound(p.al, p.tables, U, lev) /\ p.f \in U
        BY <1>7, <3>1 DEF Descends
      <3>3. new \in Bit
        BY <1>2, <1>7, FirstFreeClear DEF LoopState
      <3>4. e \in Entry /\ e.present /\ e.addr = new
        BY <3>3, EntryTypes, Zenon
      <3> HIDE DEF added, e
      <3>5. Sound(Reserve(p.al), added.tables, Grown(U, lev, p.f, new), Placed(lev, p.f, new))
        BY <1>2, <1>7, <2>1, <3>2, <3>4, AddKeeps, ZenonT(60)
      <3> QED
        BY <2>1, <3>5 DEF Healthy
    <2> QED
      BY <2>2, <2>3, Zenon
  <1> QED
    BY <1>4, <1>6, <1>7, Zenon

\* An operation starts from a state of its type.
LEMMA StateType ==
  ASSUME al \in Allocator, tables \in Tables
  PROVE  /\ State \in LoopState /\ State.al = al /\ State.tables = tables
         /\ State.f = Root /\ State.result = "Ok" /\ State.count = 0
  BY RootAssumption DEF State, LoopState, Results

\* What an operation on a range may make of the tables.
Kept == {u \in LoopState : Healthy(al, tables) => Healthy(u.al, u.tables)}

\* So do all iterations.
LEMMA CopyPagesKeep ==
  ASSUME NEW va \in Nat, NEW offset, NEW left, NEW n \in Nat, al \in Allocator, tables \in Tables
  PROVE  CopyPages(va, offset, left, n) \in Kept
  <1> DEFINE To(u, k) == IF k = 1 THEN CopyPage(u, va, offset, left)
                         ELSE CopyPage(u, va + k - 1, 0, 0)
             step == [k \in 1 .. n |-> [u \in Kept |-> To(u, k)]]
             Is(f) == f = [k \in 0 .. n |-> IF k = 0 THEN State
                                            ELSE IF k = 1 THEN CopyPage(f[0], va, offset, left)
                                            ELSE CopyPage(f[k - 1], va + k - 1, 0, 0)]
             g == CHOOSE f : Is(f)
  <1>0. \A k \in 1 .. n : k - 1 \in 0 .. n /\ k \in 0 .. n /\ k # 0 /\ va + k - 1 \in Nat
    OBVIOUS
  <1>1. State \in Kept
    BY StateType DEF Kept
  <1>2. ASSUME NEW k \in 1 .. n, NEW u \in Kept PROVE To(u, k) \in Kept
    <2>1. CopyPage(u, va, offset, left) \in Kept
      BY CopyPageKeeps DEF Kept
    <2>2. CopyPage(u, va + k - 1, 0, 0) \in Kept
      BY <1>0, CopyPageKeeps DEF Kept
    <2> QED
      BY <2>1, <2>2
  <1> HIDE DEF To
  <1>3. step \in [1 .. n -> [Kept -> Kept]]
    BY <1>2
  <1>4. \A k \in 1 .. n, u \in Kept : step[k][u] = To(u, k)
    OBVIOUS
  <1> HIDE DEF step
  <1>5. PICK f : IsTrace(f, Kept, n, State, step)
    BY <1>1, <1>3, Iteration, Zenon
  <1>6. f \in [0 .. n -> Kept] /\ f[0] = State /\ \A k \in 1 .. n : f[k] = step[k][f[k - 1]]
    BY <1>5, Zenon DEF IsTrace
  <1>7. ASSUME NEW k \in 0 .. n
        PROVE  f[k] = IF k = 0 THEN State
                      ELSE IF k = 1 THEN CopyPage(f[0], va, offset, left)
                      ELSE CopyPage(f[k - 1], va + k - 1, 0, 0)
    <2>1. CASE k = 0
      BY <1>6, <2>1
    <2>2. CASE k # 0
      <3>1. k \in 1 .. n /\ k - 1 \in 0 .. n /\ (k = 1 => k - 1 = 0)
        BY <2>2
      <3>2. f[k - 1] \in Kept
        BY <1>6, <3>1
      <3>3. f[k] = To(f[k - 1], k)
        BY <1>4, <1>6, <3>1, <3>2
      <3> QED
        BY <2>2, <3>1, <3>3 DEF To
    <2> QED
      BY <2>1, <2>2
  <1>8. Is(f)
    BY <1>6, <1>7
  <1>9. Is(g)
    BY <1>8, Zenon
  <1>10. CopyPages(va, offset, left, n) = g[n]
    BY DEF CopyPages
  <1> HIDE DEF g
  <1>11. g = [k \in 0 .. n |-> g[k]] /\ g[0] = State
    BY <1>9
  <1>12. \A k \in 1 .. n : g[k] = To(g[k - 1], k)
    <2> TAKE k \in 1 .. n
    <2>1. k \in 0 .. n /\ k # 0 /\ (k = 1 => k - 1 = 0)
      OBVIOUS
    <2>2. g[k] = IF k = 1 THEN CopyPage(g[0], va, offset, left)
                 ELSE CopyPage(g[k - 1], va + k - 1, 0, 0)
      BY <1>9, <2>1, Zenon
    <2> QED
      BY <2>1, <2>2 DEF To
  <1>13. \A k \in 1 .. n : g[k - 1] \in Kept => g[k] = step[k][g[k - 1]]
    BY <1>4, <1>12
  <1>14. IsTrace(g, Kept, n, State, step)
    BY <1>1, <1>3, <1>11, <1>13, TraceOf, Zenon
  <1>15. g \in [0 .. n -> Kept] /\ n \in 0 .. n
    <2>1. g \in [0 .. n -> Kept]
      BY <1>14, Zenon DEF IsTrace
    <2> QED
      BY <2>1
  <1> QED
    BY <1>10, <1>15

-----------------------------------------------------------------------------
\* unmap_mem, change_flags and change_flags_relaxing: an entry that is changed
\* is cleared or still refers to its frame.
Change == {new \in [Bit -> Entry] : \A a \in Bit : new[a].present => new[a].addr = a}

\* An iteration of an operation on a range keeps the tables sound.
LEMMA ChangeLeafKeeps ==
  ASSUME NEW s \in LoopState, NEW va \in Nat, NEW new \in Change
  PROVE  LET u == ChangeLeaf(s, va, new)
         IN  u \in LoopState /\ (Healthy(s.al, s.tables) => Healthy(u.al, u.tables))
  <1> DEFINE f == Walk(s.tables, va)[Levels - 1]
             x == IndexAt(va, Levels - 1)
             e == s.tables[f][x]
             d == new[e.addr]
             tc == [s.tables EXCEPT ![f][x] = d]
             b == IF d.present THEN s.al ELSE Free(s.al, e.addr)
             u == ChangeLeaf(s, va, new)
             v == [s EXCEPT !.tables = tc, !.al = b]
  <1>1. s.al \in Allocator /\ s.tables \in Tables /\ x \in Index
    BY LastLevel DEF LoopState
  <1>2. Levels - 1 \in 0 .. Levels - 1 /\ Levels - 1 \in 0 .. Levels
    BY LevelsAssumption
  <1>3. f \in Frame
    BY <1>1, <1>2, WalkSteps, Zenon
  <1>4. \/ u = s \/ u = [s EXCEPT !.result = "null_table"]
        \/ f # None /\ e.present /\ u = v
    BY Zenon DEF ChangeLeaf
  <1>5. ASSUME NEW a, NEW tb, NEW T, NEW lev, Sound(s.al, s.tables, T, lev), f # None
        PROVE  f \in T
    BY <1>2, <1>5, WalkInTables
  <1> HIDE DEF f, x, u
  <1>6. CASE u = s
    BY <1>6 DEF u
  <1>7. CASE u = [s EXCEPT !.result = "null_table"]
    <2>1. u \in LoopState
      BY <1>7, Zenon DEF LoopState, Results
    <2>2. u.al = s.al /\ u.tables = s.tables
      BY <1>7 DEF LoopState
    <2> QED
      BY <2>1, <2>2 DEF u
  <1>8. CASE f # None /\ e.present /\ u = v
    <2>1. f \in Bit
      BY <1>3, <1>8 DEF Frame
    <2>2. e.addr \in Bit
      BY <1>1, <2>1, EntryFields
    <2>3. d \in Entry /\ (d.present => d.addr = e.addr)
      BY <2>2 DEF Change
    <2>4. b \in Allocator
      BY <1>1, <2>2, FreeIs
    <2> HIDE DEF d
    <2>5. WithEntry(tc, s.tables, f, x, d)
      BY <1>1, <2>1, <2>3 DEF WithEntry, Tables
    <2> HIDE DEF tc
    <2>6. tc \in Tables
      BY <2>5 DEF WithEntry
    <2>7. ASSUME NEW T, NEW lev, Sound(s.al, s.tables, T, lev) PROVE Healthy(b, tc)
      <3>1. f \in T
        BY <1>5, <1>8, <2>7
      <3>2. CASE d.present
        <4>1. Sound(s.al, tc, T, lev)
          BY <1>1, <1>8, <2>3, <2>5, <2>7, <3>1, <3>2, FlagsKeep
        <4> QED
          BY <3>2, <4>1 DEF Healthy
      <3>3. CASE ~d.present
        <4>1. Sound(Free(s.al, e.addr), tc, T \ {e.addr}, lev)
          BY <1>1, <1>8, <2>3, <2>5, <2>7, <3>1, <3>3, FreeKeeps
        <4> QED
          BY <3>3, <4>1 DEF Healthy
      <3> QED
        BY <3>2, <3>3
    <2> HIDE DEF b
    <2>8. u \in LoopState /\ u.al = b /\ u.tables = tc
      BY <1>8, <2>4, <2>6, Zenon DEF LoopState
    <2> QED
      BY <2>7, <2>8 DEF Healthy, u
  <1> QED
    BY <1>4, <1>6, <1>7, <1>8

\* So do all iterations.
LEMMA ChangeLeavesKeep ==
  ASSUME NEW r \in [start : Nat, len : Nat], NEW new \in Change, al \in Allocator, tables \in Tables
  PROVE  ChangeLeaves(r, new) \in Kept
  <1> DEFINE m == r.len
             To(u, k) == ChangeLeaf(u, r.start + k - 1, new)
             step == [k \in 1 .. m |-> [u \in Kept |-> To(u, k)]]
             Is(f) == f = [k \in 0 .. m |-> IF k = 0 THEN State ELSE To(f[k - 1], k)]
             g == CHOOSE f : Is(f)
  <1>0. /\ m \in Nat
        /\ \A k \in 1 .. m : k - 1 \in 0 .. m /\ k \in 0 .. m /\ k # 0 /\ r.start + k - 1 \in Nat
    OBVIOUS
  <1>1. State \in Kept
    BY StateType DEF Kept
  <1>2. ASSUME NEW k \in 1 .. m, NEW u \in Kept PROVE To(u, k) \in Kept
    BY <1>0, ChangeLeafKeeps DEF Kept
  <1>3. ChangeLeaves(r, new) = g[m]
    BY DEF ChangeLeaves
  <1> HIDE DEF To, m
  <1>4. step \in [1 .. m -> [Kept -> Kept]]
    BY <1>2
  <1>5. \A k \in 1 .. m, u \in Kept : step[k][u] = To(u, k)
    OBVIOUS
  <1> HIDE DEF step
  <1>6. PICK f : IsTrace(f, Kept, m, State, step)
    BY <1>0, <1>1, <1>4, Iteration, Zenon
  <1>7. f \in [0 .. m -> Kept] /\ f[0] = State /\ \A k \in 1 .. m : f[k] = step[k][f[k - 1]]
    BY <1>6, Zenon DEF IsTrace
  <1>8. ASSUME NEW k \in 0 .. m PROVE f[k] = IF k = 0 THEN State ELSE To(f[k - 1], k)
    <2>1. CASE k = 0
      BY <1>7, <2>1
    <2>2. CASE k # 0
      <3>1. k \in 1 .. m /\ k - 1 \in 0 .. m
        BY <1>0, <2>2
      <3>2. f[k - 1] \in Kept
        BY <1>7, <3>1
      <3> QED
        BY <1>5, <1>7, <2>2, <3>1, <3>2
    <2> QED
      BY <2>1, <2>2
  <1>9. Is(f)
    BY <1>7, <1>8
  <1>10. Is(g)
    BY <1>9, Zenon
  <1> HIDE DEF g
  <1>11. g = [k \in 0 .. m |-> g[k]] /\ g[0] = State
    BY <1>0, <1>10
  <1>12. \A k \in 1 .. m : g[k] = To(g[k - 1], k)
    BY <1>0, <1>10, Zenon
  <1>13. \A k \in 1 .. m : g[k - 1] \in Kept => g[k] = step[k][g[k - 1]]
    BY <1>5, <1>12
  <1>14. IsTrace(g, Kept, m, State, step)
    BY <1>0, <1>1, <1>4, <1>11, <1>13, TraceOf, Zenon
  <1>15. g \in [0 .. m -> Kept] /\ m \in 0 .. m
    <2>1. g \in [0 .. m -> Kept]
      BY <1>14, Zenon DEF IsTrace
    <2> QED
      BY <1>0, <2>1
  <1> QED
    BY <1>3, <1>15

-----------------------------------------------------------------------------
\* A walk through entries that are kept is kept.
LEMMA WalkSame ==
  ASSUME NEW tb \in Tables, NEW tc \in Tables, NEW va \in Nat, IsMapped(tb, va),
         \A i \in 0 .. Levels - 1 :
           tc[Walk(tb, va)[i]][IndexAt(va, i)] = tb[Walk(tb, va)[i]][IndexAt(va, i)]
  PROVE  Walk(tc, va) = Walk(tb, va)
  <1> DEFINE w == Walk(tb, va)
             v == Walk(tc, va)
             S == {i \in 0 .. Levels : v[i] = w[i]}
  <1>1. v \in [0 .. Levels -> Frame] /\ w \in [0 .. Levels -> Frame] /\ v[0] = Root /\ w[0] = Root
    BY WalkSteps
  <1>2. 0 \in S
    BY <1>1, LevelsAssumption
  <1>3. ASSUME NEW i \in 1 .. Levels, i - 1 \in S PROVE i \in S
    <2>1. i - 1 \in 0 .. Levels - 1 /\ i \in 0 .. Levels /\ (i - 1) + 1 = i
      BY LevelsAssumption
    <2>2. OnTheWay(tb, va, w, i - 1)
      BY <2>1, WalkMapped
    <2>3. v[i - 1] = w[i - 1] /\ w[i - 1] # None
      BY <1>3, <2>2, NoneNotBit DEF OnTheWay
    <2>4. tc[v[i - 1]][IndexAt(va, i - 1)] = tb[w[i - 1]][IndexAt(va, i - 1)]
      BY <2>1, <2>3
    <2> DEFINE e == tc[v[i - 1]][IndexAt(va, i - 1)]
    <2>5. v[i] = e.addr
      <3> DEFINE k == i - 1
      <3>0. IF v[k] = None \/ ~tc[v[k]][IndexAt(va, k)].present THEN v[k + 1] = None
            ELSE v[k + 1] = tc[v[k]][IndexAt(va, k)].addr /\ v[k] \in Bit
        <4>1. k \in 0 .. Levels - 1
          BY <2>1
        <4> HIDE DEF k
        <4> QED
          BY <4>1, WalkGoes, Zenon
      <3>1. IF v[i - 1] = None \/ ~e.present THEN v[i] = None ELSE v[i] = e.addr /\ v[i - 1] \in Bit
        BY <2>1, <3>0, ZenonT(60)
      <3>2. e.present
        BY <2>2, <2>4 DEF OnTheWay
      <3> HIDE DEF v, e
      <3> QED
        BY <2>3, <3>1, <3>2
    <2>6. v[i] = w[i]
      BY <2>1, <2>2, <2>4, <2>5, Zenon DEF OnTheWay
    <2> QED
      BY <2>1, <2>6
  <1>4. S = 0 .. Levels
    <2>1. S \in SUBSET (0 .. Levels)
      OBVIOUS
    <2> HIDE DEF S
    <2> QED
      BY <1>2, <1>3, <2>1, RangeInduction, LevelsAssumption
  <1>5. \A i \in 0 .. Levels : v[i] = w[i]
    BY <1>4
  <1> HIDE DEF v, w
  <1>6. v = w
    <2>1. v = [i \in 0 .. Levels |-> v[i]] /\ w = [i \in 0 .. Levels |-> w[i]]
      BY <1>1
    <2>2. [i \in 0 .. Levels |-> v[i]] = [i \in 0 .. Levels |-> w[i]]
      BY <1>5
    <2> QED
      BY <2>1, <2>2, Zenon
  <1> QED
    BY <1>6 DEF v, w

\* Where no present entry of the tables is changed, no walk is.
LEMMA ExtendsWalks ==
  ASSUME NEW a, NEW tb, NEW T, NEW lev, Sound(a, tb, T, lev),
         NEW tc \in Tables, Extends(T, tb, tc), NEW va \in Nat, IsMapped(tb, va)
  PROVE  Walk(tc, va) = Walk(tb, va)
  <1>1. tb \in Tables
    BY Zenon DEF Sound, Frames
  <1>2. ASSUME NEW i \in 0 .. Levels - 1
        PROVE  tc[Walk(tb, va)[i]][IndexAt(va, i)] = tb[Walk(tb, va)[i]][IndexAt(va, i)]
    <2>1. OnTheWay(tb, va, Walk(tb, va), i)
      BY <1>1, WalkMapped
    <2>2. Walk(tb, va)[i] \in T
      BY <2>1, WalkInTables, NoneNotBit, Zenon DEF OnTheWay
    <2>3. IndexAt(va, i) \in Index
      BY IndexType
    <2> QED
      BY <2>1, <2>2, <2>3, Zenon DEF Extends, OnTheWay
  <1> QED
    BY <1>1, <1>2, WalkSame, Zenon

\* Where entries are only cleared, a walk that succeeds did so before, and went
\* the same way.
LEMMA ZeroedWalks ==
  ASSUME NEW tb \in Tables, NEW tc \in Tables, Zeroed(tb, tc), NEW va \in Nat, IsMapped(tc, va)
  PROVE  IsMapped(tb, va) /\ Walk(tc, va) = Walk(tb, va)
  <1>1. ASSUME NEW i \in 0 .. Levels - 1
        PROVE  tb[Walk(tc, va)[i]][IndexAt(va, i)] = tc[Walk(tc, va)[i]][IndexAt(va, i)]
    <2>1. OnTheWay(tc, va, Walk(tc, va), i)
      BY WalkMapped
    <2>2. IndexAt(va, i) \in Index
      BY IndexType
    <2> QED
      BY <2>1, <2>2 DEF Zeroed, OnTheWay
  <1>2. Walk(tb, va) = Walk(tc, va)
    BY <1>1, WalkSame
  <1> QED
    BY <1>2 DEF IsMapped

-----------------------------------------------------------------------------
\* The tables that are reached are among those of the invariant, each at its
\* level.
Below(ts) == {tables[e[1]][e[2]].addr : e \in {g \in ts \X Index : tables[g[1]][g[2]].present}}

\* The tables of a level are those below the tables of the level above.
LEMMA ReachedSteps ==
  ASSUME tables \in Tables
  PROVE  /\ Reached \in [0 .. Levels - 1 -> SUBSET Bit]
         /\ Reached[0] = {Root}
         /\ \A i \in 1 .. Levels - 1 : Reached[i] = Below(Reached[i - 1])
  <1> DEFINE n == Levels - 1
             step == [i \in 1 .. n |-> [ts \in SUBSET Bit |-> Below(ts)]]
             Is(f) == f = [i \in 0 .. n |-> IF i = 0 THEN {Root} ELSE Below(f[i - 1])]
             g == CHOOSE f : Is(f)
  <1>0. n \in Nat /\ \A i \in 1 .. n : i - 1 \in 0 .. n /\ i \in 0 .. n /\ i # 0
    BY LevelsAssumption
  <1>1. {Root} \in SUBSET Bit
    BY RootAssumption
  <1>2. ASSUME NEW ts \in SUBSET Bit PROVE Below(ts) \in SUBSET Bit
    <2> SUFFICES ASSUME NEW e \in ts \X Index PROVE tables[e[1]][e[2]].addr \in Bit
      BY DEF Below
    <2>1. e[1] \in Bit /\ e[2] \in Index
      OBVIOUS
    <2> QED
      BY <2>1, EntryFields
  <1>3. Reached = g
    BY DEF Reached, Below
  <1>4. step \in [1 .. n -> [SUBSET Bit -> SUBSET Bit]]
    BY <1>2
  <1>5. \A i \in 1 .. n, ts \in SUBSET Bit : step[i][ts] = Below(ts)
    OBVIOUS
  <1> HIDE DEF step, n
  <1>6. PICK f : IsTrace(f, SUBSET Bit, n, {Root}, step)
    BY <1>0, <1>1, <1>4, Iteration, Zenon
  <1>7. f \in [0 .. n -> SUBSET Bit] /\ f[0] = {Root} /\ \A i \in 1 .. n : f[i] = step[i][f[i - 1]]
    BY <1>6, Zenon DEF IsTrace
  <1>8. ASSUME NEW i \in 0 .. n PROVE f[i] = IF i = 0 THEN {Root} ELSE Below(f[i - 1])
    <2>1. CASE i = 0
      BY <1>7, <2>1
    <2>2. CASE i # 0
      <3>1. i \in 1 .. n /\ i - 1 \in 0 .. n
        BY <1>0, <2>2
      <3>2. f[i - 1] \in SUBSET Bit
        BY <1>7, <3>1
      <3> QED
        BY <1>5, <1>7, <2>2, <3>1, <3>2
    <2> QED
      BY <2>1, <2>2
  <1>9. Is(f)
    BY <1>7, <1>8
  <1>10. Is(g)
    BY <1>9, Zenon
  <1> HIDE DEF g
  <1>11. g = [i \in 0 .. n |-> g[i]] /\ g[0] = {Root}
    BY <1>0, <1>10
  <1>12. \A i \in 1 .. n : g[i] = Below(g[i - 1])
    BY <1>0, <1>10, Zenon
  <1>13. \A i \in 1 .. n : g[i - 1] \in SUBSET Bit => g[i] = step[i][g[i - 1]]
    BY <1>5, <1>12
  <1>14. IsTrace(g, SUBSET Bit, n, {Root}, step)
    BY <1>0, <1>1, <1>4, <1>11, <1>13, TraceOf, ZenonT(60)
  <1> QED
    BY <1>3, <1>11, <1>12, <1>14, Zenon DEF IsTrace, n

\* By induction on the level.
LEMMA ReachedInTables ==
  ASSUME NEW T, NEW lev, Sound(al, tables, T, lev)
  PROVE  \A i \in 0 .. Levels - 1 : Reached[i] \subseteq {t \in T : lev[t] = i}
  <1> DEFINE S == {i \in 0 .. Levels - 1 : Reached[i] \subseteq {t \in T : lev[t] = i}}
  <1>0. tables \in Tables /\ Root \in T /\ lev[Root] = 0 /\ Levels - 1 \in Nat
    BY LevelsAssumption DEF Sound, Frames
  <1>1. /\ Reached[0] = {Root}
        /\ \A i \in 1 .. Levels - 1 : Reached[i] = Below(Reached[i - 1])
    BY <1>0, ReachedSteps
  <1>2. 0 \in S
    BY <1>0, <1>1
  <1>3. ASSUME NEW i \in 1 .. Levels - 1, i - 1 \in S PROVE i \in S
    <2>1. i - 1 # Levels - 1 /\ i \in 0 .. Levels - 1 /\ (i - 1) + 1 = i
      BY LevelsAssumption
    <2>2. ASSUME NEW t \in Reached[i] PROVE t \in T /\ lev[t] = i
      <3>0. t \in Below(Reached[i - 1])
        BY <1>1, <2>2, Zenon
      <3>1. PICK e \in Reached[i - 1] \X Index :
              tables[e[1]][e[2]].present /\ t = tables[e[1]][e[2]].addr
        BY <3>0, Zenon DEF Below
      <3>2. e[1] \in T /\ lev[e[1]] = i - 1 /\ e[2] \in Index
        BY <1>3
      <3>3. Refers(al, tables, T, lev, e[1], e[2])
        BY <3>1, <3>2 DEF Sound
      <3> QED
        BY <2>1, <3>1, <3>2, <3>3, Zenon DEF Refers
    <2> QED
      BY <2>1, <2>2
  <1>4. S = 0 .. Levels - 1
    <2>1. S \in SUBSET (0 .. Levels - 1)
      OBVIOUS
    <2> HIDE DEF S
    <2> QED
      BY <1>0, <1>2, <1>3, <2>1, RangeInduction
  <1> QED
    BY <1>4

\* The invariant gives the property that is checked.
LEMMA HealthyIsSound ==
  ASSUME Healthy(al, tables)
  PROVE  TablesSound
  <1>1. PICK T, lev : Sound(al, tables, T, lev)
    BY DEF Healthy
  <1>2. Entries \subseteq T \X Index
    BY <1>1, ReachedInTables DEF Entries
  <1>3. \A e \in Entries : e[1] \in T /\ e[2] \in Index /\ tables[e[1]][e[2]].present
                           /\ e = <<e[1], e[2]>>
    BY <1>2 DEF Entries
  <1>4. \A e \in Entries : tables[e[1]][e[2]].addr \in al.reserved \ {Root}
    BY <1>1, <1>3 DEF Sound, Refers
  <1>5. ASSUME NEW e \in Entries, NEW g \in Entries,
               tables[e[1]][e[2]].addr = tables[g[1]][g[2]].addr
        PROVE  e = g
    <2>1. e[1] = g[1] /\ e[2] = g[2]
      BY <1>1, <1>3, <1>5 DEF Sound, OneReference
    <2> QED
      BY <1>3, <2>1
  <1>6. al.free_pages = Cardinality(Bit \ al.reserved)
    BY <1>1 DEF Sound, Frames, Counted
  <1> QED
    BY <1>4, <1>5, <1>6, Zenon DEF TablesSound

-----------------------------------------------------------------------------
\* The inductive invariant.
TaskState ==
  [state : {"idle", "mapping", "rewinding", "unmapping"}, start : Nat, len : Nat,
   current : Nat, left : Int, count : Int, writable : BOOLEAN]

Segment == [start : Nat, len : Nat]

Live ==
  /\ al \in Allocator
  /\ tables \in Tables
  /\ task \in [Task -> TaskState]
  /\ segs \in SUBSET Segment
  /\ failed \in BOOLEAN
  /\ ~failed => Healthy(al, tables)

IInv == status = "live" => Live

\* A task that does nothing has a state.
LEMMA IdleType == Idle \in TaskState
  BY DEF Idle, TaskState

\* The new tables, a pml4 without entries, satisfy the invariant.
LEMMA InitIInv ==
  ASSUME Init
  PROVE  IInv
  <1>1. PICK frames \in Elsewhere : al = NewAllocator({Root} \cup frames, BitmapBits)
    BY Zenon DEF Init
  <1> DEFINE R == {Root} \cup frames
             lev == [f \in Bit |-> 0]
             zeros == [x \in Index |-> ZERO]
  <1>2. R \in SUBSET Bit /\ R = {Root} \cup R
    BY RootAssumption, ElsewhereAssumption
  <1> HIDE DEF R
  <1>3. Cardinality(Bit \ R) \in Nat
    BY BitFinite, FS_CardinalityType
  <1>4. /\ al \in Allocator /\ al.reserved = R /\ al.total_pages = BitmapBits
        /\ al.free_pages = Cardinality(Bit \ R)
    BY <1>1, <1>2, <1>3, BitmapBitsAssumption DEF R, NewAllocator, Allocator
  <1>5. zeros \in [Index -> Entry]
    BY EntryTypes
  <1>6. tables = [f \in Bit |-> zeros]
    BY DEF Init
  <1>7. tables \in Tables /\ \A f \in Bit, x \in Index : tables[f][x] = ZERO
    BY <1>5, <1>6 DEF Tables
  <1>8. \A f \in Bit, x \in Index : ~tables[f][x].present
    BY <1>7, EntryTypes
  <1>9. Frames(al, tables, {Root}, lev)
    <2>1. lev \in [Bit -> 0 .. Levels - 1] /\ lev[Root] = 0
      BY RootAssumption, LevelsAssumption
    <2> HIDE DEF lev
    <2> QED
      BY <1>2, <1>4, <1>7, <2>1 DEF Frames, Counted
  <1> HIDE DEF lev
  <1>10. Sound(al, tables, {Root}, lev)
    BY <1>8, <1>9, RootAssumption DEF Sound, OneReference
  <1>11. Healthy(al, tables)
    BY <1>10 DEF Healthy
  <1>12. task \in [Task -> TaskState]
    BY IdleType DEF Init
  <1> QED
    BY <1>4, <1>7, <1>11, <1>12, Zenon DEF Init, IInv, Live

\* What a task is doing is replaced, and the others' state is kept.
LEMMA TaskReplaced ==
  ASSUME task \in [Task -> TaskState], NEW t \in Task, NEW k, task' = [task EXCEPT ![t] = k]
  PROVE  /\ k \in TaskState => task' \in [Task -> TaskState]
         /\ \A u \in Task : task'[u] # task[u] => u = t
  OBVIOUS

\* The states that a step gives to its task.
LEMMA TaskMoves ==
  ASSUME NEW k \in TaskState, NEW c \in Nat, NEW l \in Int, NEW n \in Int
  PROVE  /\ [k EXCEPT !.current = c, !.left = l, !.count = n] \in TaskState
         /\ [k EXCEPT !.state = "rewinding", !.current = c, !.count = n] \in TaskState
         /\ [k EXCEPT !.current = c, !.count = n] \in TaskState
  BY Zenon DEF TaskState

\* MapMemTask::new changes no table.
LEMMA StartMapKeeps ==
  ASSUME IInv, NEW t \in Task, NEW r \in MapRanges, StartMap(t, r.start, r.len, TRUE)
  PROVE  IInv'
  <1> DEFINE k == [state |-> "mapping", start |-> r.start, len |-> r.len, current |-> r.start,
                   left |-> r.len, count |-> 0, writable |-> TRUE]
  <1>1. Live /\ task' = [task EXCEPT ![t] = k] /\ UNCHANGED <<al, tables, segs, status, failed>>
    BY DEF StartMap, Start, IInv
  <1>2. r \in [start : Nat, len : Nat \ {0}]
    BY RangesAssumption
  <1>3. k \in TaskState
    BY <1>2 DEF TaskState
  <1> HIDE DEF k
  <1>4. task' \in [Task -> TaskState]
    BY <1>1, <1>3, TaskReplaced DEF Live
  <1> QED
    BY <1>1, <1>4 DEF Live, IInv, Healthy

\* UnmapMemTask::new changes no table.
LEMMA StartUnmapKeeps ==
  ASSUME IInv, NEW t \in Task, NEW s \in segs, StartUnmap(t, s)
  PROVE  IInv'
  <1> DEFINE k == [state |-> "unmapping", start |-> s.start, len |-> s.len, current |-> s.start,
                   left |-> s.len, count |-> 0, writable |-> FALSE]
  <1>1. /\ Live /\ task' = [task EXCEPT ![t] = k] /\ segs' = segs \ {s}
        /\ UNCHANGED <<al, tables, status, failed>>
    BY DEF StartUnmap, Start, IInv
  <1>2. s \in Segment
    BY <1>1 DEF Live
  <1>3. k \in TaskState
    BY <1>2 DEF TaskState, Segment
  <1> HIDE DEF k
  <1>4. task' \in [Task -> TaskState]
    BY <1>1, <1>3, TaskReplaced DEF Live
  <1>5. segs' \in SUBSET Segment
    BY <1>1 DEF Live
  <1> QED
    BY <1>1, <1>4, <1>5 DEF Live, IInv, Healthy

\* An operation that keeps the tables sound keeps the invariant.
LEMMA BecomesKeeps ==
  ASSUME Live, NEW s \in LoopState, Becomes(s), failed' \in BOOLEAN,
         ~failed' => Healthy(s.al, s.tables),
         task' \in [Task -> TaskState], segs' \in SUBSET Segment
  PROVE  IInv'
  <1>1. al' = s.al /\ tables' = s.tables /\ s.al \in Allocator /\ s.tables \in Tables
    BY DEF Becomes, LoopState
  <1> QED
    BY <1>1 DEF IInv, Live, Healthy

\* The page that a step of MapMemTask maps.
Mapped(t) == MapBlankPage([State EXCEPT !.count = task[t].count], task[t].current, task[t].writable)

\* It keeps the tables sound unless there is no memory, and keeps what is mapped.
LEMMA MappedIs ==
  ASSUME Live, NEW t \in Task
  PROVE  /\ Mapped(t) \in LoopState
         /\ Mapped(t).result \in {"Ok", "OutOfMemory", "PageAlreadyExists"}
         /\ Mapped(t).result = "Ok" /\ ~failed => Healthy(Mapped(t).al, Mapped(t).tables)
         /\ ~failed => \A va \in Nat : IsMapped(tables, va) =>
                         Walk(Mapped(t).tables, va) = Walk(tables, va)
  <1> DEFINE n == task[t].count
             s == [State EXCEPT !.count = n]
             va0 == task[t].current
             w == task[t].writable
             u == Mapped(t)
  <1>1. n \in Int /\ va0 \in Nat /\ w \in BOOLEAN /\ al \in Allocator /\ tables \in Tables
    BY DEF Live, TaskState
  <1> HIDE DEF n, va0, w
  <1>2. /\ s \in LoopState /\ s.al = al /\ s.tables = tables /\ s.f = Root /\ s.result = "Ok"
    BY <1>1, StateType, Zenon DEF LoopState
  <1> HIDE DEF s
  <1>3. u = MapBlankPage(s, va0, w)
    BY DEF Mapped, s, n, va0, w
  <1> HIDE DEF u
  <1>4. u \in LoopState /\ u.result \in {"Ok", "OutOfMemory", "PageAlreadyExists"}
    BY <1>1, <1>2, <1>3, MapBlankType
  <1>5. ASSUME ~failed
        PROVE  /\ u.result = "Ok" => Healthy(u.al, u.tables)
               /\ \A va \in Nat : IsMapped(tables, va) => Walk(u.tables, va) = Walk(tables, va)
    <2>1. PICK T, lev : Sound(al, tables, T, lev)
      BY <1>5 DEF Live, Healthy
    <2>2. Root \in T /\ lev[Root] = 0 /\ Extends(T, tables, tables)
      BY <2>1 DEF Sound, Frames, Extends
    <2>3. Descends(T, tables, s, 0)
      BY <1>2, <2>1, <2>2 DEF Descends
    <2>4. Extends(T, tables, u.tables) /\ (u.result = "Ok" => Healthy(u.al, u.tables))
      BY <1>1, <1>3, <2>3, MapBlankKeeps
    <2>5. u.tables \in Tables
      BY <1>4 DEF LoopState
    <2> QED
      BY <2>1, <2>4, <2>5, ExtendsWalks
  <1> QED
    BY <1>4, <1>5 DEF u

\* A step of MapMemTask keeps the invariant.
LEMMA MapStepKeeps ==
  ASSUME IInv, NEW t \in Task, MapStep(t)
  PROVE  IInv'
  <1> DEFINE k == task[t]
             s == Mapped(t)
             on == [k EXCEPT !.current = @ + 1, !.left = @ - 1, !.count = s.count]
             back == [k EXCEPT !.state = "rewinding", !.current = Previous(@), !.count = s.count]
             one == [start |-> k.start, len |-> k.len]
  <1>1. Live
    BY DEF MapStep, IInv
  <1>2. s \in LoopState /\ s.result \in {"Ok", "OutOfMemory", "PageAlreadyExists"}
        /\ (s.result = "Ok" /\ ~failed => Healthy(s.al, s.tables))
    BY <1>1, MappedIs
  <1>3. /\ Becomes(s)
        /\ status' = IF s.result = "PageAlreadyExists" THEN s.result ELSE status
        /\ failed' = (failed \/ s.result = "OutOfMemory")
        /\ s.result = "Ok" =>
             /\ task' = [task EXCEPT ![t] = IF k.left = 1 THEN Idle ELSE on]
             /\ segs' = segs \cup (IF k.left = 1 THEN {one} ELSE {})
        /\ s.result = "OutOfMemory" => task' = [task EXCEPT ![t] = back] /\ segs' = segs
    BY DEF MapStep, Mapped
  <1> HIDE DEF s
  <1>4. k \in TaskState /\ s.count \in Int /\ failed \in BOOLEAN /\ segs \in SUBSET Segment
        /\ task \in [Task -> TaskState]
    BY <1>1, <1>2 DEF Live, LoopState
  <1> HIDE DEF k
  <1>5. on \in TaskState /\ back \in TaskState /\ Idle \in TaskState /\ one \in Segment
    <2>1. k.current + 1 \in Nat /\ k.left - 1 \in Int /\ Previous(k.current) \in Nat
      BY <1>4 DEF TaskState, Previous
    <2>2. one \in Segment
      BY <1>4 DEF TaskState, Segment
    <2> QED
      BY <1>4, <2>1, <2>2, TaskMoves, IdleType, Zenon
  <1> HIDE DEF on, back, one
  <1>6. CASE s.result = "PageAlreadyExists"
    BY <1>3, <1>6 DEF IInv
  <1>7. CASE s.result = "Ok"
    <2>1. task' \in [Task -> TaskState]
      BY <1>3, <1>4, <1>5, <1>7, TaskReplaced
    <2>2. segs' \in SUBSET Segment
      BY <1>3, <1>4, <1>5, <1>7
    <2>3. failed' \in BOOLEAN /\ (~failed' => Healthy(s.al, s.tables))
      BY <1>2, <1>3, <1>4, <1>7
    <2> QED
      BY <1>1, <1>2, <1>3, <2>1, <2>2, <2>3, BecomesKeeps
  <1>8. CASE s.result = "OutOfMemory"
    <2>1. task' \in [Task -> TaskState]
      BY <1>3, <1>4, <1>5, <1>8, TaskReplaced
    <2>2. segs' \in SUBSET Segment /\ failed' = TRUE
      BY <1>3, <1>4, <1>8, ZenonT(60)
    <2> QED
      BY <1>1, <1>2, <1>3, <2>1, <2>2, BecomesKeeps
  <1> QED
    BY <1>2, <1>6, <1>7, <1>8

\* A step of the cleanup of MapMemTask keeps the invariant.
LEMMA RewindStepKeeps ==
  ASSUME IInv, NEW t \in Task, RewindStep(t)
  PROVE  IInv' /\ tables' \in Tables /\ Zeroed(tables, tables')
  <1> DEFINE k == task[t]
             last == k.current = k.start
             depth == IF last THEN Levels - 1
                      ELSE FreeTableCheckDepth(k.current, Previous(k.current))
             s == UnmapPage(State, k.current, depth)
             on == [k EXCEPT !.current = Previous(@), !.count = @ - s.count]
  <1>1. Live
    BY DEF RewindStep, IInv
  <1>2. /\ al \in Allocator /\ tables \in Tables /\ k \in TaskState /\ failed \in BOOLEAN
        /\ segs \in SUBSET Segment /\ task \in [Task -> TaskState]
    BY <1>1 DEF Live
  <1>3. k.current \in Nat /\ Previous(k.current) \in Nat /\ k.count \in Int
    <2>1. k.current \in Nat /\ k.count \in Int
      BY <1>2, Zenon DEF TaskState
    <2> QED
      BY <2>1, Counting, Zenon
  <1>4. depth \in Nat
    <2>1. FreeTableCheckDepth(k.current, Previous(k.current)) \in Nat
      BY <1>3, DepthType, Zenon
    <2>2. Levels - 1 \in Nat
      BY LevelsAssumption
    <2> QED
      BY <2>1, <2>2
  <1>5. /\ Becomes(s) /\ failed' = failed /\ segs' = segs
        /\ task' = [task EXCEPT ![t] = IF status' # status THEN k ELSE IF last THEN Idle ELSE on]
    BY DEF RewindStep
  <1> HIDE DEF k, depth
  <1>6. /\ s \in LoopState /\ Zeroed(tables, s.tables)
        /\ Healthy(al, tables) => Healthy(s.al, s.tables)
    BY <1>2, <1>3, <1>4, StateType, UnmapKeeps, ZenonT(60)
  <1> HIDE DEF s
  <1>7. s.count \in Int /\ s.tables \in Tables
    BY <1>6 DEF LoopState
  <1>8. on \in TaskState
    <2>1. k.count - s.count \in Int
      BY <1>3, <1>7, Counting, Zenon
    <2> QED
      BY <1>2, <1>3, <2>1, TaskMoves, Zenon
  <1> HIDE DEF on, last
  <1>9. task' \in [Task -> TaskState]
    BY <1>2, <1>5, <1>8, IdleType, TaskReplaced
  <1>10. ~failed' => Healthy(s.al, s.tables)
    BY <1>1, <1>5, <1>6 DEF Live
  <1>11. IInv'
    BY <1>1, <1>2, <1>5, <1>6, <1>9, <1>10, BecomesKeeps
  <1> QED
    BY <1>5, <1>6, <1>7, <1>11 DEF Becomes

\* A step of UnmapMemTask keeps the invariant.
LEMMA UnmapStepKeeps ==
  ASSUME IInv, NEW t \in Task, UnmapStep(t)
  PROVE  IInv'
  <1> DEFINE k == task[t]
             depth == IF k.left = 0 THEN Levels - 1
                      ELSE FreeTableCheckDepth(k.current, k.current + 1)
             s == UnmapPage(State, k.current, depth)
             on == [k EXCEPT !.current = @ + 1, !.left = @ - 1, !.count = @ + s.count]
  <1>1. Live
    BY DEF UnmapStep, IInv
  <1>2. /\ al \in Allocator /\ tables \in Tables /\ k \in TaskState /\ failed \in BOOLEAN
        /\ segs \in SUBSET Segment /\ task \in [Task -> TaskState]
    BY <1>1 DEF Live
  <1>3. k.current \in Nat /\ k.current + 1 \in Nat /\ k.left - 1 \in Int /\ k.count \in Int
    BY <1>2 DEF TaskState
  <1>4. depth \in Nat
    <2>1. FreeTableCheckDepth(k.current, k.current + 1) \in Nat
      BY <1>3, DepthType, Zenon
    <2>2. Levels - 1 \in Nat
      BY LevelsAssumption
    <2> QED
      BY <2>1, <2>2
  <1>5. /\ Becomes(s) /\ failed' = failed /\ segs' = segs
        /\ task' = [task EXCEPT ![t] = IF k.left = 1 THEN Idle ELSE on]
    BY DEF UnmapStep
  <1> HIDE DEF k, depth
  <1>6. s \in LoopState /\ (Healthy(al, tables) => Healthy(s.al, s.tables))
    BY <1>2, <1>3, <1>4, StateType, UnmapKeeps, Zenon
  <1> HIDE DEF s
  <1>7. s.count \in Int
    BY <1>6 DEF LoopState
  <1>8. on \in TaskState
    <2>1. k.count + s.count \in Int
      BY <1>3, <1>7, Counting, Zenon
    <2> QED
      BY <1>2, <1>3, <2>1, TaskMoves, Zenon
  <1> HIDE DEF on
  <1>9. task' \in [Task -> TaskState]
    BY <1>2, <1>5, <1>8, IdleType, TaskReplaced
  <1>10. ~failed' => Healthy(s.al, s.tables)
    BY <1>1, <1>5, <1>6 DEF Live
  <1> QED
    BY <1>1, <1>2, <1>5, <1>6, <1>9, <1>10, BecomesKeeps

\* map_mem_copy_from_buffer keeps the invariant.
LEMMA CopyKeeps ==
  ASSUME IInv, NEW b \in Buffers, MapMemCopyFromBuffer(b.page, b.offset, b.size, b.size)
  PROVE  IInv'
  <1> DEFINE n == (b.offset + b.size - 1) \div PageBytes + 1
             s == CopyPages(b.page, b.offset, b.size, n)
             one == [start |-> b.page, len |-> n]
  <1>1. Live
    BY DEF MapMemCopyFromBuffer, IInv
  <1>2. /\ Becomes(s) /\ UNCHANGED <<task, failed>>
        /\ segs' = segs \cup (IF s.result = "Ok" THEN {one} ELSE {})
    BY DEF MapMemCopyFromBuffer
  <1>3. b.page \in Nat /\ b.offset \in Nat /\ b.size \in Nat \ {0} /\ PageBytes \in Nat \ {0}
    BY BuffersAssumption
  <1>4. n \in Nat
    <2>1. b.offset + b.size - 1 \in Nat
      BY <1>3
    <2>2. (b.offset + b.size - 1) \div PageBytes \in Nat
      BY <1>3, <2>1, DivMod
    <2> QED
      BY <2>2
  <1> HIDE DEF n
  <1>5. one \in Segment
    BY <1>3, <1>4 DEF Segment
  <1>6. s \in Kept
    BY <1>1, <1>3, <1>4, CopyPagesKeep DEF Live
  <1> HIDE DEF s, one
  <1>7. s \in LoopState /\ (Healthy(al, tables) => Healthy(s.al, s.tables))
    BY <1>6 DEF Kept
  <1>8. /\ task' \in [Task -> TaskState] /\ segs' \in SUBSET Segment /\ failed' \in BOOLEAN
        /\ ~failed' => Healthy(s.al, s.tables)
    BY <1>1, <1>2, <1>5, <1>7 DEF Live
  <1> QED
    BY <1>1, <1>2, <1>7, <1>8, BecomesKeeps

\* The operations on a range keep the invariant.
LEMMA OnRangeKeeps ==
  ASSUME IInv, NEW r \in segs, NEW new \in Change, OnRange(r, new), segs' \in SUBSET segs
  PROVE  IInv'
  <1> DEFINE s == ChangeLeaves(r, new)
  <1>1. Live
    BY DEF OnRange, IInv
  <1>2. Becomes(s) /\ UNCHANGED <<task, failed>>
    BY DEF OnRange
  <1>3. r \in [start : Nat, len : Nat]
    BY <1>1 DEF Live, Segment
  <1>4. s \in Kept
    BY <1>1, <1>3, ChangeLeavesKeep DEF Live
  <1> HIDE DEF s
  <1>5. s \in LoopState /\ (Healthy(al, tables) => Healthy(s.al, s.tables))
    BY <1>4 DEF Kept
  <1>6. /\ task' \in [Task -> TaskState] /\ segs' \in SUBSET Segment /\ failed' \in BOOLEAN
        /\ ~failed' => Healthy(s.al, s.tables)
    BY <1>1, <1>2, <1>5 DEF Live
  <1> QED
    BY <1>1, <1>2, <1>5, <1>6, BecomesKeeps

\* What they make of an entry: cleared, or with other flags.
LEMMA ChangesAre ==
  /\ [a \in Bit |-> ZERO] \in Change
  /\ \A w, n \in BOOLEAN : [a \in Bit |-> EntryOf(w, n, a)] \in Change
  BY EntryTypes DEF Change

\* Every step keeps the invariant.
LEMMA NextIInv ==
  ASSUME IInv, [Next]_vars
  PROVE  IInv'
  <1>1. CASE UNCHANGED vars
    BY <1>1 DEF vars, IInv, Live, Healthy
  <1>2. ASSUME NEW t \in Task, NEW r \in MapRanges, StartMap(t, r.start, r.len, TRUE) PROVE IInv'
    BY <1>2, StartMapKeeps, Zenon
  <1>3. ASSUME NEW t \in Task, NEW s \in segs, StartUnmap(t, s) PROVE IInv'
    BY <1>3, StartUnmapKeeps
  <1>4. ASSUME NEW t \in Task, MapStep(t) PROVE IInv'
    BY <1>4, MapStepKeeps
  <1>5. ASSUME NEW t \in Task, RewindStep(t) PROVE IInv'
    BY <1>5, RewindStepKeeps
  <1>6. ASSUME NEW t \in Task, UnmapStep(t) PROVE IInv'
    BY <1>6, UnmapStepKeeps
  <1>7. ASSUME NEW b \in Buffers, MapMemCopyFromBuffer(b.page, b.offset, b.size, b.size) PROVE IInv'
    BY <1>7, CopyKeeps
  <1>8. ASSUME NEW s \in segs, UnmapMem(s) PROVE IInv'
    BY <1>8, OnRangeKeeps, ChangesAre DEF UnmapMem
  <1>9. ASSUME NEW s \in segs, NEW w \in BOOLEAN, ChangeFlags(s, w) PROVE IInv'
    BY <1>9, OnRangeKeeps, ChangesAre, Zenon DEF ChangeFlags
  <1>10. ASSUME NEW s \in segs, NEW w \in BOOLEAN, ChangeFlagsRelaxing(s, w) PROVE IInv'
    BY <1>10, OnRangeKeeps, ChangesAre, Zenon DEF ChangeFlagsRelaxing
  <1>11. CASE Drop
    BY <1>11, Zenon DEF Drop, IInv
  <1> QED
    BY <1>1, <1>2, <1>3, <1>4, <1>5, <1>6, <1>7, <1>8, <1>9, <1>10, <1>11, Zenon DEF Next

\* The inductive invariant holds always.
LEMMA Invariant == Spec => []IInv
  <1>1. Init => IInv
    BY InitIInv
  <1>2. IInv /\ [Next]_vars => IInv'
    BY NextIInv
  <1> QED
    BY <1>1, <1>2, PTL DEF Spec

\* Every table and every page that can be reached is a reserved frame that one
\* entry refers to, however the tasks interleave, as long as map_blank_page has
\* not failed: with any number of levels, entries, frames, tasks and calls.
THEOREM TablesStaySound == Spec => []TablesSound
  <1>1. IInv => TablesSound
    <2> SUFFICES ASSUME IInv, status = "live", ~failed PROVE TablesSound
      BY DEF TablesSound
    <2> QED
      BY HealthyIsSound DEF IInv, Live
  <1> QED
    BY <1>1, Invariant, PTL

-----------------------------------------------------------------------------
\* A step of MapMemTask keeps the translation of the other pages.
LEMMA MapStepKeepsOthers ==
  ASSUME IInv, NEW t \in Task, MapStep(t)
  PROVE  MapKeepsOthers /\ RewindRemoves
  <1>1. Live /\ task[t].state = "mapping"
    BY DEF MapStep, IInv
  <1>2. tables' = Mapped(t).tables /\ (UNCHANGED task \/ \E k : task' = [task EXCEPT ![t] = k])
    BY <1>1, MappedIs DEF MapStep, Mapped, Becomes
  <1>3. \A u \in Task : task'[u] # task[u] => u = t
    BY <1>1, <1>2, TaskReplaced DEF Live
  <1>4. RewindRemoves
    BY <1>1, <1>3, Zenon DEF RewindRemoves, Runs
  <1>5. MapKeepsOthers
    <2> SUFFICES ASSUME ~failed, NEW va \in VirtualPage, IsMapped(tables, va)
                 PROVE  Walk(tables', va) = Walk(tables, va)
      BY DEF MapKeepsOthers
    <2>1. va \in Nat
      BY SpanValues, LevelsAssumption DEF VirtualPage
    <2> QED
      BY <1>1, <1>2, <2>1, MappedIs
  <1> QED
    BY <1>4, <1>5

\* A step of the cleanup of MapMemTask only removes translations.
LEMMA RewindStepRemoves ==
  ASSUME IInv, NEW t \in Task, RewindStep(t)
  PROVE  MapKeepsOthers /\ RewindRemoves
  <1>1. Live /\ task[t].state = "rewinding"
    BY DEF RewindStep, IInv
  <1>2. \E k : task' = [task EXCEPT ![t] = k]
    BY Zenon DEF RewindStep
  <1>3. \A u \in Task : task'[u] # task[u] => u = t
    BY <1>1, <1>2, TaskReplaced DEF Live
  <1>4. MapKeepsOthers
    BY <1>1, <1>3 DEF MapKeepsOthers, Runs
  <1>5. RewindRemoves
    <2> SUFFICES ASSUME NEW va \in VirtualPage, IsMapped(tables', va)
                 PROVE  IsMapped(tables, va) /\ Walk(tables', va) = Walk(tables, va)
      BY DEF RewindRemoves
    <2>1. va \in Nat
      BY SpanValues, LevelsAssumption DEF VirtualPage
    <2>2. tables \in Tables /\ tables' \in Tables /\ Zeroed(tables, tables')
      BY <1>1, RewindStepKeeps DEF Live
    <2> QED
      BY <2>1, <2>2, ZeroedWalks
  <1> QED
    BY <1>4, <1>5

\* A task that neither maps nor cleans up is started or run.
LEMMA OtherTasks ==
  ASSUME Live, NEW t \in Task, task[t].state \in {"idle", "unmapping"}, NEW k,
         task' = [task EXCEPT ![t] = k]
  PROVE  MapKeepsOthers /\ RewindRemoves
  <1>1. \A u \in Task : task'[u] # task[u] => u = t
    BY TaskReplaced DEF Live
  <1> QED
    BY <1>1 DEF MapKeepsOthers, RewindRemoves, Runs

\* A step at which no task runs.
LEMMA NoTask ==
  ASSUME UNCHANGED task
  PROVE  MapKeepsOthers /\ RewindRemoves
  BY DEF MapKeepsOthers, RewindRemoves, Runs

\* Every step keeps the translations that it has to keep.
LEMMA NextKeepsOthers ==
  ASSUME IInv, Next
  PROVE  MapKeepsOthers /\ RewindRemoves
  <1> DEFINE P == MapKeepsOthers /\ RewindRemoves
  <1>1. ASSUME NEW t \in Task, NEW r \in MapRanges, StartMap(t, r.start, r.len, TRUE) PROVE P
    <2>1. Live /\ task[t].state = "idle" /\ \E k : task' = [task EXCEPT ![t] = k]
      BY <1>1, Zenon DEF StartMap, Start, IInv
    <2> QED
      BY <2>1, OtherTasks, Zenon
  <1>2. ASSUME NEW t \in Task, NEW s \in segs, StartUnmap(t, s) PROVE P
    <2>1. Live /\ task[t].state = "idle" /\ \E k : task' = [task EXCEPT ![t] = k]
      BY <1>2, Zenon DEF StartUnmap, Start, IInv
    <2> QED
      BY <2>1, OtherTasks, Zenon
  <1>3. ASSUME NEW t \in Task, MapStep(t) PROVE P
    BY <1>3, MapStepKeepsOthers
  <1>4. ASSUME NEW t \in Task, RewindStep(t) PROVE P
    BY <1>4, RewindStepRemoves
  <1>5. ASSUME NEW t \in Task, UnmapStep(t) PROVE P
    <2>1. Live /\ task[t].state = "unmapping" /\ \E k : task' = [task EXCEPT ![t] = k]
      BY <1>5, Zenon DEF UnmapStep, IInv
    <2> QED
      BY <2>1, OtherTasks, Zenon
  <1>6. ASSUME UNCHANGED task PROVE P
    BY <1>6, NoTask
  <1> HIDE DEF P
  <1>7. ASSUME NEW b \in Buffers, MapMemCopyFromBuffer(b.page, b.offset, b.size, b.size) PROVE P
    BY <1>6, <1>7 DEF MapMemCopyFromBuffer
  <1>8. ASSUME NEW s \in segs, UnmapMem(s) PROVE P
    BY <1>6, <1>8 DEF UnmapMem, OnRange
  <1>9. ASSUME NEW s \in segs, NEW w \in BOOLEAN,
               ChangeFlags(s, w) \/ ChangeFlagsRelaxing(s, w)
        PROVE  P
    BY <1>6, <1>9 DEF ChangeFlags, ChangeFlagsRelaxing, OnRange
  <1>10. ASSUME Drop PROVE P
    BY <1>6, <1>10, Zenon DEF Drop
  <1>11. P
    BY <1>1, <1>2, <1>3, <1>4, <1>5, <1>7, <1>8, <1>9, <1>10, Zenon DEF Next
  <1> QED
    BY <1>11 DEF P

\* Until map_blank_page has failed, a step of MapMemTask keeps the translation
\* of every page that is mapped; and the steps of its cleanup only remove
\* translations, also from the tables that a failure has left.
THEOREM TasksAlwaysKeepOthers == Spec => TasksKeepOthers
  <1>1. IInv /\ [Next]_vars => [MapKeepsOthers /\ RewindRemoves]_vars
    BY NextKeepsOthers
  <1> QED
    BY <1>1, Invariant, PTL DEF Spec, TasksKeepOthers
=============================================================================
