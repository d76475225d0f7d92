-------------------------- MODULE KernelLogProofs ---------------------------
(***************************************************************************)
(* Proofs about Terminal and KernelLog for every screen, every text that   *)
(* is logged, every initial ramdisk and every stack.                       *)
(*                                                                         *)
(* The first part is about the terminal alone.  Its inductive invariant    *)
(* adds to ScreenIsWindow that the cursor is on the screen, which a write  *)
(* needs to put its character into the row and column it means, and the    *)
(* shape of the buffer and of the paper.                                   *)
(*                                                                         *)
(* The second part is about the log.  Its inductive invariant says which   *)
(* locks are held at each place of the code, that a panic that began while *)
(* one was held gets no further than that lock, that what is logged ends   *)
(* with a newline, and that outside of write the framebuffer, the back     *)
(* buffer and the front buffer agree.                                      *)
(***************************************************************************)
EXTENDS KernelLog, TLAPS

TopOf(p) == IF Len(p) > Height THEN Len(p) - Height ELSE 0

\* A buffer with the cursor in row y is a window on the last rows of a paper.
Window(front, p, y) ==
  /\ y = Len(p) - 1 - TopOf(p)
  /\ \A c \in Cell :
       front[c] = IF TopOf(p) + c[1] + 1 <= Len(p) THEN p[TopOf(p) + c[1] + 1][c[2]] ELSE Blank

IsBuffer(front) == front = [c \in Cell |-> front[c]]

\* A sequence of rows, of at least one.
IsPaper(p) ==
  /\ \E S : p \in Seq(S)
  /\ Len(p) >= 1
  /\ \A i \in 1 .. Len(p) : p[i] = [x \in Col |-> p[i][x]]

IInv ==
  broken \/
    /\ cursor_x \in Col /\ cursor_x = px
    /\ IsBuffer(front_buffer) /\ IsPaper(paper)
    /\ Window(front_buffer, paper, cursor_y)

\* The flat index of a cell is read back as its row and its column.
LEMMA AtIndex ==
  ASSUME NEW y \in Nat, NEW x \in Col
  PROVE  At(y * Width + x) = <<y, x>>
  <1> DEFINE i == y * Width + x
             q == i \div Width
             r == i % Width
  <1>1. Width \in Nat /\ Width > 0 /\ x \in Nat /\ x < Width
    BY ScreenAssumption DEF Col
  <1>2. y * Width \in Nat /\ i \in Nat
    BY <1>1
  <1>3. q \in Nat /\ r \in Nat /\ r < Width /\ i = Width * q + r
    BY <1>1, <1>2
  <1>4. q = y
    <2> HIDE DEF q, r, i
    <2>1. CASE q > y
      <3>1. Width * q >= Width * (y + 1)
        BY <1>1, <1>3, <2>1
      <3> QED
        BY <1>1, <1>2, <1>3, <3>1 DEF i
    <2>2. CASE q < y
      <3>1. Width * y >= Width * (q + 1)
        BY <1>1, <1>3, <2>2
      <3> QED
        BY <1>1, <1>2, <1>3, <3>1 DEF i
    <2> QED
      BY <2>1, <2>2, <1>3
  <1>5. r = x
    <2> HIDE DEF q, r
    <2> QED
      BY <1>1, <1>2, <1>3, <1>4
  <1> QED
    BY <1>4, <1>5 DEF At

\* The cursor's row is the last of the paper, on the screen.
LEMMA CursorRow ==
  ASSUME NEW front, NEW p, NEW y, IsPaper(p), Window(front, p, y)
  PROVE  /\ y \in Row /\ TopOf(p) \in Nat /\ Len(p) \in Nat
         /\ TopOf(p) + y + 1 = Len(p)
         /\ y + 1 >= Height => y = Height - 1 /\ TopOf(p) = Len(p) - Height
         /\ y + 1 < Height => TopOf(p) = 0 /\ Len(p) < Height
  <1>1. Len(p) \in Nat /\ Len(p) >= 1
    BY DEF IsPaper
  <1> QED
    BY <1>1, ScreenAssumption DEF Window, TopOf, Row

\* new_line keeps the window: it scrolls exactly when the paper's new row is
\* below the screen, and the row that appears is blank.
LEMMA NewRow ==
  ASSUME NEW front, NEW p, IsBuffer(front), IsPaper(p), Window(front, p, cursor_y)
  PROVE  LET q == Append(p, BlankRow)
             y == IF Scrolls THEN Height - 1 ELSE cursor_y + 1
         IN  IsBuffer(Scrolled(front)) /\ IsPaper(q) /\ Window(Scrolled(front), q, y)
  <1> DEFINE q == Append(p, BlankRow)
             y == IF Scrolls THEN Height - 1 ELSE cursor_y + 1
             n == Len(p)
  <1>1. PICK S : p \in Seq(S)
    BY DEF IsPaper
  <1>2. p \in Seq(S \cup {BlankRow})
    BY <1>1
  <1>3. /\ q \in Seq(S \cup {BlankRow}) /\ n \in Nat /\ Len(q) = n + 1
        /\ \A i \in 1 .. n : q[i] = p[i]
        /\ q[n + 1] = BlankRow
    <2> HIDE DEF BlankRow
    <2> QED
      BY <1>2
  <1> HIDE DEF q
  <1>4. n >= 1 /\ \A i \in 1 .. n : p[i] = [x \in Col |-> p[i][x]]
    BY DEF IsPaper
  <1>5. IsPaper(q)
    <2>1. \A i \in 1 .. Len(q) : q[i] = [x \in Col |-> q[i][x]]
      <3> SUFFICES ASSUME NEW i \in 1 .. Len(q) PROVE q[i] = [x \in Col |-> q[i][x]]
        OBVIOUS
      <3>1. CASE i = n + 1
        BY <3>1, <1>3 DEF BlankRow
      <3>2. CASE i # n + 1
        <4>1. i \in 1 .. n
          BY <3>2, <1>3
        <4> QED
          BY <4>1, <1>3, <1>4, Zenon
      <3> QED
        BY <3>1, <3>2
    <2>2. Len(q) >= 1
      BY <1>3, <1>4
    <2> QED
      BY <1>3, <2>1, <2>2 DEF IsPaper
  <1>6. IsBuffer(Scrolled(front))
    BY Zenon DEF IsBuffer, Scrolled
  <1>7. /\ cursor_y \in Row /\ TopOf(p) \in Nat
        /\ TopOf(p) + cursor_y + 1 = n
        /\ cursor_y + 1 >= Height => cursor_y = Height - 1 /\ TopOf(p) = n - Height
        /\ cursor_y + 1 < Height => TopOf(p) = 0 /\ n < Height
    BY CursorRow
  <1>8. TopOf(q) = IF Scrolls THEN TopOf(p) + 1 ELSE 0
    <2>1. /\ n + 1 > Height => TopOf(q) = n + 1 - Height
          /\ ~(n + 1 > Height) => TopOf(q) = 0
      <3> HIDE DEF n
      <3>1. Len(q) = n + 1 /\ n \in Nat /\ Height \in Nat
        BY <1>3, ScreenAssumption
      <3>2. CASE n + 1 > Height
        <4>1. Len(q) > Height
          BY <3>1, <3>2
        <4>2. TopOf(q) = Len(q) - Height
          BY <4>1 DEF TopOf
        <4> QED
          BY <3>1, <3>2, <4>2
      <3>3. CASE ~(n + 1 > Height)
        <4>1. ~(Len(q) > Height)
          BY <3>1, <3>3
        <4> QED
          BY <3>3, <4>1 DEF TopOf
      <3> QED
        BY <3>2, <3>3
    <2>2. cursor_y \in Nat /\ Height \in Nat
      BY <1>7, ScreenAssumption DEF Row
    <2> HIDE DEF n
    <2>3. CASE Scrolls
      BY <1>3, <1>7, <2>1, <2>2, <2>3 DEF Scrolls
    <2>4. CASE ~Scrolls
      BY <1>3, <1>7, <2>1, <2>2, <2>4 DEF Scrolls
    <2> QED
      BY <2>3, <2>4
  <1>9. y = Len(q) - 1 - TopOf(q)
    <2>1. Len(q) = n + 1 /\ n \in Nat
      BY <1>3
    <2>2. cursor_y \in Nat /\ Height \in Nat
      BY <1>7, ScreenAssumption DEF Row
    <2> HIDE DEF n
    <2>3. CASE Scrolls
      <3>1. TopOf(q) = TopOf(p) + 1 /\ TopOf(p) = n - Height
        BY <2>2, <2>3, <1>7, <1>8 DEF Scrolls
      <3> QED
        BY <2>1, <2>2, <2>3, <3>1
    <2>4. CASE ~Scrolls
      <3>1. TopOf(q) = 0 /\ cursor_y + 1 = n
        BY <2>1, <2>2, <2>4, <1>7, <1>8 DEF Scrolls
      <3> QED
        BY <2>1, <2>2, <2>4, <3>1
    <2> QED
      BY <2>3, <2>4
  <1>10. \A c \in Cell : Scrolled(front)[c] =
           IF TopOf(q) + c[1] + 1 <= Len(q) THEN q[TopOf(q) + c[1] + 1][c[2]] ELSE Blank
    <2> SUFFICES ASSUME NEW c \in Cell
                 PROVE  Scrolled(front)[c] =
                          IF TopOf(q) + c[1] + 1 <= Len(q) THEN q[TopOf(q) + c[1] + 1][c[2]] ELSE Blank
      OBVIOUS
    <2>1. c[1] \in Row /\ c[2] \in Col /\ c[1] \in Nat
      BY DEF Cell, Row
    <2>2. \A i \in 1 .. n : q[i][c[2]] = p[i][c[2]]
      BY <1>3
    <2>3. q[n + 1][c[2]] = Blank
      BY <1>3, <2>1 DEF BlankRow
    <2>4. CASE Scrolls
      <3>1. TopOf(q) = n - Height + 1 /\ n - Height \in Nat
        BY <2>4, <1>7, <1>8, ScreenAssumption DEF Scrolls, Row
      <3>2. CASE c[1] + 1 < Height
        <4> DEFINE d == <<c[1] + 1, c[2]>>
        <4>1. d \in Cell /\ d[1] = c[1] + 1 /\ d[2] = c[2]
          BY <3>2, <2>1, ScreenAssumption DEF Cell, Row
        <4>2. Scrolled(front)[c] = front[d]
          BY <2>4, <3>2 DEF Scrolled
        <4>3. TopOf(p) = n - Height
          BY <2>4, <1>7 DEF Scrolls
        <4>4. TopOf(p) + d[1] + 1 \in 1 .. n
          BY <4>1, <4>3, <3>1, <3>2, <2>1, <1>3, ScreenAssumption, SMTT(30)
        <4>5. front[d] = p[TopOf(p) + d[1] + 1][d[2]]
          BY <4>1, <4>4 DEF Window
        <4>6. TopOf(p) + d[1] + 1 = TopOf(q) + c[1] + 1
          BY <4>1, <4>3, <3>1, <2>1
        <4> QED
          BY <4>1, <4>2, <4>4, <4>5, <4>6, <2>2, <1>3
      <3>3. CASE c[1] + 1 >= Height
        <4>1. c[1] = Height - 1
          BY <3>3, <2>1, ScreenAssumption DEF Row
        <4>2. Scrolled(front)[c] = Blank
          BY <2>4, <3>3, <2>1, ScreenAssumption DEF Scrolled
        <4>3. TopOf(q) + c[1] + 1 = n + 1
          BY <4>1, <3>1, <1>3, ScreenAssumption
        <4> QED
          BY <4>2, <4>3, <2>3, <1>3
      <3> QED
        BY <3>2, <3>3, <2>1, ScreenAssumption
    <2>5. CASE ~Scrolls
      <3>1. TopOf(q) = 0 /\ TopOf(p) = 0
        BY <2>5, <1>7, <1>8, ScreenAssumption DEF Scrolls, Row
      <3>2. Scrolled(front)[c] = front[c]
        BY <2>5 DEF Scrolled
      <3>3. front[c] = IF c[1] + 1 <= n THEN p[c[1] + 1][c[2]] ELSE Blank
        BY <3>1, <2>1 DEF Window
      <3>4. CASE c[1] + 1 <= n
        BY <3>1, <3>2, <3>3, <3>4, <2>1, <2>2, <1>3
      <3>5. CASE c[1] + 1 = n + 1
        BY <3>1, <3>2, <3>3, <3>5, <2>1, <2>3, <1>3
      <3>6. CASE c[1] + 1 > n + 1
        BY <3>1, <3>2, <3>3, <3>6, <2>1, <1>3
      <3> QED
        BY <3>4, <3>5, <3>6, <2>1, <1>3
    <2> QED
      BY <2>4, <2>5
  <1> QED
    BY <1>5, <1>6, <1>9, <1>10, Zenon DEF Window, q

\* A character put at the cursor is in the last row of the paper, where it is
\* printed.
LEMMA PutPrints ==
  ASSUME NEW front, NEW p, NEW y, NEW x \in Col, NEW v,
         IsBuffer(front), IsPaper(p), Window(front, p, y)
  PROVE  LET f == [front EXCEPT ![<<y, x>>] = v]
             q == [p EXCEPT ![Len(p)] = [p[Len(p)] EXCEPT ![x] = v]]
         IN  IsBuffer(f) /\ IsPaper(q) /\ Window(f, q, y)
  <1> DEFINE n == Len(p)
             row == [p[n] EXCEPT ![x] = v]
             f == [front EXCEPT ![<<y, x>>] = v]
             q == [p EXCEPT ![n] = row]
  <1>1. PICK S : p \in Seq(S)
    BY DEF IsPaper
  <1>2. n \in Nat /\ n >= 1 /\ n \in 1 .. n /\ \A i \in 1 .. n : p[i] = [z \in Col |-> p[i][z]]
    BY <1>1 DEF IsPaper
  <1>3. /\ y \in Row /\ TopOf(p) \in Nat /\ TopOf(p) + y + 1 = n
    BY CursorRow
  <1>4. row = [z \in Col |-> IF z = x THEN v ELSE p[n][z]]
    BY <1>2, Zenon
  <1> HIDE DEF row
  <1>5. q \in Seq(S \cup {row}) /\ Len(q) = n /\ q[n] = row
        /\ \A i \in 1 .. n : i # n => q[i] = p[i]
    <2>1. p \in Seq(S \cup {row})
      BY <1>1
    <2> QED
      BY <1>2, <2>1
  <1> HIDE DEF q
  <1>6. IsPaper(q)
    <2>1. \A i \in 1 .. n : q[i] = [z \in Col |-> q[i][z]]
      <3> SUFFICES ASSUME NEW i \in 1 .. n PROVE q[i] = [z \in Col |-> q[i][z]]
        OBVIOUS
      <3>1. CASE i = n
        BY <3>1, <1>4, <1>5
      <3>2. CASE i # n
        BY <3>2, <1>2, <1>5
      <3> QED
        BY <3>1, <3>2
    <2> QED
      BY <1>2, <1>5, <2>1 DEF IsPaper
  <1>7. f = [c \in Cell |-> IF c = <<y, x>> THEN v ELSE front[c]]
    BY <1>3, Zenon DEF IsBuffer, Cell
  <1> HIDE DEF f
  <1>8. IsBuffer(f)
    BY <1>7 DEF IsBuffer
  <1>9. TopOf(q) = TopOf(p)
    BY <1>5 DEF TopOf
  <1>10. ASSUME NEW c \in Cell
         PROVE  f[c] = IF TopOf(q) + c[1] + 1 <= Len(q) THEN q[TopOf(q) + c[1] + 1][c[2]] ELSE Blank
    <2> DEFINE i == TopOf(p) + c[1] + 1
    <2>1. c[1] \in Nat /\ c[2] \in Col /\ c = <<c[1], c[2]>>
      BY DEF Cell, Row
    <2>2. front[c] = IF i <= n THEN p[i][c[2]] ELSE Blank
      BY DEF Window
    <2>3. y \in Nat /\ (i = n <=> c[1] = y) /\ i \in Nat /\ i >= 1
      BY <1>2, <1>3, <2>1 DEF Row
    <2>4. f[c] = IF c = <<y, x>> THEN v ELSE front[c]
      BY <1>7
    <2>5. TopOf(q) + c[1] + 1 = i
      BY <1>9
    <2> HIDE DEF i, n
    <2>6. CASE i = n
      <3>1. q[i][c[2]] = IF c[2] = x THEN v ELSE p[n][c[2]]
        BY <2>6, <2>1, <1>4, <1>5
      <3>2. c = <<y, x>> <=> c[2] = x
        BY <2>1, <2>3, <2>6
      <3> QED
        BY <3>1, <3>2, <2>2, <2>3, <2>4, <2>5, <2>6, <1>5
    <2>7. CASE i # n
      <3>1. c # <<y, x>>
        BY <2>1, <2>3, <2>7
      <3>2. f[c] = front[c]
        BY <3>1, <2>4
      <3>3. i <= n => q[i] = p[i]
        BY <2>3, <2>7, <1>2, <1>5
      <3> QED
        BY <3>2, <3>3, <2>2, <2>5, <1>5
    <2> QED
      BY <2>6, <2>7
  <1>11. Window(f, q, y)
    <2>1. y = Len(q) - 1 - TopOf(q)
      BY <1>5, <1>9 DEF Window
    <2> QED
      BY <2>1, <1>10 DEF Window
  <1> QED
    BY <1>6, <1>8, <1>11 DEF f, q, row

\* A tab stays on the screen.
LEMMA TabOnScreen ==
  ASSUME NEW x \in Col
  PROVE  Tabbed(x) \in Col
  <1> DEFINE r == x % TabStop
  <1>1. x \in Nat /\ TabStop \in Nat /\ TabStop > 0 /\ Width \in Nat /\ Width > TabStop * TabStop
    BY ScreenAssumption DEF Col
  <1>2. r \in Nat /\ r < TabStop
    BY <1>1
  <1> HIDE DEF r
  <1>3. (r + 1) * TabStop \in Nat /\ (r + 1) * TabStop <= TabStop * TabStop
    BY <1>1, <1>2
  <1>4. TabStop * TabStop \in Nat
    BY <1>1
  <1> QED
    BY <1>1, <1>3, <1>4 DEF Tabbed, Col, r

\* What the paper does with a character, case by case.
LEMMA PaperCases ==
  ASSUME NEW c, Paper(c)
  PROVE  LET printed == [paper EXCEPT ![Len(paper)] =
                           [paper[Len(paper)] EXCEPT ![px] =
                              [character |-> c, foreground |-> foreground_color,
                               background |-> background_color]]]
         IN  /\ ~Text \/ c = "esc" => paper' = paper /\ px' = px
             /\ Text /\ c = "nl" => paper' = Append(paper, BlankRow) /\ px' = 0
             /\ Text /\ c = "cr" => paper' = paper /\ px' = 0
             /\ Text /\ c = "tab" => paper' = paper /\ px' = Tabbed(px)
             /\ Text /\ c \notin Control /\ px + 1 = Width =>
                  paper' = Append(printed, BlankRow) /\ px' = 0
             /\ Text /\ c \notin Control /\ px + 1 # Width => paper' = printed /\ px' = px + 1
  <1> DEFINE printed == [paper EXCEPT ![Len(paper)] =
                           [paper[Len(paper)] EXCEPT ![px] =
                              [character |-> c, foreground |-> foreground_color,
                               background |-> background_color]]]
             rolled == Append(printed, BlankRow)
  <1>1. IF ~Text \/ c = "esc" THEN UNCHANGED <<paper, px>>
        ELSE CASE c = "nl"  -> paper' = Append(paper, BlankRow) /\ px' = 0
               [] c = "cr"  -> px' = 0 /\ UNCHANGED paper
               [] c = "tab" -> px' = Tabbed(px) /\ UNCHANGED paper
               [] c \notin Control ->
                    IF px + 1 = Width
                    THEN paper' = rolled /\ px' = 0
                    ELSE paper' = printed /\ px' = px + 1
    BY Zenon DEF Paper
  <1> HIDE DEF printed, rolled
  <1>2. /\ ~Text \/ c = "esc" => paper' = paper /\ px' = px
        /\ Text /\ c = "nl" => paper' = Append(paper, BlankRow) /\ px' = 0
        /\ Text /\ c = "cr" => paper' = paper /\ px' = 0
        /\ Text /\ c = "tab" => paper' = paper /\ px' = Tabbed(px)
        /\ Text /\ c \notin Control /\ px + 1 = Width => paper' = rolled /\ px' = 0
        /\ Text /\ c \notin Control /\ px + 1 # Width => paper' = printed /\ px' = px + 1
    BY <1>1, Zenon DEF Control
  <1> QED
    BY <1>2 DEF rolled, printed

\* An empty screen is a window on one blank row.
LEMMA InitIInv == TerminalInit => IInv
  <1> SUFFICES ASSUME TerminalInit PROVE IInv
    OBVIOUS
  <1> DEFINE S == {BlankRow}
  <1>1. paper \in Seq(S) /\ Len(paper) = 1 /\ paper[1] = BlankRow
    <2> HIDE DEF BlankRow
    <2> QED
      BY DEF TerminalInit
  <1>2. IsPaper(paper)
    BY <1>1 DEF IsPaper, BlankRow
  <1>3. IsBuffer(front_buffer)
    BY DEF TerminalInit, IsBuffer
  <1>4. TopOf(paper) = 0
    BY <1>1, ScreenAssumption DEF TopOf
  <1>5. Window(front_buffer, paper, cursor_y)
    <2>1. cursor_y = Len(paper) - 1 - TopOf(paper)
      BY <1>1, <1>4 DEF TerminalInit
    <2>2. ASSUME NEW c \in Cell
          PROVE  front_buffer[c] = IF TopOf(paper) + c[1] + 1 <= Len(paper)
                                   THEN paper[TopOf(paper) + c[1] + 1][c[2]] ELSE Blank
      <3>1. c[1] \in Nat /\ c[2] \in Col
        BY DEF Cell, Row
      <3>2. front_buffer[c] = Blank
        BY DEF TerminalInit
      <3>3. paper[1][c[2]] = Blank
        BY <1>1, <3>1 DEF BlankRow
      <3> HIDE DEF Blank
      <3>4. CASE c[1] = 0
        BY <3>2, <3>3, <3>4, <1>1, <1>4
      <3>5. CASE c[1] # 0
        BY <3>1, <3>2, <3>5, <1>1, <1>4
      <3> QED
        BY <3>4, <3>5
    <2> QED
      BY <2>1, <2>2 DEF Window
  <1>6. TabStop * TabStop \in Nat /\ 0 \in Col
    BY ScreenAssumption DEF Col
  <1> QED
    BY <1>2, <1>3, <1>5, <1>6 DEF IInv, TerminalInit

\* Every character of write keeps the window.
LEMMA WriteKeeps ==
  ASSUME IInv, ~broken, NEW c, WriteChar(c)
  PROVE  IInv'
  <1> SUFFICES ASSUME ~broken' PROVE IInv'
    BY DEF IInv
  <1>1. /\ cursor_x \in Col /\ cursor_x = px /\ IsBuffer(front_buffer) /\ IsPaper(paper)
        /\ Window(front_buffer, paper, cursor_y)
    BY DEF IInv
  <1>2. ~Panics(c) /\ Paper(c)
    BY DEF WriteChar
  <1>3. cursor_x \in Nat /\ Width \in Nat /\ cursor_x < Width /\ 0 \in Col /\ cursor_y \in Nat
    <2>1. cursor_y \in Row
      BY <1>1, CursorRow
    <2> QED
      BY <1>1, <2>1, ScreenAssumption DEF Col, Row
  <1> DEFINE v == [character |-> c, foreground |-> foreground_color, background |-> background_color]
             printed == [paper EXCEPT ![Len(paper)] = [paper[Len(paper)] EXCEPT ![px] = v]]
  <1>4. IsBuffer(Put(c)) /\ IsPaper(printed) /\ Window(Put(c), printed, cursor_y)
    <2>1. Put(c) = [front_buffer EXCEPT ![<<cursor_y, px>>] = v]
      BY <1>1, <1>3, AtIndex, Zenon DEF Put, CursorIndex
    <2>2. px \in Col
      BY <1>1
    <2> DEFINE f == [front_buffer EXCEPT ![<<cursor_y, px>>] = v]
    <2> HIDE DEF v
    <2>3. IsBuffer(f) /\ IsPaper(printed) /\ Window(f, printed, cursor_y)
      BY <1>1, <2>2, PutPrints, Zenon
    <2> QED
      BY <2>1, <2>3, Zenon
  <1>5. CASE Character(c)
    <2>1. Text /\ c \notin Control
      BY <1>5 DEF Character
    <2>2. CASE cursor_x + 1 >= Width
      <3>1. px + 1 = Width
        BY <1>1, <1>3, <2>2
      <3>2. paper' = Append(printed, BlankRow) /\ px' = 0
        BY <1>2, <2>1, <3>1, PaperCases
      <3>3. NewLine(Put(c)) /\ Undrawable(Scrolled(Put(c))) = {}
        BY <1>2, <1>5, <2>1, <2>2 DEF Character, Panics
      <3>4. /\ front_buffer' = Scrolled(Put(c)) /\ cursor_x' = 0
            /\ cursor_y' = IF Scrolls THEN Height - 1 ELSE cursor_y + 1
        BY <3>3 DEF NewLine
      <3> HIDE DEF printed
      <3>5. LET y == IF Scrolls THEN Height - 1 ELSE cursor_y + 1
            IN  /\ IsBuffer(Scrolled(Put(c))) /\ IsPaper(Append(printed, BlankRow))
                /\ Window(Scrolled(Put(c)), Append(printed, BlankRow), y)
        BY <1>4, NewRow
      <3>6. /\ IsBuffer(front_buffer)' /\ IsPaper(paper)' /\ Window(front_buffer, paper, cursor_y)'
        BY <3>2, <3>4, <3>5, Zenon DEF IsBuffer, IsPaper, Window, TopOf, Cell, Row, Col
      <3> QED
        BY <1>3, <3>2, <3>4, <3>6 DEF IInv, Col
    <2>3. CASE ~(cursor_x + 1 >= Width)
      <3>1. px + 1 # Width /\ cursor_x + 1 \in Col
        BY <1>1, <1>3, <2>3 DEF Col
      <3>2. paper' = printed /\ px' = px + 1
        BY <1>2, <2>1, <3>1, PaperCases, Zenon
      <3>3. front_buffer' = Put(c) /\ cursor_x' = cursor_x + 1 /\ cursor_y' = cursor_y
        BY <1>5, <2>3 DEF Character
      <3> HIDE DEF printed
      <3>4. /\ IsBuffer(front_buffer)' /\ IsPaper(paper)' /\ Window(front_buffer, paper, cursor_y)'
        BY <1>4, <3>2, <3>3 DEF IsBuffer, IsPaper, Window, TopOf, Cell, Row, Col
      <3> QED
        BY <1>1, <3>1, <3>2, <3>3, <3>4 DEF IInv, Col
    <2> QED
      BY <2>2, <2>3
  <1>6. CASE c = "nl" /\ Feed
    <2>1. Text
      BY <1>6 DEF Feed
    <2>2. paper' = Append(paper, BlankRow) /\ px' = 0
      BY <1>2, <1>6, <2>1, PaperCases, Zenon
    <2>3. NewLine(front_buffer) /\ Undrawable(Scrolled(front_buffer)) = {}
      BY <1>2, <1>6, <2>1 DEF Feed, Panics
    <2>4. /\ front_buffer' = Scrolled(front_buffer) /\ cursor_x' = 0
          /\ cursor_y' = IF Scrolls THEN Height - 1 ELSE cursor_y + 1
      BY <2>3 DEF NewLine
    <2>5. LET y == IF Scrolls THEN Height - 1 ELSE cursor_y + 1
          IN  /\ IsBuffer(Scrolled(front_buffer)) /\ IsPaper(Append(paper, BlankRow))
              /\ Window(Scrolled(front_buffer), Append(paper, BlankRow), y)
      BY <1>1, NewRow
    <2>6. /\ IsBuffer(front_buffer)' /\ IsPaper(paper)' /\ Window(front_buffer, paper, cursor_y)'
      BY <2>2, <2>4, <2>5, Zenon DEF IsBuffer, IsPaper, Window, TopOf, Cell, Row, Col
    <2> QED
      BY <1>3, <2>2, <2>4, <2>6 DEF IInv, Col
  <1>7. ASSUME front_buffer' = front_buffer, cursor_y' = cursor_y, paper' = paper
        PROVE  /\ IsBuffer(front_buffer)' /\ IsPaper(paper)' /\ Window(front_buffer, paper, cursor_y)'
    BY <1>1, <1>7 DEF IsBuffer, IsPaper, Window, TopOf, Cell, Row, Col
  <1>8. CASE MoveOrEscape(c)
    <2>1. Text /\ c \in {"cr", "tab", "esc"} /\ front_buffer' = front_buffer /\ cursor_y' = cursor_y
      BY <1>8 DEF MoveOrEscape
    <2>2. paper' = paper
      BY <1>2, <2>1, PaperCases, Zenon
    <2>3. cursor_x' \in Col /\ cursor_x' = px'
      <3>1. CASE c = "cr"
        BY <1>2, <1>3, <1>8, <2>1, <3>1, PaperCases, Zenon DEF MoveOrEscape
      <3>2. CASE c = "tab"
        <4>1. cursor_x' = Tabbed(cursor_x)
          BY <1>8, <3>2 DEF MoveOrEscape
        <4>2. px' = Tabbed(px)
          BY <1>2, <2>1, <3>2, PaperCases, Zenon
        <4> QED
          BY <4>1, <4>2, <1>1, TabOnScreen
      <3>3. CASE c = "esc"
        <4>1. cursor_x' = cursor_x
          BY <1>8, <3>3 DEF MoveOrEscape
        <4>2. px' = px
          BY <1>2, <2>1, <3>3, PaperCases, Zenon
        <4> QED
          BY <4>1, <4>2, <1>1
      <3> QED
        BY <2>1, <3>1, <3>2, <3>3
    <2> QED
      BY <1>7, <2>1, <2>2, <2>3 DEF IInv, Col
  <1>9. CASE Escape(c)
    <2>1. ~Text /\ front_buffer' = front_buffer /\ cursor_y' = cursor_y /\ cursor_x' = cursor_x
      BY <1>9 DEF Escape
    <2>2. paper' = paper /\ px' = px
      BY <1>2, <2>1, PaperCases, Zenon
    <2> QED
      BY <1>1, <1>7, <2>1, <2>2 DEF IInv, Col
  <1> QED
    BY <1>5, <1>6, <1>8, <1>9 DEF WriteChar

\* The front buffer is a window on the last rows of what was written, whatever
\* the size of the screen and the text (write and new_line of terminal.rs).
THEOREM ScreenStaysWindow == TerminalSpec => []ScreenIsWindow
  <1>1. IInv /\ [TerminalNext]_termVars => IInv'
    <2> SUFFICES ASSUME IInv, [TerminalNext]_termVars PROVE IInv'
      OBVIOUS
    <2>1. CASE TerminalNext
      BY <2>1, WriteKeeps DEF TerminalNext
    <2>2. CASE UNCHANGED termVars
      BY <2>2 DEF termVars, state, IInv, IsBuffer, IsPaper, Window, TopOf, Cell, Row, Col
    <2> QED
      BY <2>1, <2>2
  <1>2. IInv => ScreenIsWindow
    BY DEF IInv, ScreenIsWindow, Window, TopOf, Top
  <1> QED
    BY InitIInv, <1>1, <1>2, PTL DEF TerminalSpec
-----------------------------------------------------------------------------

\* Where the log macros are called from.
Callers == {"kernel", "framebuffer", "panic_depth", "frames"}

\* The places in a log macro, but for the last.
InLog == {"lock_logger", "serial", "lock_terminal", "write"}

\* Unless a panic has begun while a lock was held, the locks that are held
\* follow from where the thread is.  If one has, the thread gets no further
\* than the lock that it left held.
Locks ==
  /\ caller \in Callers
  /\ panics \in Nat /\ depth \in Nat
  /\ ~inside =>
       /\ pc # "deadlock"
       /\ pc \in {"serial", "lock_terminal"} => held = {"CURRENT_LOGGER"}
       /\ pc \in {"write", "unlock"} => held = {"CURRENT_LOGGER", "TERMINAL"}
       /\ pc \notin {"serial", "lock_terminal", "write", "unlock"} => held = {}
  /\ inside =>
       /\ panics > 0
       /\ pc \in {"panic", "lock_logger", "serial", "lock_terminal", "deadlock"}
       /\ "CURRENT_LOGGER" \in held \/ "TERMINAL" \in held
       /\ pc \in {"serial", "lock_terminal"} => "TERMINAL" \in held

\* A record ends with a newline, which write has not come past.
IsLine(r) == (\E S : r \in Seq(S)) /\ Len(r) >= 1 /\ r[Len(r)] = "nl"

Lines == pc \in InLog => IsLine(record) /\ pos \in 1 .. Len(record)

\* The framebuffer shows the back buffer.  The front buffer differs from it
\* only while a record is written, and after that only if the newline was
\* swallowed.
Shows(sc, buffer) == \A c \in Cell : sc[c] = Shown(buffer[c])

Buffers ==
  /\ IsBuffer(front_buffer) /\ IsBuffer(back_buffer) /\ Shows(screen, back_buffer)
  /\ ~inside /\ ~swallowed /\ pc # "write" => front_buffer = back_buffer
  /\ broken => inside

\* The panic handler goes on when its message has been given to ArchWriter.
Reports ==
  /\ caller = "panic_depth" /\ pc \in {"lock_logger", "serial"} => record = PanicInfo \o <<"nl">>
  /\ caller = "panic_depth" /\ pc \in {"lock_terminal", "write", "unlock"} => reported
  /\ caller = "frames" /\ pc \in InLog \cup {"unlock"} => reported
  /\ pc \in {"panic_depth", "panic_trace", "frames", "halt", "spin"} => reported

LogInv == Locks /\ Lines /\ Buffers /\ Reports /\ IInv

\* The panic handler goes on to the trace or stops.
LEMMA AfterPanic ==
  ASSUME NEW d \in Nat
  PROVE  AfterDepth(d) \in {"panic_trace", "halt", "spin"}
  <1>1. d \in {0, 1} \/ d = 2 \/ d > 2
    OBVIOUS
  <1> QED
    BY <1>1 DEF AfterDepth

\* A panic is entered with the locks of the place it comes from.
LEMMA PanicKeeps ==
  ASSUME Locks, NEW locks, Panic(locks), caller' = caller, depth' = depth,
         held \cup locks = {} \/ "CURRENT_LOGGER" \in held \cup locks \/ "TERMINAL" \in held \cup locks
  PROVE  Locks'
  <1>1. pc' = "panic" /\ held' = held \cup locks
    BY DEF Panic
  <1>2. panics' \in Nat /\ panics' > 0
    BY DEF Panic, Locks
  <1>3. inside' <=> (inside \/ held \cup locks # {})
    BY Zenon DEF Panic
  <1>4. inside => held \cup locks # {}
    BY SMTT(30) DEF Locks
  <1> QED
    BY <1>1, <1>2, <1>3, <1>4 DEF Locks

\* Every step takes and gives back the locks as Locks says.
LEMMA LocksKept ==
  ASSUME Locks, Next
  PROVE  Locks'
  <1> USE DEF Locks, Callers, tracing
  <1>1. CASE LockLogger
    BY <1>1 DEF LockLogger, logging, panicking
  <1>2. CASE Serial
    BY <1>2 DEF Serial, logging, panicking
  <1>3. CASE LockTerminal
    BY <1>3 DEF LockTerminal, logging, panicking
  <1>4. CASE Write
    <2>1. pc = "write" /\ held = {"CURRENT_LOGGER", "TERMINAL"} /\ caller' = caller /\ depth' = depth
      BY <1>4 DEF Write
    <2>2. CASE ~broken'
      BY <1>4, <2>1, <2>2, SMTT(30) DEF Write, NoPanic
    <2>3. CASE broken'
      <3>1. Panic(IF Text THEN {"FRAMEBUFFER"} ELSE {})
        BY <1>4, <2>3 DEF Write
      <3> QED
        BY <2>1, <3>1, PanicKeeps
    <2> QED
      BY <2>2, <2>3
  <1>5. CASE Unlock
    BY <1>5 DEF Unlock, logging, panicking
  <1>6. CASE StartFramebuffer
    BY <1>6 DEF StartFramebuffer, Log, panicking
  <1>7. CASE UseFramebuffer
    <2>1. pc = "framebuffer" /\ held = {} /\ depth' = depth
      BY <1>7 DEF UseFramebuffer
    <2>2. CASE Panic({}) /\ UNCHANGED logging
      BY <2>1, <2>2, PanicKeeps DEF logging
    <2>3. CASE ~(Panic({}) /\ UNCHANGED logging)
      BY <1>7, <2>1, <2>3, SMTT(30) DEF UseFramebuffer, Log, NoPanic, logging
    <2> QED
      BY <2>2, <2>3
  <1>8. CASE FindFile
    <2>1. pc = "find_file" /\ held = {} /\ depth' = depth
      BY <1>8, SMTT(30) DEF FindFile
    <2>2. CASE Panic({}) /\ UNCHANGED logging
      BY <2>1, <2>2, PanicKeeps, SMTT(30) DEF logging
    <2>3. CASE ~(Panic({}) /\ UNCHANGED logging)
      BY <1>8, <2>1, <2>3, SMTT(30) DEF FindFile, UseFont, Log, NoPanic, logging
    <2> QED
      BY <2>2, <2>3
  <1>9. CASE NewTerminal
    <2>1. pc = "new_terminal" /\ held = {} /\ depth' = depth
      BY <1>9, SMTT(30) DEF NewTerminal
    <2>2. CASE Panic({"TERMINAL"}) /\ UNCHANGED <<present, logging>>
      BY <2>1, <2>2, PanicKeeps DEF logging
    <2>3. CASE ~(Panic({"TERMINAL"}) /\ UNCHANGED <<present, logging>>)
      BY <1>9, <2>1, <2>3 DEF NewTerminal, Log, NoPanic
    <2> QED
      BY <2>2, <2>3
  <1>10. CASE PanicLog
    BY <1>10 DEF PanicLog, Log, panicking
  <1>11. CASE CountPanic
    <2>1. pc = "panic_depth" /\ UNCHANGED <<held, caller, inside, panics>> /\ depth' \in Nat
      BY <1>11 DEF CountPanic, logging
    <2>2. pc' \in {"panic_trace", "halt", "spin"}
      BY <1>11, AfterPanic DEF CountPanic
    <2> QED
      BY <2>1, <2>2
  <1>12. CASE StartTrace
    BY <1>12, SMTT(30) DEF StartTrace, logging
  <1>13. CASE TraceFrame
    <2>1. pc = "frames" /\ held = {} /\ depth' = depth
      BY <1>13 DEF TraceFrame, TraceStep
    <2>2. CASE Panic({}) /\ UNCHANGED logging
      BY <2>1, <2>2, PanicKeeps, SMTT(30) DEF logging
    <2>3. CASE ~(Panic({}) /\ UNCHANGED logging)
      BY <1>13, <2>1, <2>3 DEF TraceFrame, TraceStep, Log, NoPanic, logging
    <2> QED
      BY <2>2, <2>3
  <1>14. CASE KernelLogs
    BY <1>14 DEF KernelLogs, Log, panicking
  <1>15. CASE Exception
    <2>1. panics = 0 /\ Panic({}) /\ caller' = caller /\ depth' = depth
      BY <1>15 DEF Exception, logging
    <2> QED
      BY <2>1, PanicKeeps
  <1> QED
    BY <1>1, <1>2, <1>3, <1>4, <1>5, <1>6, <1>7, <1>8, <1>9, <1>10, <1>11, <1>12, <1>13, <1>14,
       <1>15, Zenon DEF Next, Thread
\* A log macro begins with a line.
LEMMA LogLine ==
  ASSUME NEW S, NEW text \in Seq(S), NEW to, Log(text, to)
  PROVE  Lines'
  <1>1. record' = text \o <<"nl">> /\ pos' = 1
    BY DEF Log
  <1> DEFINE T == S \cup {"nl"}
             line == text \o <<"nl">>
  <1>2. text \in Seq(T) /\ Len(text) \in Nat
    OBVIOUS
  <1>3. line \in Seq(T) /\ Len(line) = Len(text) + 1 /\ line[Len(text) + 1] = "nl"
    BY <1>2
  <1>4. IsLine(line) /\ 1 \in 1 .. Len(line)
    <2> HIDE DEF line, T
    <2> QED
      BY <1>2, <1>3 DEF IsLine
  <1> QED
    BY <1>1, <1>4 DEF Lines, IsLine

\* What is logged stays a line.
LEMMA LinesKept ==
  ASSUME Locks, Lines, Next
  PROVE  Lines'
  <1>1. Notice \in Seq({"n"}) /\ PanicInfo \in Seq({"!"}) /\ TraceLine \in Seq({"t"})
    BY DEF Notice, PanicInfo, TraceLine
  <1>2. ASSUME pc' \notin InLog
        PROVE  Lines'
    BY <1>2 DEF Lines
  <1>3. ASSUME NEW locks, Panic(locks)
        PROVE  Lines'
    BY <1>2, <1>3 DEF Panic, InLog
  <1>4. CASE LockLogger \/ Serial \/ LockTerminal
    BY <1>4 DEF Lines, InLog, LockLogger, Serial, LockTerminal, logging
  <1>5. CASE Write
    <2>1. IsLine(record) /\ pos \in 1 .. Len(record) /\ record' = record
      BY <1>5 DEF Write, Lines, InLog
    <2>2. CASE broken'
      BY <1>3, <1>5, <2>2 DEF Write
    <2>3. CASE ~broken' /\ pos = Len(record)
      BY <1>2, <1>5, <2>3 DEF Write, InLog
    <2>4. CASE ~broken' /\ pos # Len(record)
      <3>1. pos' = pos + 1
        BY <1>5, <2>4 DEF Write
      <3>2. pos' \in 1 .. Len(record)
        BY <2>1, <2>4, <3>1 DEF IsLine
      <3> QED
        BY <2>1, <3>2 DEF Lines, IsLine
    <2> QED
      BY <2>2, <2>3, <2>4
  <1>6. CASE Unlock
    BY <1>2, <1>6 DEF Unlock, Locks, Callers, InLog
  <1>7. CASE StartFramebuffer
    BY <1>1, <1>7, LogLine DEF StartFramebuffer
  <1>8. CASE UseFramebuffer
    BY <1>1, <1>2, <1>3, <1>8, LogLine, SMTT(30) DEF UseFramebuffer, InLog
  <1>9. CASE FindFile
    <2>1. CASE UNCHANGED pc
      BY <1>2, <1>9, <2>1 DEF FindFile, InLog
    <2>2. CASE UseFont
      BY <1>1, <1>2, <1>3, <2>2, LogLine DEF UseFont, InLog
    <2>3. CASE Log(Notice, "kernel")
      BY <1>1, <2>3, LogLine
    <2>4. CASE Panic({})
      BY <1>3, <2>4
    <2> QED
      BY <1>9, <2>1, <2>2, <2>3, <2>4, SMTT(30) DEF FindFile
  <1>10. CASE NewTerminal
    BY <1>1, <1>3, <1>10, LogLine DEF NewTerminal
  <1>11. CASE PanicLog
    BY <1>1, <1>11, LogLine DEF PanicLog
  <1>12. CASE CountPanic
    BY <1>2, <1>12, AfterPanic DEF CountPanic, Locks, InLog
  <1>13. CASE StartTrace
    BY <1>2, <1>13, SMTT(30) DEF StartTrace, InLog
  <1>14. CASE TraceFrame
    <2>1. CASE pc' = "halt"
      BY <1>2, <2>1 DEF InLog
    <2>2. CASE Panic({})
      BY <1>3, <2>2
    <2>3. CASE Log(TraceLine, "frames")
      BY <1>1, <2>3, LogLine
    <2> QED
      BY <1>14, <2>1, <2>2, <2>3 DEF TraceFrame, TraceStep
  <1>15. CASE KernelLogs
    BY <1>15, RecordsAssumption, LogLine DEF KernelLogs
  <1>16. CASE Exception
    BY <1>3, <1>16, SMTT(30) DEF Exception
  <1> QED
    BY <1>4, <1>5, <1>6, <1>7, <1>8, <1>9, <1>10, <1>11, <1>12, <1>13, <1>14, <1>15, <1>16
       DEF Next, Thread

\* The panic handler does not pass its log call before the message is out.
LEMMA ReportsKept ==
  ASSUME Locks, Reports, Next
  PROVE  Reports'
  <1> USE DEF Reports, InLog
  <1>1. ASSUME NEW locks, Panic(locks)
        PROVE  Reports'
    BY <1>1 DEF Panic
  <1>2. ASSUME NEW text, Log(text, "kernel")
        PROVE  Reports'
    BY <1>2 DEF Log
  <1>3. CASE LockLogger
    BY <1>3 DEF LockLogger, logging, history
  <1>4. CASE Serial
    <2>1. reported' <=> (reported \/ record = PanicInfo \o <<"nl">>)
      BY <1>4, Zenon DEF Serial
    <2> QED
      BY <1>4, <2>1 DEF Serial, logging
  <1>5. CASE LockTerminal
    BY <1>5 DEF LockTerminal, logging, history
  <1>6. CASE Write
    <2>1. CASE broken'
      BY <1>1, <1>6, <2>1 DEF Write
    <2>2. CASE ~broken'
      BY <1>6, <2>2 DEF Write
    <2> QED
      BY <2>1, <2>2, SMTT(30)
  <1>7. CASE Unlock
    BY <1>7 DEF Unlock, logging, history, Locks, Callers
  <1>8. CASE StartFramebuffer
    BY <1>8, SMTT(30) DEF StartFramebuffer, Log
  <1>9. CASE UseFramebuffer
    BY <1>1, <1>2, <1>9, SMTT(30) DEF UseFramebuffer
  <1>10. CASE FindFile
    BY <1>1, <1>2, <1>10, SMTT(30) DEF FindFile, UseFont
  <1>11. CASE NewTerminal
    BY <1>1, <1>2, <1>11 DEF NewTerminal
  <1>12. CASE PanicLog
    BY <1>12, SMTT(30) DEF PanicLog, Log
  <1>13. CASE CountPanic
    BY <1>13, AfterPanic DEF CountPanic, Locks, history
  <1>14. CASE StartTrace
    BY <1>14, SMTT(30) DEF StartTrace, history
  <1>15. CASE TraceFrame
    <2>1. pc = "frames" /\ reported' = reported
      BY <1>15 DEF TraceFrame, TraceStep, history
    <2>2. CASE Panic({})
      BY <1>1, <2>2
    <2>3. CASE pc' = "halt" \/ Log(TraceLine, "frames")
      BY <2>1, <2>3, SMTT(30) DEF Log
    <2> QED
      BY <1>15, <2>2, <2>3, SMTT(30) DEF TraceFrame, TraceStep
  <1>16. CASE KernelLogs
    BY <1>2, <1>16 DEF KernelLogs
  <1>17. CASE Exception
    BY <1>1, <1>17 DEF Exception
  <1> QED
    BY <1>3, <1>4, <1>5, <1>6, <1>7, <1>8, <1>9, <1>10, <1>11, <1>12, <1>13, <1>14, <1>15, <1>16,
       <1>17, Zenon DEF Next, Thread
\* render draws what it copies into the back buffer, and copies everything
\* unless it panics.
LEMMA RenderAgrees ==
  ASSUME NEW front, IsBuffer(front), Shows(screen, back_buffer), Render(front)
  PROVE  /\ IsBuffer(back_buffer') /\ Shows(screen', back_buffer')
         /\ Undrawable(front) = {} => back_buffer' = front
  <1> DEFINE before(c) == \A d \in Undrawable(front) : c[1] * Width + c[2] < d[1] * Width + d[2]
             drawn == {c \in Changed(front) : before(c)}
  <1>1. /\ screen' = [c \in Cell |-> IF c \in drawn THEN Shown(front[c]) ELSE screen[c]]
        /\ back_buffer' = [c \in Cell |-> IF c \in drawn THEN front[c] ELSE back_buffer[c]]
    BY Zenon DEF Render
  <1>2. Undrawable(front) = {} => drawn = Changed(front)
    OBVIOUS
  <1> HIDE DEF drawn
  <1>3. IsBuffer(back_buffer')
    BY <1>1, SMTT(30) DEF IsBuffer
  <1>4. Shows(screen', back_buffer')
    BY <1>1 DEF Shows
  <1>5. ASSUME Undrawable(front) = {}
        PROVE  back_buffer' = front
    <2>1. \A c \in Cell : back_buffer'[c] = front[c]
      BY <1>1, <1>2, <1>5, SMTT(30) DEF Changed
    <2> QED
      BY <1>3, <2>1, SMTT(30) DEF IsBuffer
  <1> QED
    BY <1>3, <1>4, <1>5, SMTT(30)

\* A character keeps the buffers, and after a newline in text there is nothing
\* left to draw.
LEMMA WriteBuffers ==
  ASSUME IsBuffer(front_buffer), IsBuffer(back_buffer), Shows(screen, back_buffer),
         NEW c, WriteChar(c)
  PROVE  /\ IsBuffer(front_buffer') /\ IsBuffer(back_buffer') /\ Shows(screen', back_buffer')
         /\ c = "nl" /\ Text /\ ~broken' => front_buffer' = back_buffer'
  <1>1. ASSUME NEW front, IsBuffer(front), NewLine(front)
        PROVE  /\ IsBuffer(front_buffer') /\ IsBuffer(back_buffer') /\ Shows(screen', back_buffer')
               /\ Undrawable(Scrolled(front)) = {} => front_buffer' = back_buffer'
    <2>1. IsBuffer(Scrolled(front))
      BY <1>1, Zenon DEF IsBuffer, Scrolled
    <2>2. front_buffer' = Scrolled(front) /\ Render(Scrolled(front))
      BY <1>1 DEF NewLine
    <2> QED
      BY <2>1, <2>2, RenderAgrees
  <1>2. IsBuffer(Put(c))
    BY DEF IsBuffer, Put
  <1>3. CASE Character(c)
    <2>1. c \notin Control
      BY <1>3 DEF Character
    <2>2. CASE NewLine(Put(c))
      BY <1>1, <1>2, <2>1, <2>2 DEF Control
    <2>3. CASE front_buffer' = Put(c) /\ UNCHANGED <<back_buffer, screen>>
      BY <1>2, <2>1, <2>3 DEF Control
    <2> QED
      BY <1>3, <2>2, <2>3 DEF Character
  <1>4. CASE c = "nl" /\ Feed
    <2>1. Text /\ NewLine(front_buffer)
      BY <1>4 DEF Feed
    <2>2. ~broken' => Undrawable(Scrolled(front_buffer)) = {}
      BY <1>4, <2>1 DEF WriteChar, Panics
    <2> QED
      BY <1>1, <2>1, <2>2
  <1>5. CASE MoveOrEscape(c)
    BY <1>5 DEF MoveOrEscape
  <1>6. CASE Escape(c)
    BY <1>6, SMTT(30) DEF Escape
  <1> QED
    BY <1>3, <1>4, <1>5, <1>6 DEF WriteChar

\* The other steps leave the terminal alone, and leave write only by a panic.
LEMMA OtherSteps ==
  ASSUME Locks, Next, ~Write
  PROVE  /\ UNCHANGED termVars /\ swallowed' = swallowed
         /\ inside => inside'
         /\ pc = "write" => inside'
  <1>1. ASSUME NEW locks, Panic(locks)
        PROVE  inside => inside'
    BY <1>1, Zenon DEF Panic
  <1>2. CASE Exception
    <2>1. UNCHANGED termVars /\ swallowed' = swallowed
      BY <1>2 DEF Exception, history
    <2>2. pc = "write" => held # {}
      BY DEF Locks
    <2>3. inside' <=> (inside \/ held \cup {} # {})
      BY <1>2, Zenon DEF Exception, Panic
    <2> QED
      BY <2>1, <2>2, <2>3
  <1>3. CASE LockLogger \/ Serial \/ LockTerminal \/ Unlock
    BY <1>3 DEF LockLogger, Serial, LockTerminal, Unlock, panicking, history
  <1>4. CASE StartFramebuffer \/ KernelLogs \/ PanicLog
    BY <1>4 DEF StartFramebuffer, KernelLogs, PanicLog, panicking, history
  <1>5. CASE UseFramebuffer
    BY <1>1, <1>5, SMTT(30) DEF UseFramebuffer, NoPanic, history
  <1>6. CASE FindFile
    BY <1>1, <1>6 DEF FindFile, UseFont, NoPanic, history
  <1>7. CASE NewTerminal
    BY <1>1, <1>7, SMTT(30) DEF NewTerminal, NoPanic, history
  <1>8. CASE CountPanic \/ StartTrace
    BY <1>8, SMTT(30) DEF CountPanic, StartTrace, history
  <1>9. CASE TraceFrame
    BY <1>1, <1>9, Zenon DEF TraceFrame, TraceStep, NoPanic, history
  <1> QED
    BY <1>2, <1>3, <1>4, <1>5, <1>6, <1>7, <1>8, <1>9 DEF Next, Thread

\* The framebuffer and the two buffers agree outside of write.
LEMMA BuffersKept ==
  ASSUME LogInv, Next
  PROVE  Buffers' /\ IInv'
  <1>1. CASE Write
    <2> DEFINE c == record[pos]
    <2>1. pc = "write" /\ ~inside /\ WriteChar(c)
      BY <1>1 DEF LogInv, Locks, Write
    <2>2. ~broken
      BY <2>1 DEF LogInv, Buffers
    <2>3. IInv'
      BY <2>1, <2>2, WriteKeeps DEF LogInv
    <2>4. /\ IsBuffer(front_buffer') /\ IsBuffer(back_buffer') /\ Shows(screen', back_buffer')
          /\ c = "nl" /\ Text /\ ~broken' => front_buffer' = back_buffer'
      BY <2>1, WriteBuffers DEF LogInv, Buffers
    <2>5. broken' => inside'
      <3>1. CASE broken'
        <4>1. Panic(IF Text THEN {"FRAMEBUFFER"} ELSE {})
          BY <1>1, <3>1 DEF Write
        <4>2. inside' <=> (inside \/ held \cup (IF Text THEN {"FRAMEBUFFER"} ELSE {}) # {})
          BY <4>1, Zenon DEF Panic
        <4>3. held # {}
          BY <2>1 DEF LogInv, Locks
        <4> QED
          BY <4>2, <4>3
      <3> QED
        BY <3>1
    <2>6. ASSUME ~inside', ~swallowed', pc' # "write"
          PROVE  front_buffer' = back_buffer'
      <3>1. ~broken'
        BY <2>5, <2>6
      <3>2. pos = Len(record)
        BY <1>1, <2>6, <3>1 DEF Write
      <3>3. c = "nl"
        BY <2>1, <3>2 DEF LogInv, Lines, InLog, IsLine
      <3>4. swallowed' = ~Text
        BY <1>1, <3>3 DEF Write
      <3>5. Text
        BY <2>6, <3>4, Zenon
      <3> QED
        BY <2>4, <3>1, <3>3, <3>5
    <2> QED
      BY <2>3, <2>4, <2>5, <2>6, Zenon DEF Buffers, IsBuffer, Shows, Shown
  <1>2. CASE ~Write
    <2>1. /\ UNCHANGED termVars /\ swallowed' = swallowed
          /\ inside => inside'
          /\ pc = "write" => inside'
      BY <1>2, OtherSteps, SMTT(30) DEF LogInv
    <2>2. Buffers'
      BY <2>1, Zenon DEF LogInv, Buffers, IsBuffer, Shows, Shown, termVars, state
    <2>3. IInv'
      BY <2>1 DEF LogInv, termVars, state, IInv, IsBuffer, IsPaper, Window, TopOf, Cell, Row, Col
    <2> QED
      BY <2>2, <2>3
  <1> QED
    BY <1>1, <1>2, SMTT(30)

LEMMA LogInit == Init => LogInv
  <1> SUFFICES ASSUME Init PROVE LogInv
    OBVIOUS
  <1>1. Locks
    BY DEF Init, Locks, Callers
  <1>2. Lines /\ Reports
    BY SMTT(30) DEF Init, Lines, Reports, InLog
  <1>3. Buffers
    BY DEF Init, TerminalInit, Buffers, IsBuffer, Shows
  <1> QED
    BY <1>1, <1>2, <1>3, InitIInv DEF Init, LogInv

LEMMA LogInvariant == Spec => []LogInv
  <1>1. LogInv /\ [Next]_vars => LogInv'
    <2> SUFFICES ASSUME LogInv, [Next]_vars PROVE LogInv'
      OBVIOUS
    <2>1. CASE Next
      BY <2>1, LocksKept, LinesKept, ReportsKept, BuffersKept DEF LogInv
    <2>2. CASE UNCHANGED vars
      <3>1. /\ UNCHANGED <<pc, held, record, caller, pos, depth, inside, panics, swallowed, reported>>
            /\ UNCHANGED termVars
        BY <2>2, SMTT(30) DEF vars, logging, panicking, tracing, history
      <3>2. Locks' /\ Lines' /\ Reports'
        BY <3>1, SMTT(30) DEF LogInv, Locks, Lines, IsLine, Reports
      <3>3. Buffers'
        BY <3>1, ZenonT(60) DEF LogInv, Buffers, IsBuffer, Shows, Shown, termVars, state
      <3>4. IInv'
        BY <3>1 DEF LogInv, termVars, state, IInv, IsBuffer, IsPaper, Window, TopOf, Cell, Row, Col
      <3> QED
        BY <3>2, <3>3, <3>4 DEF LogInv
    <2> QED
      BY <2>1, <2>2
  <1> QED
    BY LogInit, <1>1, PTL DEF Spec

\* Whatever is logged, and wherever an exception comes, what the log macros have
\* written is on the screen when they return (render draws at the end of a line
\* only, and only the cells that differ from the back buffer), unless an escape
\* sequence has swallowed the newline.
THEOREM LoggedIsShown == Spec => []ScreenShown
  <1>1. LogInv => ScreenShown
    <2> SUFFICES ASSUME LogInv, pc \in {"kernel", "panic_depth", "frames", "halt"}, ~swallowed,
                        NEW c \in Cell
                 PROVE  screen[c] = Shown(front_buffer[c])
      BY DEF ScreenShown
    <2>1. ~inside
      BY DEF LogInv, Locks
    <2>2. front_buffer = back_buffer /\ Shows(screen, back_buffer)
      BY <2>1 DEF LogInv, Buffers
    <2> QED
      BY <2>2 DEF Shows
  <1> QED
    BY <1>1, LogInvariant, PTL

\* The locks of the logger, the terminal and the framebuffer are taken in an
\* order in which none is taken twice: the thread waits for itself only after a
\* panic that began while a lock was held.
THEOREM NeverSelfDeadlocks == Spec => []NoSelfDeadlock
  <1>1. LogInv => NoSelfDeadlock
    BY DEF LogInv, Locks, NoSelfDeadlock
  <1> QED
    BY <1>1, LogInvariant, PTL

\* The terminal below the logger shows the last rows of what was logged, through
\* panics and exceptions as well.
THEOREM LogIsWindow == Spec => []ScreenIsWindow
  <1>1. LogInv => ScreenIsWindow
    BY DEF LogInv, IInv, ScreenIsWindow, Window, TopOf, Top
  <1> QED
    BY <1>1, LogInvariant, PTL

\* The thread that halts after a panic, or spins after too many, has reported
\* it: PanicReported of the thread that does not wait for a lock.
HaltReported == pc \in {"halt", "spin"} => reported

\* The panic handler never reaches its halt loop without having given the
\* information of a panic to the debug port.
THEOREM HaltIsReported == Spec => []HaltReported
  <1>1. LogInv => HaltReported
    BY DEF LogInv, Reports, HaltReported
  <1> QED
    BY <1>1, LogInvariant, PTL
=============================================================================
