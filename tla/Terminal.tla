------------------------------ MODULE Terminal ------------------------------
(***************************************************************************)
(* The text terminal on the framebuffer (terminal.rs): what write does     *)
(* with one character of the text, the escape sequences included.          *)
(*                                                                         *)
(* A cell is <<row, column>>; the buffers of the code are flat, and a cell *)
(* is at row * width + column.  The framebuffer is seen cell by cell.      *)
(* Characters are strings of one character, or the name of a control       *)
(* character; a colour is the name of its table and an index.              *)
(*                                                                         *)
(* paper and px are not in the code.  They are what a terminal with an     *)
(* endless roll of paper would have printed, and the column it is at.      *)
(***************************************************************************)
EXTENDS Integers, Sequences

CONSTANTS
  Char,        \* the characters that are written
  Width, Height,
  TabStop,     \* 8
  Unknown,     \* characters from num_glyphs on
  LastGlyph,   \* the last character of the font
  U32Max

\* A tab never leaves the screen: the furthest one goes to column 64, and the
\* screen has more columns than that (640 pixels are 80 columns).  The index of
\* a cell fits in a u16.
ASSUME ScreenAssumption ==
  /\ Width \in Nat /\ Height \in Nat /\ TabStop \in Nat
  /\ Width > TabStop * TabStop /\ Height > 0 /\ TabStop > 0
  /\ Width * Height <= 65536

Row == 0 .. Height - 1
Col == 0 .. Width - 1
Cell == Row \X Col
Control == {"esc", "nl", "cr", "tab"}
Digit == [c \in {"0", "1", "2", "3", "4", "5", "6", "7", "8", "9"} |->
            CHOOSE d \in 0 .. 9 : <<"0", "1", "2", "3", "4", "5", "6", "7", "8", "9">>[d + 1] = c]

White == <<"bright", 7>>
Black == <<"vga", 0>>
Blank == [character |-> " ", foreground |-> White, background |-> Black]
BlankRow == [x \in Col |-> Blank]

VARIABLES
  front_buffer, back_buffer,   \* cell -> [character, foreground, background]
  mode,       \* [state, args]: "text", "esc1", "esc2", "arg", "end"
  cursor_x, cursor_y,
  foreground_color, background_color,
  screen,     \* cell -> what the framebuffer shows there
  broken,     \* a character has made write panic
  paper, px

state == <<mode, cursor_x, cursor_y, foreground_color, background_color>>
termVars == <<front_buffer, back_buffer, screen, state, broken, paper, px>>

\* The flat index of the cursor, and the cell at a flat index.
CursorIndex == cursor_y * Width + cursor_x
At(i) == <<i \div Width, i % Width>>

\* What render draws: a space is a box in the background colour, a character
\* that the font lacks is a question mark.
Shown(sc) ==
  IF sc.character = " " THEN <<" ", sc.background>>
  ELSE <<IF sc.character \in Unknown THEN "?" ELSE sc.character, sc.foreground, sc.background>>

\* Terminal::new, on a framebuffer that has been cleared.
TerminalInit ==
  /\ front_buffer = [c \in Cell |-> Blank]
  /\ back_buffer = [c \in Cell |-> Blank]
  /\ screen = [c \in Cell |-> Shown(Blank)]
  /\ mode = [state |-> "text", args |-> <<>>]
  /\ cursor_x = 0 /\ cursor_y = 0
  /\ foreground_color = White /\ background_color = Black
  /\ broken = FALSE
  /\ paper = <<BlankRow>> /\ px = 0
-----------------------------------------------------------------------------
\* The cells that render finds changed, and those among them whose glyph is
\* empty: get_character compares the end of the last glyph with >=, and the
\* first line of the empty slice is out of bounds.
Changed(front) == {c \in Cell : front[c] # back_buffer[c]}
Undrawable(front) == {c \in Changed(front) : front[c].character = LastGlyph}

\* Mutant: the drawn characters are not remembered.
RenderForgets(front) ==
  /\ screen' = [c \in Cell |-> IF c \in Changed(front) THEN Shown(front[c]) ELSE screen[c]]
  /\ UNCHANGED back_buffer

\* render draws the changed cells in order, up to one that panics.
Render(front) ==
  LET before(c) == \A d \in Undrawable(front) : c[1] * Width + c[2] < d[1] * Width + d[2]
      drawn == {c \in Changed(front) : before(c)}
  IN  /\ screen' = [c \in Cell |-> IF c \in drawn THEN Shown(front[c]) ELSE screen[c]]
      /\ back_buffer' = [c \in Cell |-> IF c \in drawn THEN front[c] ELSE back_buffer[c]]

Scrolls == cursor_y + 1 >= Height

\* Mutant: the bottom row keeps what it shows.
ScrolledKeepsRow(front) ==
  IF ~Scrolls THEN front
  ELSE [c \in Cell |-> IF c[1] + 1 < Height THEN front[<<c[1] + 1, c[2]>>] ELSE front[c]]

\* new_line moves the rows up if the cursor is in the last one.
Scrolled(front) ==
  IF ~Scrolls THEN front
  ELSE [c \in Cell |-> IF c[1] + 1 < Height THEN front[<<c[1] + 1, c[2]>>] ELSE Blank]

\* new_line, and the cursor_x = 0 that follows it unless render panics.
NewLine(front) ==
  /\ front_buffer' = Scrolled(front)
  /\ cursor_y' = IF Scrolls THEN Height - 1 ELSE cursor_y + 1
  /\ Render(Scrolled(front))
  /\ cursor_x' = IF Undrawable(Scrolled(front)) = {} THEN 0 ELSE cursor_x

\* The buffer with a character at the cursor.
Put(c) ==
  [front_buffer EXCEPT ![At(CursorIndex)] =
     [character |-> c, foreground |-> foreground_color, background |-> background_color]]

Text == mode.state = "text"

\* A character that is shown, in text mode.  The cursor wraps at the end of the
\* row.
Character(c) ==
  /\ Text /\ c \notin Control
  /\ IF cursor_x + 1 >= Width
     THEN NewLine(Put(c))
     ELSE /\ front_buffer' = Put(c)
          /\ cursor_x' = cursor_x + 1
          /\ UNCHANGED <<back_buffer, screen, cursor_y>>
  /\ UNCHANGED <<mode, foreground_color, background_color>>

Feed ==
  /\ Text
  /\ NewLine(front_buffer)
  /\ UNCHANGED <<mode, foreground_color, background_color>>

\* The tab stop is computed from the column's place in its own tab stop.
Tabbed(x) == ((x % TabStop) + 1) * TabStop

\* A carriage return, a tab or the start of an escape sequence, in text mode.
MoveOrEscape(c) ==
  /\ Text /\ c \in {"cr", "tab", "esc"}
  /\ cursor_x' = CASE c = "cr" -> 0
                   [] c = "tab" -> Tabbed(cursor_x)
                   [] c = "esc" -> cursor_x
  /\ mode' = IF c = "esc" THEN [state |-> "esc1", args |-> <<>>] ELSE mode
  /\ UNCHANGED <<front_buffer, back_buffer, screen, cursor_y, foreground_color, background_color>>
-----------------------------------------------------------------------------
\* The colours 0 to 255 of "38;5;n" and "48;5;n"; others have no effect.
Palette(n, colour) ==
  CASE n \in 0 .. 7     -> <<"vga", n>>
    [] n \in 8 .. 15    -> <<"bright", n - 8>>
    [] n \in 16 .. 231  -> <<"cube", n - 16>>
    [] n \in 232 .. 255 -> <<"grey", n>>
    [] OTHER            -> colour

\* The colour that the arguments of an "m" give to a ground (30 and 38 for the
\* foreground, 40 and 48 for the background), or what it was before.
ColorAfter(args, base, colour, default) ==
  CASE Len(args) = 0 \/ args = <<0>> -> default
    [] Len(args) = 1 /\ args[1] \in base .. base + 7 -> <<"vga", args[1] - base>>
    [] Len(args) = 3 /\ args[1] = base + 8 /\ args[2] = 5 -> Palette(args[3], colour)
    [] Len(args) = 5 /\ args[1] = base + 8 /\ args[2] = 2 ->
         <<"rgb", args[3] % 256, args[4] % 256, args[5] % 256>>
    [] OTHER -> colour

Mode(s, args) == [state |-> s, args |-> args]

\* The mode after a character of an escape sequence: up to five arguments,
\* separated by semicolons, of which an empty one but for the last is zero.
ModeAfter(c) ==
  LET args == mode.args
      n == Len(args)
      last == args[n] * 10 + Digit[c]
  IN  CASE mode.state = "esc1" /\ c = "[" -> Mode("esc2", <<>>)
        [] mode.state = "esc2" /\ c \in DOMAIN Digit -> Mode("arg", <<Digit[c]>>)
        [] mode.state = "esc2" /\ c = ";" -> Mode("end", <<0>>)
        [] mode.state = "arg" /\ c \in DOMAIN Digit -> Mode("arg", [args EXCEPT ![n] = last])
        [] mode.state = "arg" /\ c = ";" /\ n < 5 -> Mode("end", args)
        [] mode.state = "end" /\ c \in DOMAIN Digit -> Mode("arg", Append(args, Digit[c]))
        [] mode.state = "end" /\ c = ";" /\ n < 4 -> Mode("end", Append(args, 0))
        [] OTHER -> Mode("text", <<>>)

\* An argument overflows a u32 while its next digit is added.
Overflows(c) ==
  /\ mode.state = "arg" /\ c \in DOMAIN Digit
  /\ mode.args[Len(mode.args)] * 10 + Digit[c] + 48 > U32Max

\* A character in an escape sequence, a newline among them, is not shown.
Escape(c) ==
  /\ ~Text
  /\ IF Overflows(c)
     THEN UNCHANGED <<mode, foreground_color, background_color>>
     ELSE LET sets == c = "m" /\ mode.state \in {"esc2", "arg"}
          IN  /\ mode' = ModeAfter(c)
              /\ foreground_color' = IF sets THEN ColorAfter(mode.args, 30, foreground_color, White)
                                     ELSE foreground_color
              /\ background_color' = IF sets THEN ColorAfter(mode.args, 40, background_color, Black)
                                     ELSE background_color
  /\ UNCHANGED <<front_buffer, back_buffer, screen, cursor_x, cursor_y>>
-----------------------------------------------------------------------------
\* The roll of paper prints the same character.
Paper(c) ==
  LET row == [paper[Len(paper)] EXCEPT ![px] =
                [character |-> c, foreground |-> foreground_color, background |-> background_color]]
      printed == [paper EXCEPT ![Len(paper)] = row]
  IN  IF ~Text \/ c = "esc" THEN UNCHANGED <<paper, px>>
      ELSE CASE c = "nl"  -> paper' = Append(paper, BlankRow) /\ px' = 0
             [] c = "cr"  -> px' = 0 /\ UNCHANGED paper
             [] c = "tab" -> px' = Tabbed(px) /\ UNCHANGED paper
             [] c \notin Control ->
                  IF px + 1 = Width
                  THEN paper' = Append(printed, BlankRow) /\ px' = 0
                  ELSE paper' = printed /\ px' = px + 1

\* Writing the character panics: render meets an empty glyph, or an argument
\* overflows (the kernel is built with overflow checks).
Panics(c) ==
  \/ Text /\ c = "nl" /\ Undrawable(Scrolled(front_buffer)) # {}
  \/ Text /\ c \notin Control /\ cursor_x + 1 >= Width /\ Undrawable(Scrolled(Put(c))) # {}
  \/ ~Text /\ Overflows(c)

\* One character of Terminal::write.
WriteChar(c) ==
  /\ \/ Character(c)
     \/ c = "nl" /\ Feed
     \/ MoveOrEscape(c)
     \/ Escape(c)
  /\ broken' = Panics(c)
  /\ Paper(c)

TerminalNext == ~broken /\ \E c \in Char : WriteChar(c)

\* Characters written one after the other.
TerminalSpec == TerminalInit /\ [][TerminalNext]_termVars
-----------------------------------------------------------------------------
Top == IF Len(paper) > Height THEN Len(paper) - Height ELSE 0

\* The front buffer is a window on the last rows of the paper, with the cursor
\* where the paper is printed at: wrapping and scrolling neither lose a row nor
\* repeat one, and the rows that appear are blank.
ScreenIsWindow ==
  ~broken =>
    /\ cursor_x = px
    /\ cursor_y = Len(paper) - 1 - Top
    /\ \A c \in Cell :
         front_buffer[c] = IF Top + c[1] + 1 <= Len(paper) THEN paper[Top + c[1] + 1][c[2]] ELSE Blank
=============================================================================
