----------------------------- MODULE AcpiPrintf -----------------------------
(***************************************************************************)
(* AcpiOsVprintf (platform/acpi/acpica_os_layer.rs): the scanner of        *)
(* printf format strings through which ACPICA prints.                      *)
(*                                                                         *)
(* The caller's format string is chosen one character at a time, as the    *)
(* loop reads it.  A directive is printed by core::fmt, so that its output *)
(* is the conversion and the padding that core::fmt is told.  A string     *)
(* argument is known by its length, a number or a character not at all:    *)
(* no decision depends on them (d, i, u, o, x and X are treated alike and  *)
(* are one specifier here).  Characters are valid ones, and numbers are    *)
(* positive: core::fmt puts the zeros before a minus sign, and prints a    *)
(* digit where C prints none ("%.0d" of 0).                                *)
(***************************************************************************)
EXTENDS Integers, Sequences, SequencesExt

CONSTANTS
  Plain,       \* characters that have no meaning in a directive
  NonZero,     \* the digits other than 0 that are used
  StringLen,   \* lengths of string arguments
  MaxFormat    \* bound on the length of the format string

Digit == {"0"} \cup NonZero
Value(c) == (CHOOSE i \in 1 .. 10 : <<"0", "1", "2", "3", "4", "5", "6", "7", "8", "9">>[i] = c) - 1
Unimplemented == {"+"}
Specifier == {"d", "s", "c", "p"}
Char == Plain \cup Digit \cup Unimplemented \cup Specifier \cup {"%", "-", ".", "*"}

Absent == -1

VARIABLES
  format,        \* format_string, as far as it has been read
  state,         \* State
  string_start,  \* string_start of State::RawString
  info,          \* format_info
  output,        \* what was written: characters and conversions
  arguments,     \* the string arguments that were taken
  status         \* "running", "returned", or how it ended

vars == <<format, state, string_start, info, output, arguments, status>>

FormatInfo ==
  [left_aligned : BOOLEAN, fill_char : {" ", "0"}, width : Nat, precision : Nat \cup {Absent}]

Default == [left_aligned |-> FALSE, fill_char |-> " ", width |-> 0, precision |-> Absent]

TypeOK ==
  /\ format \in Seq(Char) /\ Len(format) <= MaxFormat
  /\ state \in {"RawString", "FormatStart", "Flags", "Width", "Precision"}
  /\ string_start \in 0 .. Len(format)
  /\ info \in FormatInfo
  /\ arguments \in Seq(StringLen)
  /\ status \in {"running", "returned", "panicked", "truncated", "not_utf8", "looping"}
  \* Only a state that reads precision digits has one, and a raw string none.
  /\ state \in {"RawString", "FormatStart"} /\ status = "running" => info = Default
  /\ state = "Precision" <=> info.precision # Absent

Init ==
  /\ format = <<>>
  /\ state = "RawString"
  /\ string_start = 0
  /\ info = Default
  /\ output = <<>>
  /\ arguments = <<>>
  /\ status = "running"
-----------------------------------------------------------------------------
\* A character that is written as it is.
RawChar(c) == [type |-> "raw", char |-> c]

\* format_string[string_start..]
Raw == [i \in 1 .. Len(format) - string_start |-> RawChar(format[string_start + i])]

\* The loop reads c in one of the states.
Read(c, states) ==
  /\ status = "running" /\ state \in states
  /\ Len(format) < MaxFormat
  /\ format' = Append(format, c)

Panic(how) == status' = how /\ UNCHANGED <<state, string_start, info, output, arguments>>

\* In a raw string every character other than "%" is as good as a plain one.
ReadPlain(c) ==
  /\ c \in Plain /\ Read(c, {"RawString"})
  /\ UNCHANGED <<state, string_start, info, output, arguments, status>>

\* Mutant: the characters before the directive are not written.
StartFormatSilent ==
  /\ Read("%", {"RawString"})
  /\ state' = "FormatStart" /\ info' = Default
  /\ UNCHANGED <<string_start, output, arguments, status>>

StartFormat ==
  /\ Read("%", {"RawString"})
  /\ output' = output \o Raw
  /\ state' = "FormatStart" /\ info' = Default
  /\ UNCHANGED <<string_start, arguments, status>>

ReadFlag(c) ==
  /\ c \in {"-", "0"} /\ Read(c, {"FormatStart", "Flags"})
  /\ state' = "Flags"
  /\ info' = IF c = "-" THEN [info EXCEPT !.left_aligned = TRUE] ELSE [info EXCEPT !.fill_char = "0"]
  /\ UNCHANGED <<string_start, output, arguments, status>>

ReadWidth(c) ==
  /\ \/ c \in NonZero /\ Read(c, {"FormatStart", "Flags"})
     \/ c \in Digit /\ Read(c, {"Width"})
  /\ state' = "Width"
  /\ info' = [info EXCEPT !.width = @ * 10 + Value(c)]
  /\ UNCHANGED <<string_start, output, arguments, status>>

StartPrecision ==
  /\ Read(".", {"FormatStart", "Flags", "Width"})
  /\ state' = "Precision"
  /\ info' = [info EXCEPT !.precision = 0]
  /\ UNCHANGED <<string_start, output, arguments, status>>

ReadPrecision(c) ==
  /\ c \in Digit /\ Read(c, {"Precision"})
  /\ info' = [info EXCEPT !.precision = @ * 10 + Value(c)]
  /\ UNCHANGED <<state, string_start, output, arguments, status>>

\* "%%": the second one starts the next raw string.
ReadEscape ==
  /\ Read("%", {"FormatStart"})
  /\ state' = "RawString" /\ string_start' = Len(format)
  /\ info' = Default
  /\ UNCHANGED <<output, arguments, status>>

Directive == {"FormatStart", "Flags", "Width", "Precision"}

\* print_type writes item, and the next raw string starts after the specifier.
PrintType(item) ==
  /\ output' = Append(output, item)
  /\ state' = "RawString" /\ string_start' = Len(format) + 1
  /\ info' = Default
  /\ UNCHANGED status

\* The fill characters that make up for a width, and their side.  A width of 0
\* asks for none.
Padding(left, fill, width) ==
  [left |-> left /\ width > 0, fill |-> IF width > 0 THEN fill ELSE " ", width |-> width]

\* A conversion with the directive's format_info: its padding, and the length
\* of the string argument and of the part that is printed.
Item(type, i, padding, argument, length) ==
  [type |-> type, info |-> i, padding |-> padding, argument |-> argument, length |-> length]

\* A character is written without regard to format_info.
PrintChar ==
  /\ Read("c", Directive)
  /\ PrintType(Item("c", info, Padding(FALSE, " ", 0), 0, 0))
  /\ UNCHANGED arguments

\* With a precision, the width is replaced by it and the fill character by 0.
PrintNumber ==
  /\ Read("d", Directive)
  /\ info.precision # Absent => info.width <= info.precision
  /\ PrintType(Item("d", info, IF info.precision = Absent
                               THEN Padding(info.left_aligned, info.fill_char, info.width)
                               ELSE Padding(info.left_aligned, "0", info.precision), 0, 0))
  /\ UNCHANGED arguments

\* The loops over a string test its first byte only: a string that is not
\* empty is taken to be as long as the precision.
StringLength(n) == IF n = 0 THEN 0 ELSE info.precision

PrintString(n) ==
  /\ Read("s", Directive)
  /\ n = 0 \/ info.precision # Absent
  /\ PrintType(Item("s", info, Padding(info.left_aligned, info.fill_char, info.width),
                    n, StringLength(n)))
  /\ arguments' = Append(arguments, n)

\* What lies behind the string's end may be no UTF-8.
PrintStringNotUtf8(n) ==
  /\ Read("s", Directive)
  /\ n > 0 /\ info.precision > n
  /\ status' = "not_utf8"
  /\ arguments' = Append(arguments, n)
  /\ UNCHANGED <<state, string_start, info, output>>

\* Without a precision the loop over a string that is not empty has no end.
PrintStringLoops(n) ==
  /\ Read("s", Directive)
  /\ n > 0 /\ info.precision = Absent
  /\ status' = "looping"
  /\ arguments' = Append(arguments, n)
  /\ UNCHANGED <<state, string_start, info, output>>

\* Flags, specifiers and characters that end in a panic.
Malformed(c) ==
  /\ \/ c \in Unimplemented \cup Plain \cup {"p", "*"} /\ Read(c, Directive)
     \/ c = "%" /\ Read(c, Directive \ {"FormatStart"})
     \/ c = "-" /\ Read(c, {"Width", "Precision"})
     \/ c = "." /\ Read(c, {"Precision"})
     \/ c = "d" /\ Read(c, Directive) /\ info.precision # Absent /\ info.width > info.precision
  /\ Panic("panicked")

\* The end of the format string.
Return ==
  /\ status = "running" /\ state = "RawString"
  /\ output' = output \o Raw
  /\ status' = "returned"
  /\ UNCHANGED <<format, state, string_start, info, arguments>>

EndsInside ==
  /\ status = "running" /\ state # "RawString"
  /\ Panic("truncated")
  /\ UNCHANGED format

Next ==
  \/ \E c \in Char : ReadPlain(c) \/ ReadFlag(c) \/ ReadWidth(c) \/ ReadPrecision(c) \/ Malformed(c)
  \/ StartFormat \/ StartPrecision \/ ReadEscape
  \/ PrintChar \/ PrintNumber
  \/ \E n \in StringLen : PrintString(n) \/ PrintStringNotUtf8(n) \/ PrintStringLoops(n)
  \/ Return \/ EndsInside

Spec == Init /\ [][Next]_vars
-----------------------------------------------------------------------------

\* The directive that the C standard reads in f[i .. j]: flags, then a
\* width that starts with no zero, then a precision.
IsDirective(f, i, j, flags, width) ==
  /\ f[i] = "%" /\ f[j] \in Specifier
  /\ \A k \in i + 1 .. flags : f[k] \in {"-", "0"}
  /\ \A k \in flags + 1 .. width : f[k] \in Digit
  /\ flags < width => f[flags + 1] # "0"
  /\ \/ width + 1 = j
     \/ /\ width + 1 < j /\ f[width + 1] = "."
        /\ \A k \in width + 2 .. j - 1 : f[k] \in Digit

Number(f, i, j) == FoldLeft(LAMBDA v, c : v * 10 + Value(c), 0, SubSeq(f, i, j))

InfoOf(f, i, j, flags, width) ==
  [left_aligned |-> \E k \in i + 1 .. flags : f[k] = "-",
   fill_char |-> IF \E k \in i + 1 .. flags : f[k] = "0" THEN "0" ELSE " ",
   width |-> Number(f, flags + 1, width),
   precision |-> IF width + 1 = j THEN Absent ELSE Number(f, width + 2, j - 1)]

Unsupported == [type |-> "unsupported"]

\* What C prints for the directive, n being the length of its string argument.
\* A width is filled up with spaces, on the right if left-aligned.  Zeros go to
\* the left of a number only: those of a precision, which is its least number
\* of digits, and those of the flag 0, which "-" and a precision overrule.  For
\* a string a precision is the greatest length, and C leaves the flag 0 open.
Conversion(type, i, n) ==
  CASE type = "c" -> Item("c", i, Padding(i.left_aligned, " ", i.width), 0, 0)
    [] type = "s" -> Item("s", i, Padding(i.left_aligned, i.fill_char, i.width), n,
                          IF i.precision = Absent \/ n < i.precision THEN n ELSE i.precision)
    [] type = "d" /\ i.precision = Absent ->
         Item("d", i, Padding(i.left_aligned, IF i.left_aligned THEN " " ELSE i.fill_char, i.width),
              0, 0)
    [] type = "d" /\ i.precision >= i.width -> Item("d", i, Padding(FALSE, "0", i.precision), 0, 0)
    [] OTHER -> Unsupported

\* What the code is known to print instead of the conversion c: a character
\* without its width, a left-aligned number with its zeros on the right, and a
\* string that is too short as if it were as long as its precision.
Deviations(c) ==
  {d \in {[c EXCEPT !.padding = Padding(FALSE, " ", 0)]} : c.type = "c"}
    \cup {d \in {[c EXCEPT !.padding = Padding(TRUE, "0", c.padding.width)]} :
            /\ c.type = "d" /\ c.info.left_aligned
            /\ c.info.fill_char = "0" \/ c.info.precision # Absent}
    \cup {d \in {[c EXCEPT !.length = c.info.precision]} :
            c.type = "s" /\ 0 < c.argument /\ c.argument < c.info.precision}

\* The output that f asks for, up to its first unsupported directive.
Reference(f) ==
  LET ends(i) == {e \in (i + 1 .. Len(f)) \X (i .. Len(f)) \X (i .. Len(f)) :
                    i <= e[2] /\ e[2] <= e[3] /\ e[3] < e[1] /\ IsDirective(f, i, e[1], e[2], e[3])}
      ref[i \in 1 .. Len(f) + 1, k \in 1 .. Len(f) + 1] ==
        IF i > Len(f) THEN <<>>
        ELSE IF f[i] # "%" THEN <<RawChar(f[i])>> \o ref[i + 1, k]
        ELSE IF i < Len(f) /\ f[i + 1] = "%" THEN <<RawChar("%")>> \o ref[i + 2, k]
        ELSE IF ends(i) = {} THEN <<Unsupported>>
        ELSE LET e == CHOOSE e \in ends(i) : TRUE
                 string == f[e[1]] = "s"
                 c == Conversion(f[e[1]], InfoOf(f, i, e[1], e[2], e[3]),
                                 IF string THEN arguments[k] ELSE 0)
             IN  IF c = Unsupported THEN <<c>>
                 ELSE <<c>> \o ref[e[1] + 1, IF string THEN k + 1 ELSE k]
  IN  ref[1, 1]

\* When AcpiOsVprintf returns, it has written every character and every
\* directive of the format string, in order, once, and as C does with its flags,
\* width and precision, except for the Deviations.  It panics at a character
\* only if nothing that follows could make it a directive that print_type
\* implements, and at the end of the format string only if that is inside a
\* directive.
OutputExact ==
  /\ status = "returned" =>
       LET ref == Reference(format)
       IN  /\ Len(output) = Len(ref)
           /\ \A k \in DOMAIN ref :
                \/ output[k] = ref[k]
                \/ ref[k].type \in {"c", "d", "s"} /\ output[k] \in Deviations(ref[k])
  /\ status = "panicked" => Last(Reference(Append(format, "c"))) = Unsupported
  /\ status = "truncated" => Last(Reference(format)) = Unsupported

\* What is written for a character or a number is what C prints: "to get closer
\* to the standard".
PrintsAsC ==
  status = "returned" =>
    LET ref == Reference(format)
    IN  \A k \in DOMAIN ref : ref[k].type \in {"c", "d"} => output[k] = ref[k]

\* "formatted string should be UTF-8": no byte behind a string argument is
\* taken for a part of it.
StringsAreUtf8 == status # "not_utf8"

\* "Check final state, print end of format string": the end is reached, since
\* no conversion takes forever.
ConversionsEnd == status # "looping"
=============================================================================
