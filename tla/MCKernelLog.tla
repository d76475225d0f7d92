----------------------------- MODULE MCKernelLog ----------------------------
\* KernelLog on a screen of two rows and five columns, with tab stops of two.
EXTENDS KernelLog, TLC

MCChar == {}
MCUnknown == {"u"}

\* Text that wraps, moves the cursor and changes colours; escape sequences that
\* end, that are left open and that overflow; the last glyph, drawn or left over.
MCRecords ==
  { <<"a", "b">>,
    <<"a", "b", "u", "d", "e", "f">>,
    <<"tab", "a", "cr", "b">>,
    <<"esc", "[", "3", "1", "m", "a", "esc", "[", "m", " ">>,
    <<"esc", "[", "4", "8", ";", "5", ";", "9", "m", " ">>,
    <<"a", "esc", "[">>,
    <<"esc", "[", "9", "9", "9">>,
    <<"z">>,
    <<"z", "esc">> }

Archive(nodes, padding, font) == [nodes |-> nodes, padding |-> padding, font |-> font]
MCArchives ==
  { Archive(<<"other", "font", "trailer">>, 9, "valid"),
    Archive(<<"font">>, 0, "invalid"),
    Archive(<<"font">>, 0, "short"),
    Archive(<<"other">>, 2, "valid"),
    Archive(<<"other">>, 3, "valid") }

Frame(next, ip) == [next |-> next, ip |-> ip]
MCStacks ==
  { [first |-> 2, frames |-> (2 :> Frame(4, 1) @@ 4 :> Frame(0, 1))],
    [first |-> 2, frames |-> (2 :> Frame(2, 1))],
    [first |-> 2, frames |-> (2 :> Frame(3, 1))],
    [first |-> 2, frames |-> (2 :> Frame(6, 1))],
    [first |-> 2, frames |-> (2 :> Frame(4, 0))] }
=============================================================================
