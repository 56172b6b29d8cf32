----------------------------- MODULE MCFirmware -----------------------------
(* Disks of two and three sectors. *)
EXTENDS Firmware

SectorsOf == <<2, 3>>
Opt(n, v) == [length |-> n, value |-> v]
Chip(scratch, fifo) == [scratch |-> scratch, fifo |-> fifo]
Works == Chip(TRUE, 3)
Runs(r, c, t) == [options |-> << >>, open |-> FALSE, requests |-> r, tools |-> t, changes |-> c, faults |-> 1,
                  reply |-> <<"x", "x">>, keys |-> 0, port |-> Unset, bps |-> 115200, chip |-> Works]
SomeLines == {<<Opt(6, TRUE)>>, <<Opt(1, FALSE), Opt(1, FALSE), Opt(1, FALSE)>>, <<Opt(2, FALSE), Opt(2, TRUE)>>}

SomePorts == {Unset, [form |-> "number", value |-> 2], [form |-> "number", value |-> 5], [form |-> "0x", value |-> 1016]}
SomeChips == {Works, Chip(FALSE, 0), Chip(TRUE, 0), Chip(TRUE, 2)}

\* The driver alone; a tool twice, and after one that
\* left its stream open; both; what CONFIG.SYS says; CFGTSR.
SomeScenarios ==
    {Runs(4, 2, 0), Runs(0, 0, 2), Runs(1, 0, 1),
     [Runs(0, 0, 1) EXCEPT !.open = TRUE, !.faults = 2]}
        \cup {[Runs(0, 0, 0) EXCEPT !.options = line_] : line_ \in SomeLines}
        \cup {[Runs(0, 0, 0) EXCEPT !.keys = 5]}
        \cup {[Runs(0, 0, 0) EXCEPT !.faults = 0, !.port = p, !.bps = b, !.chip = c] :
                  p \in SomePorts, b \in {0, 300, 115200}, c \in SomeChips}
        \cup {[Runs(0, 0, 0) EXCEPT !.reply = r] :
                  r \in {<<"x", "END", "ESC">>, <<"END", "x", "ESC", "ESC_END">>, <<"x", "x", "x", "x", "x">>}}

RequestBytes == <<"x", "ESC", "END">>
\* One of them says nothing.
SomeEarlier == {<< >>, <<"x", "END", "x">>}

Com1 == [base |-> 1016, divisor |-> 1]
Ab == <<"A", "B", "C", "D", "E">>
ConfigKeys == <<"?", "n", "cr">>
=============================================================================
