------------------------------ MODULE Startup ------------------------------
(***************************************************************************)
(* What the drivers do with their line in CONFIG.SYS and with the port     *)
(* before they talk to the FujiNet (sys/init.c, sys/port_config.c).        *)
(*                                                                         *)
(* An option is its length and whether it has an equals sign.  The area    *)
(* for the environment, the last bytes of the driver, holds the table of   *)
(* pointers (two bytes each) and then the strings.                         *)
(***************************************************************************)
EXTENDS Integers, Sequences

CONSTANTS
    AreaSize,       \* bytes at config_env
    Letters,        \* of the drives, from A on
    BlockDevices    \* drives before the driver's; DOS counts A and B

ASSUME StartupAssumption ==
    /\ AreaSize \in Nat \ {0, 1}
    /\ Letters \in Seq(STRING) /\ BlockDevices \in 2..(Len(Letters) - 1)

Least(a, b) == IF a < b THEN a ELSE b
Pointer == 2

(* The zero that ends an option written without another look at the limit. *)
CopiedBeyond(at, option) ==
    LET text == Least(AreaSize, at + option.length)
        named == IF text < AreaSize /\ ~option.value THEN text + 1 ELSE text
    IN IF text = AreaSize THEN [end |-> AreaSize, kept |-> FALSE] ELSE [end |-> named + 1, kept |-> TRUE]

\* One option copied to at: its characters, an equals sign if it has none, a
\* zero.  It is cut off where the area ends, and then it does not count.
Copied(at, option) ==
    LET text == Least(AreaSize, at + option.length)
        named == IF text < AreaSize /\ ~option.value THEN text + 1 ELSE text
    IN IF named = AreaSize THEN [end |-> AreaSize, kept |-> FALSE] ELSE [end |-> named + 1, kept |-> TRUE]

\* The loop over the options: how far the strings reach, how many there are.
Layout(options) ==
    LET turn[i \in 0..Len(options)] ==
            IF i = 0 THEN [end |-> Pointer * (Len(options) + 1), count |-> 0, full |-> FALSE]
            ELSE LET t == turn[i - 1]
                     c == Copied(t.end, options[i])
                 IN IF t.full \/ t.end >= AreaSize THEN t
                    ELSE [end |-> c.end, count |-> IF c.kept THEN i ELSE t.count, full |-> ~c.kept]
    IN turn[Len(options)]

\* parse_config returns how much it has used ...
ParseConfig(options) == IF options = << >> THEN Pointer ELSE Layout(options).end

\* ... and Init_cmd ends the driver that much before the end of the area.
Resident(used) == AreaSize - used

-----------------------------------------------------------------------------
(* The port.  FUJI_PORT is how it is written and the number that is read;  *)
(* FUJI_BPS a number.  An interrupt number after a comma is not used.      *)

Uarts == <<1016, 760, 1000, 744>>    \* 3F8h, 2F8h, 3E8h, 2E8h
MaxBps == 115200
Unset == [form |-> "unset", value |-> 0]

\* An address in hexadecimal, 0x before it or h behind, or the number of a
\* port; any other number, and text that is none, is the first port.
Base(port) ==
    CASE port.form \in {"0x", "h"} -> port.value
      [] port.form = "number" /\ port.value \in DOMAIN Uarts -> Uarts[port.value]
      [] OTHER -> Uarts[1]

\* A word; without fraction.  A rate of zero is a division by zero.
Divides(bps) == bps # 0
Divisor(bps) == (MaxBps \div bps) % 65536

\* port_identify_uart: what the chip does with its scratch register and with a
\* FIFO that is switched on; one that does not work is switched off again.
Identified(chip) ==
    CASE ~chip.scratch -> "8250"
      [] chip.scratch /\ chip.fifo = 0 -> "16450"
      [] chip.scratch /\ chip.fifo \in {1, 2} -> "16550"
      [] OTHER -> "16550A"

\* port_init switches the FIFO on, and port_flush_rx does at each exchange.
NoUart == [base |-> 0, divisor |-> 0, kind |-> "unknown", fifo |-> FALSE]
PortInit(port, bps, chip) ==
    [base |-> Base(port), divisor |-> Divisor(bps), kind |-> Identified(chip), fifo |-> Identified(chip) # "16550"]
FlushRx(uart) == [uart EXCEPT !.fifo = TRUE]

-----------------------------------------------------------------------------
(* Drive letters.                                                          *)

\* find_drive_letter: the drives of the other block devices come first.
FirstLetter == Letters[BlockDevices + 1]
=============================================================================
