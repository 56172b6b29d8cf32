------------------------------ MODULE SlipPort ------------------------------
(***************************************************************************)
(* The serial port, byte by byte: a frame sent by port_putc and            *)
(* port_putbuf_slip, and one received into two buffers, the header's and   *)
(* the caller's, by port_getbuf_slip_dual (sys/*.asm).  A byte is one of   *)
(* the four that SLIP gives a meaning to, or any other.                    *)
(***************************************************************************)
EXTENDS Integers, Sequences

CONSTANTS
    HdrLen, DataLen,    \* hdr_len and data_len
    DataNear,           \* the caller's buffer is in the driver's data segment
    Others              \* the bytes without a meaning

Specials == {"END", "ESC", "ESC_END", "ESC_ESC"}
Bytes == Specials \cup Others

ASSUME SlipPortAssumption ==
    /\ HdrLen \in Nat \ {0} /\ DataLen \in Nat /\ DataNear \in BOOLEAN
    /\ Others \cap Specials = {}

VARIABLES
    port,       \* the two routines: how far they are, what they hold
    wire        \* bytes under way to the PC: [byte, error]

\* more: data_len, zeroed when the data buffer has been begun; room: CX;
\* reason: _port_slip_last_reason; silent: a byte was read that had been
\* damaged without the UART noticing (history).
PortIdle == [pc |-> "idle", todo |-> << >>, out |-> << >>, got |-> << >>,
             room |-> 0, more |-> 0, reason |-> "none", silent |-> FALSE]

-----------------------------------------------------------------------------
(* SLIP: the reference, and what the FujiNet does.                         *)

Encoded(b) == CASE b = "END" -> <<"ESC", "ESC_END">> [] b = "ESC" -> <<"ESC", "ESC_ESC">> [] OTHER -> <<b>>
Frame(payload) ==
    LET sent[n \in 0..Len(payload)] == IF n = 0 THEN <<"END">> ELSE sent[n - 1] \o Encoded(payload[n])
    IN Append(sent[Len(payload)], "END")

\* What one fault makes of a frame: a byte overwritten in the receiver before
\* it was read, a byte damaged, or the rest missing.  The UART flags the first
\* with the byte that is read then, and the second if it was the stop bit:
\* there is no parity (8N1), and a data bit is flipped silently.
Marks == {"none", "flagged", "silent"}
Clean(s) == [i \in DOMAIN s |-> [byte |-> s[i], error |-> "none"]]
Overrun(w, i) == [j \in 1..(Len(w) - 1) |-> [byte |-> w[IF j < i THEN j ELSE j + 1].byte,
                                             error |-> IF j = i THEN "flagged" ELSE "none"]]
Faulty(w) ==
    {Overrun(w, i) : i \in 1..(Len(w) - 1)} \cup {SubSeq(w, 1, i) : i \in 0..(Len(w) - 1)}
        \cup {[w EXCEPT ![i] = [byte |-> b, error |-> e]] : i \in DOMAIN w, b \in Bytes, e \in Marks \ {"none"}}

-----------------------------------------------------------------------------
(* Sending. *)

PutStarts(payload) ==
    /\ port.pc = "idle"
    /\ port' = [PortIdle EXCEPT !.pc = "put", !.todo = payload, !.out = <<"END">>]
    /\ UNCHANGED wire

\* The second byte of a pair that stands for another.
Escaped(b) == IF b = "END" THEN "ESC_END" ELSE "ESC_ESC"

Put ==
    /\ port.pc = "put" /\ port.todo # << >>
    /\ LET b == Head(port.todo) IN
       port' = [port EXCEPT !.todo = Tail(@),
                            !.out = IF b \in {"END", "ESC"} THEN @ \o <<"ESC", Escaped(b)>> ELSE Append(@, b)]
    /\ UNCHANGED wire

\* The last END has left the UART; the FujiNet's answer is w.
PutEnds(w) ==
    /\ port.pc = "put" /\ port.todo = << >>
    /\ port' = [port EXCEPT !.pc = "sync", !.out = Append(@, "END"), !.room = HdrLen, !.more = DataLen]
    /\ wire' = w

-----------------------------------------------------------------------------
(* Receiving. *)

Ends(p) == [p EXCEPT !.pc = "done"]

\* slipd_switch_to_data leaves the data buffer's segment in DS, and a remark
\* is stored through DS: from there on it is found only if that is the
\* driver's segment too.
DataBegun(p) == p.more # DataLen
Note(p, why) == IF DataBegun(p) /\ ~DataNear THEN p ELSE [p EXCEPT !.reason = why]

(* The length of the data buffer is not zeroed when it is begun. *)
StoredForever(p, b) ==
    LET q == [p EXCEPT !.got = Append(@, b), !.room = @ - 1, !.pc = "frame"] IN
    CASE q.room = 0 /\ q.more = 0 -> Ends(Note(q, "full"))
      [] q.room = 0 /\ q.more # 0 -> [q EXCEPT !.room = @ + q.more]
      [] OTHER -> q

\* slipd_store_byte: a full header buffer is followed by the data buffer, once.
Stored(p, b) ==
    LET q == [p EXCEPT !.got = Append(@, b), !.room = @ - 1, !.pc = "frame"] IN
    CASE q.room = 0 /\ q.more = 0 -> Ends(Note(q, "full"))
      [] q.room = 0 /\ q.more # 0 -> [q EXCEPT !.room = @ + q.more, !.more = 0]
      [] OTHER -> q

(* The byte behind an escape stored as it is. *)
AsItIs(b) == b

\* slipd_handle_escape: an escape of nothing in particular is dropped.
Unescaped(b) == CASE b = "ESC_END" -> "END" [] b = "ESC_ESC" -> "ESC" [] OTHER -> b

Decode(p, b) ==
    CASE b = "END" -> Ends(p)
      [] b = "ESC" -> [p EXCEPT !.pc = "escape"]
      [] OTHER -> Stored(p, b)
Took(p, b) ==
    CASE p.pc = "sync" -> IF b = "END" THEN [p EXCEPT !.pc = "skip"] ELSE p
      [] p.pc = "skip" -> IF b = "END" THEN p ELSE Decode(p, b)
      [] p.pc = "frame" -> Decode(p, b)
      [] OTHER -> Stored(p, Unescaped(b))

Receiving == port.pc \in {"sync", "skip", "frame", "escape"}

\* SLIPD_WAIT_CHAR notes an error and carries on with the byte.
Marked(p, error) ==
    CASE error = "flagged" -> Note(p, "line")
      [] error = "silent"  -> [p EXCEPT !.silent = TRUE]
      [] OTHER             -> p
Get ==
    /\ Receiving /\ wire # << >>
    /\ port' = Took(Marked(port, Head(wire).error), Head(wire).byte)
    /\ wire' = Tail(wire)
GetNothing ==
    /\ Receiving /\ wire = << >>
    /\ port' = Ends(Note(port, "timeout"))
    /\ UNCHANGED wire

PortMoves == Put \/ Get \/ GetNothing
PortDone == port.pc = "done"
=============================================================================
