------------------------------ MODULE BusCall ------------------------------
(***************************************************************************)
(* The firmware build's exchange with the FujiNet (sys/fujicom.c) and the  *)
(* INT F5h service on it (sys/intf5.c): one static frame buffer, one       *)
(* request and one answer, no retries, no numbers.                         *)
(*                                                                         *)
(* The disk driver calls it inside DOS, where nothing interferes; its      *)
(* exchange is an operator.  A program calls INT F5h outside DOS: the      *)
(* printer's timer may run a whole exchange of its own, over the same      *)
(* buffer, between any two of the steps here.                              *)
(***************************************************************************)
EXTENDS Integers, Sequences

CONSTANTS MaxLine   \* bound: answers under way

ASSUME BusCallAssumption == MaxLine \in Nat \ {0}

VARIABLES
    line,       \* answers under way, oldest first
    head,       \* fb_buffer: whose header lies there, and from which frame
    call,       \* the INT F5h call of a program under way
    faults      \* bound: what may still go wrong on the line

bus == <<line, head, call, faults>>

\* Bytes of payload: an answer that is longer than the caller's buffer is cut
\* and fails the length check; a shorter one passes.
Room == [ack |-> 0, times |-> 64, slots |-> 304, sector |-> 512, status |-> 4, chunk |-> 8192]
Data(kind, val) == [kind |-> kind, val |-> val]
Ack == Data("ack", 0)
Junk == Data("junk", 0)

Device(name) == <<name, 0>>

\* own: it answers the call under way.  The program cannot see it.
Answer(dev, ok, data) == [dev |-> dev, ok |-> ok, data |-> data, own |-> TRUE, whole |-> TRUE]
Nothing == [dev |-> Device("none"), ok |-> FALSE, data |-> Ack, own |-> FALSE, whole |-> FALSE]
Damaged == [Nothing EXCEPT !.data = Junk]
Request(dev) == [Nothing EXCEPT !.dev = dev, !.own = TRUE]

Disowned(l) == [i \in DOMAIN l |-> [l[i] EXCEPT !.own = FALSE]]

\* port_flush_rx drops what has arrived, not what is on its way.
Flushed(l) == {SubSeq(l, k, Len(l)) : k \in 1..(Len(l) + 1)}

\* What the FujiNet does with a request whose answer is ans: if it is able to
\* it does it and says so, or else refuses; or it refuses, or misses it.
Handled(ans, able) ==
    LET refusal == [done |-> FALSE, sent |-> <<[ans EXCEPT !.ok = FALSE, !.data = Ack]>>, cost |-> 0] IN
    {IF able THEN [done |-> TRUE, sent |-> <<ans>>, cost |-> 0] ELSE refusal,
     [refusal EXCEPT !.cost = 1], [done |-> FALSE, sent |-> << >>, cost |-> 1]}

\* What the caller gets before its time is up: the oldest answer, or that one
\* damaged, or nothing; then it is lost or still to come.
Received(l) ==
    IF l = << >> THEN {[got |-> Nothing, left |-> << >>, cost |-> 0]}
    ELSE {[got |-> Head(l), left |-> Tail(l), cost |-> 0],
          [got |-> Damaged, left |-> Tail(l), cost |-> 1],
          [got |-> Nothing, left |-> << >>, cost |-> 1]}
         \cup (IF Len(l) <= MaxLine THEN {[got |-> Nothing, left |-> l, cost |-> 1]} ELSE {})

(* A check that the answer comes from the device asked left out. *)
AcceptsAnyDevice(frame, dev, kind) ==
    frame.whole /\ frame.ok /\ Room[frame.data.kind] <= Room[kind]

(* The checks of fuji_bus_call: length, checksum, device, acknowledgement.  *)
(* The command is not compared, nor the length with what was asked for.    *)
Accepts(frame, dev, kind) ==
    frame.whole /\ frame.ok /\ Room[frame.data.kind] <= Room[kind] /\ frame.dev = dev

\* fuji_bus_call undisturbed, with what may come of it.
Exchange(dev, kind, ans, able) ==
    {o \in UNION {UNION {{[done |-> h.done, ok |-> Accepts(r.got, dev, kind), got |-> r.got,
                           left |-> r.left, cost |-> h.cost + r.cost]
                          : r \in Received(l \o h.sent)} : h \in Handled(ans, able)}
                 : l \in Flushed(Disowned(line))}
       : o.cost <= faults}
Takes(o) == line' = o.left /\ faults' = faults - o.cost

\* A reply buffer that held old: whatever arrived was decoded into it, the
\* frame accepted or not.
Decoded(got, kind, old) ==
    IF got.data.kind = kind THEN got.data ELSE IF got.data.kind = "ack" THEN old ELSE Junk

-----------------------------------------------------------------------------
(* INT F5h of a program, the printer's timer permitting.                   *)

NoCall == [phase |-> "none", dev |-> Device("none"), kind |-> "ack", got |-> Nothing, alone |-> TRUE, fresh |-> TRUE]
Idle == call.phase = "none"

\* Up to the checksum.  alone and fresh are history: no tick of the printer so
\* far, no answer under way when the call began.
BuildFrame(dev, kind) ==
    /\ Idle
    /\ call' = [NoCall EXCEPT !.phase = "built", !.dev = dev, !.kind = kind, !.fresh = line = << >>]
    /\ head' = Request(dev)
    /\ line' = Disowned(line)
    /\ UNCHANGED faults

\* The frame goes out as the buffer is now; another header in it no longer
\* agrees with its checksum.
SendsFrame(dev) == head = Request(dev)

Handlings(ans) ==
    IF SendsFrame(call.dev) THEN Handled(ans, TRUE) ELSE {[done |-> FALSE, sent |-> << >>, cost |-> 0]}

SendFrame(h) ==
    /\ call.phase = "built"
    /\ h.cost <= faults /\ faults' = faults - h.cost
    /\ \E l \in Flushed(line) : Len(l \o h.sent) <= MaxLine /\ line' = l \o h.sent
    /\ call' = [call EXCEPT !.phase = "sent"]
    /\ UNCHANGED head

Receive ==
    /\ call.phase = "sent"
    /\ \E r \in Received(line) :
        /\ r.cost <= faults /\ faults' = faults - r.cost
        /\ call' = [call EXCEPT !.phase = "received", !.got = r.got]
        /\ head' = IF r.got = Nothing THEN head ELSE r.got
        /\ line' = r.left

\* The checks read the header where it lies; it agrees with the payload if
\* both came with one frame.
CallSucceeds ==
    /\ call.phase = "received"
    /\ head = call.got /\ Accepts(call.got, call.dev, call.kind)
\* The header left behind is overwritten before it is looked at again.
CallReturns == call' = NoCall /\ head' = Nothing /\ UNCHANGED <<line, faults>>

PrinterAnswer == [Answer(Device("printer"), TRUE, Ack) EXCEPT !.own = FALSE]

(* timer_tick of the printer finds its buffer due and InDOS down. *)
PrinterTick ==
    /\ ~Idle
    /\ \E l \in Flushed(line), h \in Handled(PrinterAnswer, TRUE) :
        \E r \in Received(l \o h.sent) :
            /\ Len(r.left) <= MaxLine
            /\ h.cost + r.cost <= faults /\ faults' = faults - h.cost - r.cost
            /\ line' = r.left
            /\ head' = IF r.got = Nothing THEN Request(Device("printer")) ELSE r.got
    /\ call' = [call EXCEPT !.alone = FALSE]
=============================================================================
