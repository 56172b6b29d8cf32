------------------------------ MODULE Printer ------------------------------
(***************************************************************************)
(* The printer driver FUJIPRN.SYS: one buffer filled a character at a time *)
(* by DOS output and INT 17h, and flushed to the FujiNet by whoever finds  *)
(* it full, by a close, by the DOS idle interrupt, and by the timer        *)
(* interrupt once nothing has been printed for AUTO_FLUSH_TICKS.           *)
(*                                                                         *)
(* The timer interrupt suspends everything else, may come between any two  *)
(* instructions of the foreground, and flushes before it chains to the     *)
(* BIOS: the BIOS tick count, which bounds every wait for the FujiNet,     *)
(* stands still while it does.  flush_pending is written and never read,   *)
(* and left out.                                                           *)
(***************************************************************************)
EXTENDS Integers, Sequences, Functions

CONSTANTS
    BufSize,    \* PRN_BUF_SIZE
    FlushAt,    \* PRN_BUF_FLUSH
    AutoFlush,  \* AUTO_FLUSH_TICKS
    Timeout,    \* TIMEOUT_SLOW in ticks
    TickMod,    \* where the tick counters wrap: 65536
    Answers,    \* what becomes of a request: "C", "E" or, past the timeout, "none"
    MaxChars    \* bound: characters printed

ASSUME PrinterAssumption ==
    /\ FlushAt \in 1..BufSize /\ BufSize \in Nat
    /\ AutoFlush \in 1..(Timeout - 1)       \* 90 against 272
    /\ Timeout \in 1..(TickMod - 1) /\ TickMod \in Nat
    /\ Answers \subseteq {"C", "E", "none"}
    /\ MaxChars \in Nat

VARIABLES
    mem, len,       \* prn_buf, prn_buf_len
    counter,        \* timer_counter
    lastActivity,   \* last_activity
    buffering,      \* buffering_enabled: DOS 3.0 or later
    \* The machine.
    bios,           \* the BIOS tick count, from when the driver was installed
    inDos,          \* the InDOS flag is up
    \* The foreground.
    pc,             \* "out" of the driver, or the next step in it
    after,          \* where a flush goes on: "load" or "out"
    idx, todo,      \* prn_buf[prn_buf_len++] = c: the index, the parts not yet done
    frame,          \* the bytes the checksum was taken of
    answer, since,  \* what the FujiNet answers; BIOS ticks when the wait began
    \* The timer interrupt.
    isr,            \* "none", or "wait" while it flushes
    isrAnswer, isrSince,
    \* History, read by no action of the program.
    accepted,       \* characters taken so far: they are numbered, 0 is a NUL
    printed,        \* what the FujiNet has printed
    lost,           \* characters of requests it did not print
    direct          \* a character was printed with InDOS down

buffer == <<mem, len>>
clock == <<counter, bios>>
caller == <<idx, todo, frame, answer, since>>
interrupt == <<isr, isrAnswer, isrSince>>
history == <<accepted, printed, lost, direct>>
vars == <<buffer, clock, lastActivity, buffering, inDos, pc, after, caller, interrupt, history>>

Blank == [i \in 0..(BufSize - 1) |-> 0]

Pending == [i \in 1..len |-> mem[i - 1]]

-----------------------------------------------------------------------------
(* A tick counter that does not wrap. *)
AfterForever(t) == t + 1

After(t) == (t + 1) % TickMod

Elapsed(now, then) == (now - then) % TickMod

(* A wait that does not look at the BIOS tick count. *)
NeverTimedOut(t) == FALSE

(* SLIPD_WAIT_CHAR: a wait that began at t is over.  (Midnight, when the   *)
(* BIOS starts again at 0, may end one early and is left out.)             *)
TimedOut(t) == Elapsed(bios, t) >= Timeout

(* The buffer emptied only when the FujiNet reports success. *)
EmptiedWhenPrinted(a) ==
    IF a = "C" THEN mem' = Blank /\ len' = 0 ELSE UNCHANGED buffer

(* The end of flush_prn_buf.  fujiF5_write returns 'C' or 'E', neither of   *)
(* them 0: the buffer is emptied and the flush is taken for a success.     *)
Emptied(a) == mem' = Blank /\ len' = 0

(* INT F5 with data: the FujiNet prints them, or not, and answers. *)
Request(data, a) ==
    \/ a # "none" /\ printed' = printed \o data /\ UNCHANGED lost
    \/ a # "C" /\ lost' = lost \cup (Range(data) \ {0}) /\ UNCHANGED printed
    \/ a = "none" /\ printed' = printed \o data /\ UNCHANGED lost

Init ==
    /\ mem = Blank /\ len = 0
    /\ counter = 0 /\ lastActivity = 0 /\ bios = 0
    /\ buffering \in BOOLEAN /\ inDos \in BOOLEAN
    /\ pc = "out" /\ after = "out"
    /\ idx = 0 /\ todo = {} /\ frame = << >> /\ answer = "none" /\ since = 0
    /\ isr = "none" /\ isrAnswer = "none" /\ isrSince = 0
    /\ accepted = 0 /\ printed = << >> /\ lost = {} /\ direct = FALSE

-----------------------------------------------------------------------------
(* The foreground, which the timer interrupt suspends.                     *)

Running == isr = "none"

EnterOrLeaveDos ==
    /\ Running /\ pc = "out"
    /\ inDos' = ~inDos
    /\ UNCHANGED <<buffer, clock, lastActivity, buffering, pc, after, caller, interrupt, history>>

GoTo(place) == pc' = place /\ UNCHANGED after

FlushThen(place) == pc' = "flush" /\ after' = place

(* prn_buf_add, from Output_cmd (InDOS up) or INT 17h (up or down). *)
PrintChar ==
    /\ Running /\ pc = "out" /\ accepted < MaxChars
    /\ accepted' = accepted + 1
    /\ direct' = (direct \/ ~inDos)
    /\ IF len >= BufSize THEN FlushThen("load") ELSE GoTo("load")
    /\ UNCHANGED <<buffer, clock, lastActivity, buffering, inDos, caller, interrupt, printed, lost>>

(* Output_flush_cmd and Dev_close_cmd, and idle_flush on INT 28h. *)
Drain ==
    /\ Running /\ pc = "out" /\ inDos
    /\ FlushThen("out")
    /\ UNCHANGED <<buffer, clock, lastActivity, buffering, inDos, caller, interrupt, history>>

(* prn_buf[prn_buf_len++] = c.  prn_buf_len is not volatile and interrupts  *)
(* are enabled: count and store come in either order, and the count is     *)
(* that of the memory or of the register, plus one.                        *)
Load ==
    /\ Running /\ pc = "load"
    /\ idx' = len /\ todo' = {"count", "store"}
    /\ GoTo("put")
    /\ UNCHANGED <<buffer, clock, lastActivity, buffering, inDos, frame, answer, since,
                   interrupt, history>>

Put(part) ==
    /\ Running /\ pc = "put" /\ part \in todo
    /\ todo' = todo \ {part}
    /\ idx' = IF todo' = {} THEN 0 ELSE idx
    /\ IF part = "count"
       THEN len' \in {len + 1, idx + 1} /\ UNCHANGED mem
       ELSE mem' = [mem EXCEPT ![idx] = accepted] /\ UNCHANGED len
    /\ IF todo' = {} THEN GoTo("note") ELSE UNCHANGED <<pc, after>>
    /\ UNCHANGED <<clock, lastActivity, buffering, inDos, frame, answer, since, interrupt,
                   history>>

(* The rest of prn_buf_add. *)
Note ==
    /\ Running /\ pc = "note"
    /\ lastActivity' = IF buffering THEN counter ELSE lastActivity
    /\ IF ~buffering \/ len >= FlushAt THEN FlushThen("out") ELSE GoTo("out")
    /\ UNCHANGED <<buffer, clock, buffering, inDos, caller, interrupt, history>>

(* flush_prn_buf up to the checksum of the frame. *)
BeginFlush ==
    /\ Running /\ pc = "flush"
    /\ IF len = 0 THEN GoTo(after) /\ UNCHANGED frame
                  ELSE GoTo("send") /\ frame' = Pending
    /\ UNCHANGED <<buffer, clock, lastActivity, buffering, inDos, idx, todo, answer, since,
                   interrupt, history>>

(* The frame goes out as the buffer is now; one that no longer agrees with *)
(* its checksum is not printed.                                            *)
Send ==
    /\ Running /\ pc = "send"
    /\ since' = bios
    /\ GoTo("wait")
    /\ \E a \in Answers :
        /\ answer' = a
        /\ IF frame = [i \in DOMAIN frame |-> mem[i - 1]]
           THEN Request(frame, a)
           ELSE a # "C" /\ UNCHANGED <<printed, lost>>
    /\ UNCHANGED <<buffer, clock, lastActivity, buffering, inDos, idx, todo, frame,
                   interrupt, accepted, direct>>

ExchangeEnds ==
    /\ Running /\ pc = "wait"
    /\ answer # "none" \/ TimedOut(since)
    /\ Emptied(answer)
    /\ frame' = << >> /\ answer' = "none" /\ since' = 0
    /\ GoTo(after)
    /\ UNCHANGED <<clock, lastActivity, buffering, inDos, idx, todo, interrupt, history>>

Foreground ==
    Load \/ (\E part \in todo : Put(part)) \/ Note \/ BeginFlush \/ Send \/ ExchangeEnds

-----------------------------------------------------------------------------
(* A timer that waits for a full buffer. *)
DueWhenFull == len >= BufSize /\ Elapsed(counter', lastActivity) >= AutoFlush /\ ~inDos

(* A timer that does not look at the InDOS flag. *)
DueInDos == len > 0 /\ Elapsed(counter', lastActivity) >= AutoFlush

(* The conditions of timer_tick.  The first line does not ask whether      *)
(* buffering is enabled.                                                   *)
Due == len > 0 /\ Elapsed(counter', lastActivity) >= AutoFlush /\ ~inDos

(* INT 08h.  A wait polls the clock many times between two ticks, so one    *)
(* that is over ends before the next tick.  The timer's own request clears *)
(* the receiver, and its wait may take an answer meant for the foreground. *)
Tick ==
    /\ Running
    /\ ~(pc = "wait" /\ TimedOut(since))
    /\ counter' = After(counter)
    /\ IF Due
       THEN /\ isr' = "wait" /\ isrSince' = bios
            /\ answer' \in {answer, "none"}
            /\ \E a \in Answers : isrAnswer' = a /\ Request(Pending, a)
            /\ UNCHANGED bios
       ELSE /\ bios' = After(bios)
            /\ UNCHANGED <<interrupt, answer, printed, lost>>
    /\ UNCHANGED <<buffer, lastActivity, buffering, inDos, pc, after, idx, todo, frame, since,
                   accepted, direct>>

(* The timer's flush is over: the rest of timer_tick, then the BIOS. *)
TimerReturns ==
    /\ isr = "wait"
    /\ isrAnswer # "none" \/ TimedOut(isrSince)
    /\ Emptied(isrAnswer)
    /\ lastActivity' = counter
    /\ bios' = After(bios)
    /\ isr' = "none" /\ isrAnswer' = "none" /\ isrSince' = 0
    /\ UNCHANGED <<counter, buffering, inDos, pc, after, caller, history>>

Next == EnterOrLeaveDos \/ PrintChar \/ Drain \/ Foreground \/ Tick \/ TimerReturns

(* The processor runs what is not suspended and the clock ticks; nobody    *)
(* has to print anything or to enter or leave DOS.                         *)
Spec == /\ Init /\ [][Next]_vars
        /\ WF_vars(Foreground) /\ WF_vars(Tick) /\ WF_vars(TimerReturns)

-----------------------------------------------------------------------------
Chars == 0..MaxChars
Ticks == 0..(TickMod - 1)

TypeOK ==
    /\ mem \in [0..(BufSize - 1) -> Chars] /\ len \in 0..BufSize
    /\ counter \in Ticks /\ lastActivity \in Ticks /\ bios \in Ticks
    /\ buffering \in BOOLEAN /\ inDos \in BOOLEAN /\ direct \in BOOLEAN
    /\ pc \in {"out", "load", "put", "note", "flush", "send", "wait"}
    /\ after \in {"load", "out"}
    /\ idx \in 0..BufSize /\ todo \subseteq {"count", "store"}
    /\ frame \in Seq(Chars) /\ printed \in Seq(Chars)
    /\ answer \in Answers \cup {"none"} /\ isrAnswer \in Answers \cup {"none"}
    /\ since \in Ticks /\ isrSince \in Ticks
    /\ isr \in {"none", "wait"}
    /\ accepted \in Chars /\ lost \subseteq Chars

(* No character is stored past the end of the buffer, whatever the timer   *)
(* does between the test of prn_buf_len and the store, and whatever the    *)
(* FujiNet answered to the flush that was to make room (prn_buf_add).      *)
BufferHolds == pc = "put" /\ "store" \in todo => idx < BufSize

Increasing(s) == \A i, j \in DOMAIN s : i < j => s[i] < s[j]

(* As long as everybody prints with InDOS up, each character taken is      *)
(* printed once and in order, is waiting in the buffer, or was in a request *)
(* the FujiNet did not print: the flushes of the timer, of INT 28h and of  *)
(* the driver itself neither drop nor repeat one (timer_tick, idle_flush).  *)
Accounted ==
    pc = "out" /\ isr = "none" /\ ~direct =>
        LET seen == printed \o Pending IN
        /\ Increasing(seen) /\ Range(seen) \cup lost = 1..accepted
        /\ Range(seen) \cap lost = {}

(* A call of DOS into the driver comes back even from a FujiNet that is    *)
(* silent: its waits are bounded and the timer keeps out of DOS.           *)
CallsReturn == (pc # "out" /\ inDos) ~> pc = "out"

(* Once DOS is left for good, what waits in the buffer gets printed unless *)
(* the timer itself hangs (timer_tick: five seconds of quiet).             *)
QuietBufferDrains == (<>[]~inDos) => []<>(len = 0 \/ isr = "wait")

-----------------------------------------------------------------------------
(* port_getbuf_slip_dual documents a timeout; the flush of the timer has   *)
(* none, since it keeps the BIOS tick count from moving.                   *)
TimerFlushEnds == isr = "wait" ~> isr = "none"
=============================================================================
