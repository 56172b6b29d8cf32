--------------------------- MODULE PrinterProofs ---------------------------
(***************************************************************************)
(* The printer driver's buffer for any size, flush mark and timeout, and   *)
(* for a timer interrupt between any two steps of the foreground.          *)
(***************************************************************************)
EXTENDS Printer, TLAPS

(* What the timer may change under the foreground's feet is only ever in   *)
(* its favour: it empties the buffer, so that room found stays found.      *)
Room ==
    /\ pc = "load" => len < BufSize
    /\ pc = "put" => idx < BufSize
    /\ pc = "put" /\ "count" \in todo => len <= idx

(* Types, and room for a character on its way in.                          *)
IInv == TypeOK /\ Room

USE PrinterAssumption DEF PrinterAssumption

-----------------------------------------------------------------------------
(* A tick counter stays in range.                                          *)
LEMMA TickType == 0 \in Ticks /\ \A t \in Ticks : After(t) \in Ticks
BY DEF Ticks, After

(* The buffer after a flush, and what a flush sends.                       *)
LEMMA BlankType == Blank \in [0..(BufSize - 1) -> Chars]
BY DEF Blank, Chars

(* What waits in the buffer is a sequence of characters.                   *)
LEMMA PendingType == ASSUME TypeOK PROVE Pending \in Seq(Chars)
<1>1. \A i \in 1..len : mem[i - 1] \in Chars
  BY DEF TypeOK
<1> QED BY <1>1 DEF TypeOK, Pending

(* Whatever becomes of a request, the history stays a history.             *)
LEMMA RequestType ==
    ASSUME TypeOK, NEW data \in Seq(Chars), NEW a, Request(data, a)
    PROVE  printed' \in Seq(Chars) /\ lost' \subseteq Chars
<1>1. Range(data) \subseteq Chars
  BY DEF Range
<1>2. printed \o data \in Seq(Chars)
  BY DEF TypeOK
<1> QED BY <1>1, <1>2 DEF Request, TypeOK

-----------------------------------------------------------------------------
(* The driver as installed: an empty buffer (prn_buf_len is 0).             *)
LEMMA InitInv == Init => IInv
<1> SUFFICES ASSUME Init PROVE IInv
  OBVIOUS
<1>1. 0 \in Chars /\ << >> \in Seq(Chars)
  BY DEF Chars
<1>2. direct \in BOOLEAN
  BY Zenon DEF Init
<1> QED BY <1>1, <1>2, BlankType, TickType DEF Init, IInv, TypeOK, Room

(* prn_buf_add goes on to the store only past its test for room; a full    *)
(* buffer is flushed first.                                                *)
LEMMA PrintStep == IInv /\ PrintChar => IInv'
BY DEF IInv, TypeOK, Room, PrintChar, FlushThen, GoTo, buffer, clock, caller, interrupt, Chars

(* The InDOS flag and the flushes asked for from outside leave the buffer   *)
(* alone.                                                                  *)
LEMMA DosStep == IInv /\ (EnterOrLeaveDos \/ Drain) => IInv'
BY DEF IInv, TypeOK, Room, EnterOrLeaveDos, Drain, FlushThen, buffer, clock, caller, interrupt,
       history

(* The index loaded is below PRN_BUF_SIZE, as there is room.               *)
LEMMA LoadStep == IInv /\ Load => IInv'
BY DEF IInv, TypeOK, Room, Load, GoTo, buffer, clock, interrupt, history

(* The count and the store, in either order: the count stays within the    *)
(* buffer because the index it comes from is below its end.                *)
LEMMA PutStep == ASSUME IInv, NEW part \in todo, Put(part) PROVE IInv'
<1>1. CASE part = "count"
  <2>1. len \in 0..BufSize /\ idx \in 0..BufSize /\ idx < BufSize /\ len <= idx
    BY <1>1 DEF IInv, TypeOK, Room, Put
  <2>2. len' \in 0..BufSize /\ mem' = mem /\ "count" \notin todo'
    BY <1>1, <2>1 DEF Put
  <2> QED BY <2>1, <2>2 DEF IInv, TypeOK, Room, Put, GoTo, clock, interrupt, history
<1>2. CASE part # "count"
  <2>1. mem' \in [0..(BufSize - 1) -> Chars] /\ len' = len
    BY <1>2 DEF IInv, TypeOK, Put, history
  <2>2. idx' \in 0..BufSize /\ todo' \subseteq todo /\ (todo' # {} => idx' = idx)
    <3>1. todo' = todo \ {part} /\ idx' = (IF todo' = {} THEN 0 ELSE idx)
      BY DEF Put
    <3>2. idx \in 0..BufSize /\ 0 \in 0..BufSize
      BY DEF IInv, TypeOK
    <3> QED BY <3>1, <3>2
  <2>3. after' = after /\ (pc' = "note" \/ (pc' = "put" /\ todo' # {}))
    BY DEF Put, GoTo
  <2>4. Room'
    BY <2>1, <2>2, <2>3 DEF IInv, Room, Put
  <2> QED BY <2>1, <2>2, <2>3, <2>4 DEF IInv, TypeOK, Put, clock, interrupt, history
<1> QED BY <1>1, <1>2

(* The end of prn_buf_add touches the time of the last activity only.      *)
LEMMA NoteStep == IInv /\ Note => IInv'
BY DEF IInv, TypeOK, Room, Note, FlushThen, GoTo, buffer, clock, caller, interrupt, history

(* flush_prn_buf begins: an empty buffer has room, a full one goes out.    *)
LEMMA FlushStep == IInv /\ BeginFlush => IInv'
BY PendingType DEF IInv, TypeOK, Room, BeginFlush, GoTo, buffer, clock, interrupt, history

(* Sending leaves the buffer as it is.                                     *)
LEMMA SendStep == IInv /\ Send => IInv'
BY RequestType DEF IInv, TypeOK, Room, Send, GoTo, buffer, clock, interrupt

(* flush_prn_buf ends: whatever the answer, there is room again.           *)
LEMMA EndStep == IInv /\ ExchangeEnds => IInv'
BY BlankType DEF IInv, TypeOK, Room, ExchangeEnds, Emptied, GoTo, clock, interrupt, history, Ticks

(* INT 08h up to the wait for an answer changes neither count nor buffer.  *)
LEMMA TickStep == IInv /\ Tick => IInv'
BY PendingType, RequestType, TickType DEF IInv, TypeOK, Room, Tick, buffer, interrupt

(* timer_tick returns with the buffer empty: room found by the foreground   *)
(* before is still there.                                                  *)
LEMMA TimerStep == IInv /\ TimerReturns => IInv'
BY BlankType, TickType DEF IInv, TypeOK, Room, TimerReturns, Emptied, caller, history

(* The invariant behind the theorems below: types, and room for every      *)
(* character on its way into the buffer.                                   *)
THEOREM Inductive == Spec => []IInv
<1>1. IInv /\ [Next]_vars => IInv'
  <2> SUFFICES ASSUME IInv, [Next]_vars PROVE IInv'
    OBVIOUS
  <2>1. CASE Foreground
    BY <2>1, LoadStep, PutStep, NoteStep, FlushStep, SendStep, EndStep DEF Foreground
  <2>2. CASE UNCHANGED vars
    BY <2>2 DEF IInv, TypeOK, Room, vars, buffer, clock, caller, interrupt, history
  <2> QED BY <2>1, <2>2, PrintStep, DosStep, TickStep, TimerStep DEF Next
<1> QED BY InitInv, <1>1, PTL DEF Spec

(* Every reachable state of the driver is well typed.                      *)
THEOREM TypeCorrect == Spec => []TypeOK
<1>1. IInv => TypeOK
  BY DEF IInv
<1> QED BY <1>1, Inductive, PTL

(* prn_buf_add never stores past the end of prn_buf, wherever the timer    *)
(* comes in between.                                                       *)
THEOREM StoresStayInBuffer == Spec => []BufferHolds
<1>1. IInv => BufferHolds
  BY DEF IInv, Room, BufferHolds
<1> QED BY <1>1, Inductive, PTL

-----------------------------------------------------------------------------
(* The characters.  Numbers 1 to n are accounted for by what is printed,   *)
(* p, what is lost, l, and what waits, b.                                  *)
Whole(p, l, b, n) ==
    /\ Increasing(p \o b)
    /\ Range(p \o b) \cup l = 1..n
    /\ Range(p \o b) \cap l = {}

(* What waits in the buffer, and how many characters ought to have arrived *)
(* somewhere, at each place in the driver.                                 *)
Waiting ==
    IF pc = "wait" \/ isr = "wait" THEN << >>
    ELSE IF pc = "put" THEN [i \in 1..idx |-> mem[i - 1]]
    ELSE Pending

Carrying == pc \in {"load", "put"} \/ (pc \in {"flush", "send", "wait"} /\ after = "load")

Arrived == IF Carrying THEN accepted - 1 ELSE accepted

(* The part of an append that is done.                                     *)
HalfStored ==
    pc = "put" =>
        /\ todo # {}
        /\ len = IF "count" \in todo THEN idx ELSE idx + 1
        /\ "store" \notin todo => mem[idx] = accepted

(* Inside the driver on behalf of DOS the timer keeps away, so that a frame *)
(* is sent as it was summed up, and nothing is missing.                    *)
Books ==
    ~direct =>
        /\ pc # "out" => inDos /\ isr = "none"
        /\ Carrying => accepted > 0
        /\ pc = "send" => frame = Pending
        /\ HalfStored
        /\ Whole(printed, lost, Waiting, Arrived)

(* The positions of a sequence that got one longer.                        *)
LEMMA LastOrEarlier ==
    ASSUME NEW m \in Nat
    PROVE  \A i : i \in 1..(m + 1) <=> i \in 1..m \/ i = m + 1
OBVIOUS

(* One more character at the end of what waits.                            *)
LEMMA WholeGrows ==
    ASSUME NEW p \in Seq(Nat), NEW b \in Seq(Nat), NEW l, NEW n \in Nat, Whole(p, l, b, n)
    PROVE  Whole(p, l, Append(b, n + 1), n + 1)
<1> DEFINE s == p \o b
           t == p \o Append(b, n + 1)
<1>1. s \in Seq(Nat) /\ t \in Seq(Nat) /\ Len(t) = Len(s) + 1 /\ Len(s) \in Nat
  OBVIOUS
<1>2. t[Len(s) + 1] = n + 1 /\ \A i \in 1..Len(s) : t[i] = s[i]
  OBVIOUS
<1>3. DOMAIN s = 1..Len(s) /\ DOMAIN t = 1..(Len(s) + 1)
  BY <1>1
<1>4. \A i \in 1..Len(s) : s[i] \in 1..n
  BY <1>3 DEF Whole, Range
<1>5. Range(t) = Range(s) \cup {n + 1}
  <2>1. \A x : x \in Range(t) <=> \E i \in 1..(Len(s) + 1) : x = t[i]
    BY <1>3 DEF Range
  <2>2. \A x : x \in Range(s) <=> \E i \in 1..Len(s) : x = s[i]
    BY <1>3 DEF Range
  <2> HIDE DEF s, t
  <2>3. \A i : i \in 1..(Len(s) + 1) <=> i \in 1..Len(s) \/ i = Len(s) + 1
    BY <1>1, LastOrEarlier
  <2>4. ASSUME NEW x \in Range(t) PROVE x \in Range(s) \cup {n + 1}
    <3>1. PICK i \in 1..(Len(s) + 1) : x = t[i]
      BY <2>1
    <3>2. CASE i = Len(s) + 1
      BY <1>2, <3>1, <3>2
    <3>3. CASE i \in 1..Len(s)
      BY <1>2, <2>2, <3>1, <3>3
    <3> QED BY <2>3, <3>2, <3>3
  <2>5. ASSUME NEW x \in Range(s) PROVE x \in Range(t)
    <3>1. PICK i \in 1..Len(s) : x = s[i]
      BY <2>2
    <3>2. i \in 1..(Len(s) + 1) /\ x = t[i]
      BY <1>2, <2>3, <3>1
    <3> QED BY <2>1, <3>2
  <2>6. n + 1 \in Range(t)
    <3>1. Len(s) + 1 \in 1..(Len(s) + 1) /\ n + 1 = t[Len(s) + 1]
      BY <1>2, <2>3
    <3> QED BY <2>1, <3>1
  <2> QED BY <2>4, <2>5, <2>6
<1>6. Increasing(t)
  <2>1. Increasing(s)
    BY DEF Whole
  <2> HIDE DEF s, t
  <2> SUFFICES ASSUME NEW i \in 1..(Len(s) + 1), NEW j \in 1..(Len(s) + 1), i < j
               PROVE  t[i] < t[j]
    BY <1>3 DEF Increasing
  <2>2. i \in 1..Len(s) /\ t[i] = s[i] /\ s[i] \in 1..n
    BY <1>1, <1>2, <1>4
  <2>3. CASE j = Len(s) + 1
    BY <1>2, <2>2, <2>3
  <2>4. CASE j \in 1..Len(s)
    BY <1>2, <1>3, <2>1, <2>2, <2>4 DEF Increasing
  <2> QED BY <1>1, <2>3, <2>4, LastOrEarlier
<1>7. Range(s) \cup l = 1..n /\ Range(s) \cap l = {}
  BY DEF Whole
<1> HIDE DEF s
<1> QED
  <2>1. Range(t) \cup l = 1..(n + 1)
    BY <1>5, <1>7
  <2>2. Range(t) \cap l = {}
    BY <1>5, <1>7
  <2> QED BY <1>6, <2>1, <2>2 DEF Whole

(* What waited is printed.                                                 *)
LEMMA WholePrinted ==
    ASSUME NEW p \in Seq(Nat), NEW b \in Seq(Nat), NEW l, NEW n, Whole(p, l, b, n)
    PROVE  Whole(p \o b, l, << >>, n)
<1>1. (p \o b) \o << >> = p \o b
  OBVIOUS
<1> QED BY <1>1 DEF Whole

(* What waited is lost.                                                    *)
LEMMA WholeLost ==
    ASSUME NEW p \in Seq(Nat), NEW b \in Seq(Nat), NEW l, NEW n \in Nat, Whole(p, l, b, n)
    PROVE  Whole(p, l \cup (Range(b) \ {0}), << >>, n)
<1> DEFINE s == p \o b
<1>1. s \in Seq(Nat) /\ Len(s) = Len(p) + Len(b) /\ p \o << >> = p
  OBVIOUS
<1>2. /\ Len(p) \in Nat /\ Len(b) \in Nat
      /\ DOMAIN p = 1..Len(p) /\ DOMAIN b = 1..Len(b) /\ DOMAIN s = 1..(Len(p) + Len(b))
  BY <1>1
<1>3. /\ \A i \in 1..Len(p) : s[i] = p[i]
      /\ \A i \in 1..Len(b) : s[Len(p) + i] = b[i]
  OBVIOUS
<1>4. Increasing(s) /\ Range(s) \cup l = 1..n /\ Range(s) \cap l = {}
  BY DEF Whole
<1> HIDE DEF s
<1>5. \A i \in 1..Len(p), j \in 1..Len(b) : p[i] < b[j]
  <2> SUFFICES ASSUME NEW i \in 1..Len(p), NEW j \in 1..Len(b) PROVE p[i] < b[j]
    OBVIOUS
  <2>1. i \in DOMAIN s /\ Len(p) + j \in DOMAIN s /\ i < Len(p) + j
    BY <1>2
  <2>2. s[i] < s[Len(p) + j]
    BY <1>4, <2>1 DEF Increasing
  <2> QED BY <1>3, <2>2
<1>6. Increasing(p)
  <2> SUFFICES ASSUME NEW i \in 1..Len(p), NEW j \in 1..Len(p), i < j PROVE p[i] < p[j]
    BY <1>2 DEF Increasing
  <2>1. i \in DOMAIN s /\ j \in DOMAIN s
    BY <1>2
  <2> QED BY <1>3, <1>4, <2>1 DEF Increasing
<1>7. Range(s) = Range(p) \cup Range(b)
  <2>1. \A i \in DOMAIN s : i \in 1..Len(p) \/ \E j \in 1..Len(b) : i = Len(p) + j
    <3> SUFFICES ASSUME NEW i \in DOMAIN s, i \notin 1..Len(p)
                 PROVE  \E j \in 1..Len(b) : i = Len(p) + j
      OBVIOUS
    <3>1. i - Len(p) \in 1..Len(b) /\ i = Len(p) + (i - Len(p))
      BY <1>2
    <3> QED BY <3>1
  <2>2. \A i \in 1..Len(p) : i \in DOMAIN s
    BY <1>2
  <2>3. \A j \in 1..Len(b) : Len(p) + j \in DOMAIN s
    BY <1>2
  <2>4. \A x \in Range(s) : x \in Range(p) \cup Range(b)
    <3> SUFFICES ASSUME NEW i \in DOMAIN s PROVE s[i] \in Range(p) \cup Range(b)
      BY DEF Range
    <3>1. CASE i \in 1..Len(p)
      BY <1>2, <1>3, <3>1 DEF Range
    <3>2. CASE \E j \in 1..Len(b) : i = Len(p) + j
      BY <1>2, <1>3, <3>2 DEF Range
    <3> QED BY <2>1, <3>1, <3>2
  <2>5. \A x \in Range(p) : x \in Range(s)
    BY <1>2, <1>3, <2>2 DEF Range
  <2>6. \A x \in Range(b) : x \in Range(s)
    BY <1>2, <1>3, <2>3 DEF Range
  <2> QED BY <2>4, <2>5, <2>6
<1>8. Range(p) \cap Range(b) = {}
  <2>1. \A i \in 1..Len(p) : p[i] \in Nat
    OBVIOUS
  <2> QED BY <1>2, <1>5, <2>1 DEF Range
<1>9. 0 \notin Range(b) /\ Range(b) \ {0} = Range(b)
  BY <1>4, <1>7
<1> QED BY <1>1, <1>4, <1>6, <1>7, <1>8, <1>9 DEF Whole

-----------------------------------------------------------------------------
(* A step at a time: IInv gives the types, Books what is to be kept.       *)
BInv == IInv /\ Books

(* What waits is a sequence of numbers, in the same way printed is.        *)
LEMMA WaitingType ==
    ASSUME IInv
    PROVE  Waiting \in Seq(Nat) /\ Pending \in Seq(Nat) /\ printed \in Seq(Nat) /\ accepted \in Nat
<1>1. Pending \in Seq(Chars) /\ printed \in Seq(Chars) /\ accepted \in Nat
  BY PendingType DEF IInv, TypeOK, Chars
<1>2. Pending \in Seq(Nat) /\ printed \in Seq(Nat) /\ << >> \in Seq(Nat)
  BY <1>1 DEF Chars
<1>3. idx \in 0..BufSize /\ mem \in [0..(BufSize - 1) -> Nat]
  BY DEF IInv, TypeOK, Chars
<1>4. [i \in 1..idx |-> mem[i - 1]] \in Seq(Nat)
  <2>1. \A i \in 1..idx : mem[i - 1] \in Nat
    BY <1>3
  <2> QED BY <1>3, <2>1
<1> QED BY <1>1, <1>2, <1>4 DEF Waiting

(* An emptied buffer holds nothing.                                        *)
LEMMA NothingPending == len = 0 => Pending = << >>
BY DEF Pending

(* A request moves what waits to what is printed or to what is lost.       *)
LEMMA RequestKeeps ==
    ASSUME IInv, NEW n \in Nat, NEW a, Request(Pending, a), Whole(printed, lost, Pending, n)
    PROVE  Whole(printed', lost', << >>, n)
<1>1. Pending \in Seq(Nat) /\ printed \in Seq(Nat)
  BY WaitingType
<1>2. Whole(printed \o Pending, lost, << >>, n)
  BY <1>1, WholePrinted
<1>3. Whole(printed, lost \cup (Range(Pending) \ {0}), << >>, n)
  BY <1>1, WholeLost
<1>4. \/ printed' = printed \o Pending /\ lost' = lost
      \/ printed' = printed /\ lost' = lost \cup (Range(Pending) \ {0})
  BY DEF Request
<1> QED BY <1>2, <1>3, <1>4

(* Nothing printed yet, nothing waiting, nothing lost.                     *)
LEMMA BooksInit == Init => Books
<1> SUFFICES ASSUME Init PROVE Books
  OBVIOUS
<1>1. Waiting = << >> /\ Arrived = 0 /\ ~Carrying
  BY NothingPending DEF Init, Waiting, Arrived, Carrying
<1>2. Whole(<< >>, {}, << >>, 0)
  <2>1. << >> \o << >> = << >>
    OBVIOUS
  <2> QED BY <2>1 DEF Whole, Increasing, Range
<1> QED BY <1>1, <1>2 DEF Init, Books, HalfStored

(* Entering the driver is inside DOS, or the books are closed.             *)
LEMMA Entered ==
    ASSUME EnterOrLeaveDos \/ PrintChar \/ Drain, ~direct'
    PROVE  ~direct /\ (pc' # "out" => inDos')
<1>1. CASE PrintChar
  <2>1. direct' = (direct \/ ~inDos) /\ inDos' = inDos
    BY <1>1 DEF PrintChar
  <2>2. ~direct /\ inDos
    BY <2>1, Zenon
  <2> QED BY <2>1, <2>2
<1>2. CASE EnterOrLeaveDos
  BY <1>2 DEF EnterOrLeaveDos, history
<1>3. CASE Drain
  BY <1>3 DEF Drain, history
<1> QED BY <1>1, <1>2, <1>3

(* Outside the driver, a character taken is one more to arrive; a flush    *)
(* asked for, or the InDOS flag, changes nothing.                          *)
LEMMA BooksOutside == BInv /\ (EnterOrLeaveDos \/ PrintChar \/ Drain) => Books'
<1> SUFFICES ASSUME BInv, EnterOrLeaveDos \/ PrintChar \/ Drain, ~direct' PROVE Books'
  BY DEF Books
<1>1. pc = "out" /\ isr = "none" /\ isr' = "none" /\ Pending' = Pending
  BY DEF EnterOrLeaveDos, PrintChar, Drain, Running, Pending, buffer, interrupt
<1>2. ~direct /\ printed' = printed /\ lost' = lost /\ (pc' # "out" => inDos')
  BY Entered DEF EnterOrLeaveDos, PrintChar, Drain, history
<1>3. Waiting = Pending /\ Arrived = accepted /\ Whole(printed, lost, Pending, accepted)
  BY <1>1, <1>2 DEF BInv, Books, Waiting, Arrived, Carrying
<1>4. pc' \in {"out", "load", "flush"} /\ Waiting' = Pending
  BY <1>1 DEF EnterOrLeaveDos, PrintChar, Drain, FlushThen, GoTo, Waiting
<1>5. Arrived' = accepted /\ (Carrying' => accepted' > 0)
  <2>1. accepted \in Nat
    BY WaitingType DEF BInv
  <2>2. CASE PrintChar
    <3>1. accepted' = accepted + 1
      BY <2>2 DEF PrintChar
    <3>2. Carrying'
      BY <2>2 DEF PrintChar, FlushThen, GoTo, Carrying
    <3> QED BY <2>1, <3>1, <3>2 DEF Arrived
  <2>3. CASE EnterOrLeaveDos \/ Drain
    BY <1>1, <2>3 DEF EnterOrLeaveDos, Drain, FlushThen, Arrived, Carrying, history
  <2> QED BY <2>2, <2>3
<1> QED BY <1>1, <1>2, <1>3, <1>4, <1>5 DEF Books, HalfStored

(* Loading the index: the buffer up to it is what waits.                   *)
LEMMA BooksLoad == BInv /\ Load => Books'
<1> SUFFICES ASSUME BInv, Load, ~direct' PROVE Books'
  BY DEF Books
<1>1. /\ pc = "load" /\ isr = "none" /\ isr' = "none" /\ pc' = "put" /\ inDos' = inDos
      /\ idx' = len /\ len' = len /\ mem' = mem /\ todo' = {"count", "store"}
      /\ direct' = direct /\ accepted' = accepted /\ printed' = printed /\ lost' = lost
  BY DEF Load, Running, GoTo, interrupt, history, buffer
<1>2. Waiting' = Pending /\ Waiting = Pending
  BY <1>1 DEF Waiting, Pending
<1>3. Carrying' /\ Carrying /\ Arrived' = Arrived
  BY <1>1 DEF Carrying, Arrived
<1> QED BY <1>1, <1>2, <1>3 DEF BInv, Books, HalfStored

(* The two halves of prn_buf[prn_buf_len++] = c: after the second, in       *)
(* either order, the character waits behind the others.                    *)
LEMMA BooksPut == ASSUME BInv, NEW part \in todo, Put(part) PROVE Books'
<1> SUFFICES ASSUME ~direct' PROVE Books'
  BY DEF Books
<1>1. /\ pc = "put" /\ isr = "none" /\ isr' = "none" /\ inDos' = inDos
      /\ todo' = todo \ {part} /\ idx' = (IF todo' = {} THEN 0 ELSE idx)
      /\ direct' = direct /\ accepted' = accepted /\ printed' = printed /\ lost' = lost
  BY DEF Put, Running, interrupt, history
<1>2. /\ idx \in 0..(BufSize - 1) /\ todo \subseteq {"count", "store"} /\ accepted \in Nat
      /\ mem \in [0..(BufSize - 1) -> Nat] /\ len \in Nat
  BY <1>1 DEF BInv, IInv, TypeOK, Room, Chars
<1>3. HalfStored /\ inDos /\ Carrying /\ accepted > 0
  BY <1>1 DEF BInv, Books, Carrying
<1> DEFINE before == [i \in 1..idx |-> mem[i - 1]]
<1>4. Whole(printed, lost, before, accepted - 1) /\ before \in Seq(Nat)
  <2>1. Arrived = accepted - 1 /\ Waiting = before
    BY <1>1, <1>3 DEF Arrived, Waiting
  <2> QED BY <1>1, <2>1, WaitingType DEF BInv, Books
<1>5. [i \in 1..idx |-> mem'[i - 1]] = before
  <2>1. CASE part = "count"
    BY <2>1 DEF Put
  <2>2. CASE part # "count"
    <3>1. \A i \in 1..idx : mem'[i - 1] = mem[i - 1]
      BY <1>2, <2>2 DEF Put
    <3> QED BY <3>1
  <2> QED BY <2>1, <2>2
<1>6. /\ len' = (IF "count" \in todo' THEN idx ELSE idx + 1)
      /\ "store" \notin todo' => mem'[idx] = accepted
  <2>1. CASE part = "count"
    BY <1>1, <1>2, <1>3, <2>1 DEF Put, HalfStored
  <2>2. CASE part = "store"
    BY <1>1, <1>2, <1>3, <2>2 DEF Put, HalfStored
  <2> QED BY <1>2, <2>1, <2>2
<1>7. CASE todo' # {}
  <2>1. pc' = "put" /\ after' = after /\ idx' = idx
    BY <1>1, <1>7 DEF Put
  <2>2. Waiting' = before
    BY <1>1, <1>5, <2>1 DEF Waiting
  <2>3. Carrying' /\ Arrived' = accepted - 1
    BY <1>1, <2>1 DEF Carrying, Arrived
  <2> QED BY <1>1, <1>3, <1>4, <1>6, <1>7, <2>1, <2>2, <2>3 DEF Books, HalfStored
<1>8. CASE todo' = {}
  <2>1. pc' = "note" /\ len' = idx + 1 /\ mem'[idx] = accepted
    BY <1>6, <1>8 DEF Put, GoTo
  <2>2. Waiting' = Append(before, accepted)
    <3>1. Waiting' = [i \in 1..(idx + 1) |-> mem'[i - 1]]
      BY <1>1, <2>1 DEF Waiting, Pending
    <3>2. Len(before) = idx /\ Append(before, accepted) =
            [i \in 1..(idx + 1) |-> IF i = idx + 1 THEN accepted ELSE before[i]]
      BY <1>2, <1>4
    <3>3. \A i \in 1..(idx + 1) : mem'[i - 1] = IF i = idx + 1 THEN accepted ELSE before[i]
      <4> SUFFICES ASSUME NEW i \in 1..(idx + 1)
                   PROVE  mem'[i - 1] = IF i = idx + 1 THEN accepted ELSE before[i]
        OBVIOUS
      <4>1. CASE i = idx + 1
        BY <1>2, <2>1, <4>1
      <4>2. CASE i \in 1..idx
        BY <1>2, <1>5, <4>2
      <4> QED BY <1>2, <4>1, <4>2
    <3> QED BY <3>1, <3>2, <3>3
  <2>3. ~Carrying' /\ Arrived' = accepted
    BY <1>1, <2>1 DEF Carrying, Arrived
  <2>4. accepted - 1 \in Nat /\ (accepted - 1) + 1 = accepted
    BY <1>2, <1>3
  <2>5. Whole(printed, lost, Append(before, accepted), accepted)
    <3>1. printed \in Seq(Nat)
      BY WaitingType DEF BInv
    <3> HIDE DEF before
    <3>2. Whole(printed, lost, Append(before, (accepted - 1) + 1), (accepted - 1) + 1)
      BY <1>4, <2>4, <3>1, WholeGrows
    <3> QED BY <2>4, <3>2
  <2> HIDE DEF before
  <2> QED BY <1>1, <1>3, <2>1, <2>2, <2>3, <2>5 DEF Books, HalfStored
<1> QED BY <1>7, <1>8

(* The rest of prn_buf_add moves no character.                             *)
LEMMA BooksNote == BInv /\ Note => Books'
<1> SUFFICES ASSUME BInv, Note, ~direct' PROVE Books'
  BY DEF Books
<1>1. /\ pc = "note" /\ isr = "none" /\ isr' = "none" /\ inDos' = inDos
      /\ Pending' = Pending /\ direct' = direct
      /\ accepted' = accepted /\ printed' = printed /\ lost' = lost
  BY DEF Note, Running, Pending, buffer, interrupt, history
<1>2. pc' = "out" \/ (pc' = "flush" /\ after' = "out")
  BY DEF Note, FlushThen, GoTo
<1>3. Waiting = Pending /\ Waiting' = Pending /\ ~Carrying /\ ~Carrying' /\ Arrived' = Arrived
  BY <1>1, <1>2 DEF Waiting, Carrying, Arrived
<1> QED BY <1>1, <1>2, <1>3 DEF BInv, Books, HalfStored

(* The frame is summed up over exactly what waits.                         *)
LEMMA BooksFlush == BInv /\ BeginFlush => Books'
<1> SUFFICES ASSUME BInv, BeginFlush, ~direct' PROVE Books'
  BY DEF Books
<1>1. /\ pc = "flush" /\ isr = "none" /\ isr' = "none" /\ inDos' = inDos
      /\ Pending' = Pending /\ direct' = direct
      /\ accepted' = accepted /\ printed' = printed /\ lost' = lost
  BY DEF BeginFlush, Running, Pending, buffer, interrupt, history
<1>2. after \in {"load", "out"} /\ after' = after
  BY DEF BInv, IInv, TypeOK, BeginFlush, GoTo
<1>3. pc' = after \/ (pc' = "send" /\ frame' = Pending)
  BY DEF BeginFlush, GoTo
<1>4. Waiting = Pending /\ Waiting' = Pending /\ Carrying' = Carrying /\ Arrived' = Arrived
  BY <1>1, <1>2, <1>3 DEF Waiting, Carrying, Arrived
<1> QED BY <1>1, <1>2, <1>3, <1>4 DEF BInv, Books, HalfStored

(* The frame sent is what waits, since the timer kept away: the FujiNet     *)
(* prints it whole or not at all.                                          *)
LEMMA BooksSend == BInv /\ Send => Books'
<1> SUFFICES ASSUME BInv, Send, ~direct' PROVE Books'
  BY DEF Books
<1>1. /\ pc = "send" /\ isr = "none" /\ isr' = "none" /\ pc' = "wait" /\ after' = after
      /\ inDos' = inDos /\ direct' = direct /\ accepted' = accepted
  BY DEF Send, Running, GoTo, interrupt
<1>2. frame = Pending /\ Waiting = Pending /\ Whole(printed, lost, Pending, Arrived)
  BY <1>1 DEF BInv, Books, Waiting
<1>3. frame = [i \in DOMAIN frame |-> mem[i - 1]]
  BY <1>2 DEF Pending
<1>4. PICK a : Request(Pending, a)
  BY <1>2, <1>3 DEF Send
<1>5. Arrived \in Nat
  BY <1>1, WaitingType DEF BInv, Books, Arrived
<1>6. Whole(printed', lost', << >>, Arrived)
  BY <1>2, <1>4, <1>5, RequestKeeps DEF BInv
<1>7. Waiting' = << >> /\ Carrying' = Carrying /\ Arrived' = Arrived
  BY <1>1 DEF Waiting, Carrying, Arrived
<1> QED BY <1>1, <1>6, <1>7 DEF BInv, Books, HalfStored

(* The buffer is emptied of what has been sent.                            *)
LEMMA BooksEnd == BInv /\ ExchangeEnds => Books'
<1> SUFFICES ASSUME BInv, ExchangeEnds, ~direct' PROVE Books'
  BY DEF Books
<1>1. /\ pc = "wait" /\ isr = "none" /\ isr' = "none" /\ pc' = after /\ after' = after
      /\ len' = 0 /\ inDos' = inDos /\ direct' = direct
      /\ accepted' = accepted /\ printed' = printed /\ lost' = lost
  BY DEF ExchangeEnds, Running, GoTo, Emptied, interrupt, history
<1>2. after \in {"load", "out"}
  BY DEF BInv, IInv, TypeOK
<1>3. Pending' = << >>
  BY <1>1 DEF Pending
<1>4. Waiting = << >> /\ Waiting' = << >> /\ Carrying' = Carrying /\ Arrived' = Arrived
  BY <1>1, <1>2, <1>3 DEF Waiting, Carrying, Arrived
<1> QED BY <1>1, <1>2, <1>4 DEF BInv, Books, HalfStored

(* A due timer finds the foreground outside the driver, and sends what      *)
(* waits; any other tick moves no character.                               *)
LEMMA BooksTick == BInv /\ Tick => Books'
<1> SUFFICES ASSUME BInv, Tick, ~direct' PROVE Books'
  BY DEF Books
<1>1. /\ isr = "none" /\ pc' = pc /\ after' = after /\ inDos' = inDos /\ direct' = direct
      /\ accepted' = accepted /\ todo' = todo /\ idx' = idx /\ frame' = frame
      /\ mem' = mem /\ len' = len
  BY DEF Tick, Running, buffer
<1>2. Carrying' = Carrying /\ Arrived' = Arrived /\ Pending' = Pending /\ (HalfStored => HalfStored')
  BY <1>1 DEF Carrying, Arrived, Pending, HalfStored
<1>3. CASE Due
  <2>1. pc = "out"
    BY <1>1, <1>3 DEF Due, BInv, Books
  <2>2. Waiting = Pending /\ Arrived = accepted /\ accepted \in Nat
    BY <1>1, <2>1, WaitingType DEF BInv, Waiting, Arrived, Carrying
  <2>3. PICK a : Request(Pending, a)
    BY <1>3 DEF Tick
  <2>4. Whole(printed', lost', << >>, Arrived)
    BY <1>1, <2>2, <2>3, RequestKeeps DEF BInv, Books
  <2>5. isr' = "wait" /\ Waiting' = << >>
    BY <1>3 DEF Tick, Waiting
  <2> QED BY <1>1, <1>2, <2>1, <2>4, <2>5 DEF BInv, Books
<1>4. CASE ~Due
  <2>1. isr' = isr /\ printed' = printed /\ lost' = lost
    BY <1>4 DEF Tick, interrupt
  <2>2. Waiting' = Waiting
    BY <1>1, <1>2, <2>1 DEF Waiting
  <2> QED BY <1>1, <1>2, <2>1, <2>2 DEF BInv, Books
<1> QED BY <1>3, <1>4

(* The timer empties the buffer of what it has sent.                       *)
LEMMA BooksTimer == BInv /\ TimerReturns => Books'
<1> SUFFICES ASSUME BInv, TimerReturns, ~direct' PROVE Books'
  BY DEF Books
<1>1. /\ isr = "wait" /\ isr' = "none" /\ pc' = pc /\ after' = after /\ len' = 0
      /\ inDos' = inDos /\ direct' = direct
      /\ accepted' = accepted /\ printed' = printed /\ lost' = lost
  BY DEF TimerReturns, Emptied, history
<1>2. pc = "out"
  BY <1>1 DEF BInv, Books
<1>3. Pending' = << >>
  BY <1>1 DEF Pending
<1>4. Waiting = << >> /\ Waiting' = << >> /\ Carrying' = Carrying /\ Arrived' = Arrived
  BY <1>1, <1>2, <1>3 DEF Waiting, Carrying, Arrived
<1> QED BY <1>1, <1>2, <1>4 DEF BInv, Books, HalfStored

(* As long as everybody prints with InDOS up, every character is printed   *)
(* once and in order, waits in the buffer, or was in a request the FujiNet *)
(* did not print (prn_buf_add, flush_prn_buf, timer_tick, idle_flush).     *)
THEOREM CharactersAccounted == Spec => []Accounted
<1>1. IInv /\ Books /\ [Next]_vars => Books'
  <2> SUFFICES ASSUME BInv, [Next]_vars PROVE Books'
    BY DEF BInv
  <2>1. CASE Foreground
    BY <2>1, BooksLoad, BooksPut, BooksNote, BooksFlush, BooksSend, BooksEnd DEF Foreground
  <2>2. CASE UNCHANGED vars
    BY <2>2 DEF BInv, Books, HalfStored, Waiting, Pending, Carrying, Arrived, vars, buffer,
                clock, caller, interrupt, history
  <2> QED BY <2>1, <2>2, BooksOutside, BooksTick, BooksTimer DEF Next
<1>2. Books => Accounted
  <2> SUFFICES ASSUME Books, pc = "out", isr = "none", ~direct
               PROVE  Whole(printed, lost, Pending, accepted)
    BY DEF Accounted, Whole
  <2> QED BY DEF Books, Waiting, Arrived, Carrying
<1> QED BY BooksInit, Inductive, <1>1, <1>2, PTL DEF Spec
=============================================================================
