------------------------- MODULE FirmwareTypeProofs -------------------------
(***************************************************************************)
(* The types of Firmware's variables, for every number of units, disks,    *)
(* pieces and frames.  What a step does depends on what lies on the line,  *)
(* so the line has types too: which device sends which data.               *)
(***************************************************************************)
EXTENDS Firmware, TLAPS

IsSeq(l) == \E S : l \in Seq(S)

-----------------------------------------------------------------------------
(* Sequences: a function over 1..n, an element, and the first n elements.  *)
LEMMA FunctionSeq ==
    ASSUME NEW T, NEW n \in Nat, NEW f \in [1..n -> T]
    PROVE  f \in Seq(T) /\ Len(f) = n
OBVIOUS

(* The elements of a sequence of T are of T.                               *)
LEMMA ElementOf ==
    ASSUME NEW T, NEW l \in Seq(T)
    PROVE  Len(l) \in Nat /\ DOMAIN l = 1..Len(l) /\ \A i \in 1..Len(l) : l[i] \in T
OBVIOUS

(* The first n elements of a sequence.                                     *)
LEMMA FirstOf ==
    ASSUME NEW T, NEW l \in Seq(T), NEW n \in 0..Len(l)
    PROVE  /\ SubSeq(l, 1, n) \in Seq(T) /\ Len(SubSeq(l, 1, n)) = n
           /\ \A i \in 1..n : SubSeq(l, 1, n)[i] = l[i]
OBVIOUS

-----------------------------------------------------------------------------
(* What the operators of BusCall make of a line of frames of a set S.      *)

(* A sequence is one over any set that has its elements.                   *)
LEMMA SeqOver ==
    ASSUME NEW S, NEW T, NEW l \in Seq(S), \A i \in DOMAIN l : l[i] \in T
    PROVE  l \in Seq(T)
<1>1. Len(l) \in Nat /\ DOMAIN l = 1..Len(l) /\ l \in [1..Len(l) -> T]
  OBVIOUS
<1> QED
  BY <1>1

(* port_flush_rx leaves a tail of the line.                                *)
LEMMA FlushedKeeps ==
    ASSUME NEW S, NEW l \in Seq(S), NEW k \in Flushed(l)
    PROVE  k \in Seq(S) /\ Len(k) <= Len(l)
<1>1. PICK n \in 1..(Len(l) + 1) : k = SubSeq(l, n, Len(l))
  BY DEF Flushed
<1> QED
  BY <1>1

(* What is received is the oldest frame or no whole one.                   *)
LEMMA ReceivedKeeps ==
    ASSUME NEW S, NEW l \in Seq(S), MaxLine \in Nat, Len(l) <= MaxLine + 1, NEW r \in Received(l)
    PROVE  /\ r.left \in Seq(S) /\ Len(r.left) <= MaxLine
           /\ r.got \in S \cup {Nothing, Damaged}
           /\ r.got \notin {Nothing, Damaged} => l # << >> /\ r.got = Head(l) /\ r.left = Tail(l)
<1>1. CASE l = << >>
  <2>1. r = [got |-> Nothing, left |-> << >>, cost |-> 0]
    BY <1>1 DEF Received
  <2> QED
    BY <2>1
<1>2. CASE l # << >>
  <2>1. Head(l) \in S /\ Tail(l) \in Seq(S) /\ Len(Tail(l)) = Len(l) - 1
    BY <1>2
  <2>2. \/ r = [got |-> Head(l), left |-> Tail(l), cost |-> 0]
        \/ r = [got |-> Damaged, left |-> Tail(l), cost |-> 1]
        \/ r = [got |-> Nothing, left |-> << >>, cost |-> 1]
        \/ Len(l) <= MaxLine /\ r = [got |-> Nothing, left |-> l, cost |-> 1]
    BY <1>2 DEF Received
  <2>3. CASE r = [got |-> Head(l), left |-> Tail(l), cost |-> 0]
    <3>1. r.got = Head(l) /\ r.left = Tail(l)
      BY <2>3
    <3> QED
      BY <1>2, <2>1, <3>1
  <2>4. CASE r = [got |-> Damaged, left |-> Tail(l), cost |-> 1]
    <3>1. r.got = Damaged /\ r.left = Tail(l)
      BY <2>4
    <3> QED
      BY <2>1, <3>1
  <2>5. CASE r = [got |-> Nothing, left |-> << >>, cost |-> 1]
    <3>1. r.got = Nothing /\ r.left = << >>
      BY <2>5
    <3> QED
      BY <3>1
  <2>6. CASE Len(l) <= MaxLine /\ r = [got |-> Nothing, left |-> l, cost |-> 1]
    <3>1. r.got = Nothing /\ r.left = l
      BY <2>6
    <3> QED
      BY <2>6, <3>1
  <2> QED
    BY <2>2, <2>3, <2>4, <2>5, <2>6
<1> QED
  BY <1>1, <1>2

(* What the FujiNet sends is the answer or a refusal.                      *)
LEMMA HandledKeeps ==
    ASSUME NEW S, NEW ans \in S, [ans EXCEPT !.ok = FALSE, !.data = Ack] \in S, NEW able,
           NEW h \in Handled(ans, able)
    PROVE  /\ h.sent \in Seq(S) /\ Len(h.sent) <= 1
           /\ h.sent \in {<< >>, <<ans>>, <<[ans EXCEPT !.ok = FALSE, !.data = Ack]>>}
           /\ h.sent = <<ans>> => h.done \/ ans = [ans EXCEPT !.ok = FALSE, !.data = Ack]
<1> DEFINE no == [ans EXCEPT !.ok = FALSE, !.data = Ack]
           refusal == [done |-> FALSE, sent |-> <<no>>, cost |-> 0]
<1>1. h \in {IF able THEN [done |-> TRUE, sent |-> <<ans>>, cost |-> 0] ELSE refusal,
             [refusal EXCEPT !.cost = 1], [done |-> FALSE, sent |-> << >>, cost |-> 1]}
  BY DEF Handled
<1>2. \/ h.sent = <<ans>> /\ h.done
      \/ h.sent = <<no>>
      \/ h.sent = << >>
  BY <1>1
<1>3. <<ans>> \in Seq(S) /\ <<no>> \in Seq(S) /\ << >> \in Seq(S)
  OBVIOUS
<1>4. Len(<<ans>>) = 1 /\ Len(<<no>>) = 1 /\ Len(<< >>) = 0
  OBVIOUS
<1>5. <<no>> = <<ans>> => no = ans
  OBVIOUS
<1>6. h.sent = <<ans>> => h.done \/ ans = no
  <2>1. <<ans>> # << >>
    OBVIOUS
  <2> HIDE DEF no
  <2> QED
    BY <1>2, <1>5, <2>1
<1>7. h.sent \in {<< >>, <<ans>>, <<no>>}
  BY <1>2
<1>8. h.sent \in Seq(S) /\ Len(h.sent) <= 1
  <2>1. \A w \in {<< >>, <<ans>>, <<no>>} : w \in Seq(S)
    BY <1>3
  <2>2. h.sent \in Seq(S)
    BY <1>7, <2>1
  <2>3. CASE h.sent = << >>
    BY <1>4, <2>2, <2>3
  <2>4. CASE h.sent = <<ans>>
    BY <1>4, <2>2, <2>4
  <2>5. CASE h.sent = <<no>>
    BY <1>4, <2>2, <2>5
  <2> QED
    BY <1>7, <2>3, <2>4, <2>5
<1> QED
  BY <1>6, <1>7, <1>8

(* A set of frames with what an old answer and a refusal are made of them. *)
Closed(S) == \A f \in S : [f EXCEPT !.own = FALSE] \in S /\ [f EXCEPT !.ok = FALSE, !.data = Ack] \in S

(* Answers to calls that are over.                                         *)
LEMMA DisownedKeeps ==
    ASSUME NEW S, NEW l \in Seq(S), Closed(S)
    PROVE  Disowned(l) \in Seq(S) /\ Len(Disowned(l)) = Len(l)
<1>1. Len(l) \in Nat /\ DOMAIN l = 1..Len(l) /\ \A i \in DOMAIN l : l[i] \in S
  OBVIOUS
<1>2. Disowned(l) \in [1..Len(l) -> S]
  BY <1>1 DEF Disowned, Closed
<1> QED
  BY <1>1, <1>2

\* The answers on the line, disowned, and what may be answered are of S.
AnswersOf(S, ans) ==
    /\ Disowned(line) \in Seq(S) /\ Len(Disowned(line)) <= MaxLine /\ MaxLine \in Nat
    /\ ans \in S /\ [ans EXCEPT !.ok = FALSE, !.data = Ack] \in S
OutcomeOf(S, o, dev, kind) ==
    /\ o.left \in Seq(S) /\ Len(o.left) <= MaxLine
    /\ o.got \in S \cup {Nothing, Damaged}
    /\ o.ok = Accepts(o.got, dev, kind)

(* A whole exchange of the driver.                                         *)
LEMMA ExchangedOf ==
    ASSUME NEW S, NEW ans, AnswersOf(S, ans),
           NEW dev, NEW kind, NEW able, NEW o \in Exchange(dev, kind, ans, able)
    PROVE  OutcomeOf(S, o, dev, kind)
<1> USE DEF AnswersOf
<1>2. PICK l \in Flushed(Disowned(line)), h \in Handled(ans, able) :
        \E r \in Received(l \o h.sent) : o = [done |-> h.done, ok |-> Accepts(r.got, dev, kind), got |-> r.got,
                                              left |-> r.left, cost |-> h.cost + r.cost]
  BY DEF Exchange
<1>3. PICK r \in Received(l \o h.sent) : o = [done |-> h.done, ok |-> Accepts(r.got, dev, kind), got |-> r.got,
                                              left |-> r.left, cost |-> h.cost + r.cost]
  BY <1>2
<1>4. l \in Seq(S) /\ Len(l) <= MaxLine
  BY FlushedKeeps
<1>5. h.sent \in Seq(S) /\ Len(h.sent) <= 1
  BY HandledKeeps
<1>6. l \o h.sent \in Seq(S) /\ Len(l \o h.sent) <= MaxLine + 1
  BY <1>4, <1>5
<1>7. /\ r.left \in Seq(S) /\ Len(r.left) <= MaxLine /\ r.got \in S \cup {Nothing, Damaged}
  BY <1>6, ReceivedKeeps
<1>8. o.left = r.left /\ o.got = r.got /\ o.ok = Accepts(r.got, dev, kind)
  BY <1>3
<1> QED
  BY <1>7, <1>8 DEF OutcomeOf

(* The same, when the line is of S as it is.                               *)
LEMMA Exchanged ==
    ASSUME NEW S, Closed(S), line \in Seq(S), Len(line) <= MaxLine, MaxLine \in Nat, NEW ans \in S,
           NEW dev, NEW kind, NEW able, NEW o \in Exchange(dev, kind, ans, able)
    PROVE  /\ o.left \in Seq(S) /\ Len(o.left) <= MaxLine
           /\ o.got \in S \cup {Nothing, Damaged}
           /\ o.ok = Accepts(o.got, dev, kind)
<1>1. Disowned(line) \in Seq(S) /\ Len(Disowned(line)) <= MaxLine
  BY DisownedKeeps
<1>2. AnswersOf(S, ans)
  BY <1>1 DEF Closed, AnswersOf
<1> QED
  BY <1>2, ExchangedOf DEF OutcomeOf

(* With nothing on the line before it, an exchange that goes well got the  *)
(* answer to its own request, and leaves nothing.                          *)
LEMMA CleanExchange ==
    ASSUME line = << >>, MaxLine \in Nat, NEW ans, [ans EXCEPT !.ok = FALSE, !.data = Ack].ok = FALSE,
           NEW dev, NEW kind, NEW able, NEW o \in Exchange(dev, kind, ans, able), o.ok
    PROVE  o.got = ans /\ o.done /\ o.left = << >>
<1> DEFINE no == [ans EXCEPT !.ok = FALSE, !.data = Ack]
<1>1. Disowned(line) = << >>
  BY DEF Disowned
<1>2. \A l \in Flushed(<< >>) : l = << >>
  BY DEF Flushed
<1>3. PICK h \in Handled(ans, able) :
        \E r \in Received(h.sent) : o = [done |-> h.done, ok |-> Accepts(r.got, dev, kind), got |-> r.got,
                                         left |-> r.left, cost |-> h.cost + r.cost]
  <2>1. PICK l \in Flushed(Disowned(line)), h \in Handled(ans, able) :
          \E r \in Received(l \o h.sent) : o = [done |-> h.done, ok |-> Accepts(r.got, dev, kind), got |-> r.got,
                                                left |-> r.left, cost |-> h.cost + r.cost]
    BY DEF Exchange
  <2>2. h.sent \in {<< >>, <<ans>>, <<no>>}
    BY DEF Handled
  <2>3. << >> \o h.sent = h.sent
    BY <2>2
  <2> QED
    BY <1>1, <1>2, <2>1, <2>3
<1>4. PICK r \in Received(h.sent) : o = [done |-> h.done, ok |-> Accepts(r.got, dev, kind), got |-> r.got,
                                         left |-> r.left, cost |-> h.cost + r.cost]
  BY <1>3
<1>5. o.got = r.got /\ o.left = r.left /\ o.done = h.done /\ Accepts(r.got, dev, kind)
  BY <1>4
<1>6. r.got.whole /\ r.got.ok
  BY <1>5 DEF Accepts
<1>7. ~Nothing.whole /\ ~Damaged.whole
  BY DEF Nothing, Damaged
<1>8. \/ h.sent = <<ans>> /\ h.done
      \/ h.sent = <<no>>
      \/ h.sent = << >>
  BY DEF Handled
<1>9. h.sent # << >> /\ r.got = Head(h.sent) /\ r.left = Tail(h.sent)
  <2>1. CASE h.sent = << >>
    BY <1>6, <1>7, <2>1 DEF Received
  <2>2. CASE h.sent # << >>
    <3>1. \/ r = [got |-> Head(h.sent), left |-> Tail(h.sent), cost |-> 0]
          \/ r.got \in {Nothing, Damaged}
      BY <2>2 DEF Received
    <3>2. r.got # Nothing /\ r.got # Damaged
      BY <1>6, <1>7
    <3>3. r = [got |-> Head(h.sent), left |-> Tail(h.sent), cost |-> 0]
      BY <3>1, <3>2
    <3>4. r.got = Head(h.sent) /\ r.left = Tail(h.sent)
      BY <3>3
    <3> QED
      BY <2>2, <3>4
  <2> QED
    BY <2>1, <2>2
<1>10. CASE h.sent = <<ans>> /\ h.done
  BY <1>5, <1>9, <1>10
<1>11. CASE h.sent = <<no>>
  <2>1. r.got = no
    BY <1>9, <1>11
  <2> QED
    BY <1>6, <2>1
<1> QED
  BY <1>8, <1>9, <1>10, <1>11

(* A request goes out.                                                     *)
LEMMA SentKeeps ==
    ASSUME NEW S, Closed(S), line \in Seq(S), NEW ans \in S, NEW h \in Handlings(ans), SendFrame(h)
    PROVE  /\ line' \in Seq(S) /\ Len(line') <= MaxLine
           /\ h.sent \in {<< >>, <<ans>>, <<[ans EXCEPT !.ok = FALSE, !.data = Ack]>>}
           /\ h.sent = <<ans>> => h.done \/ ans = [ans EXCEPT !.ok = FALSE, !.data = Ack]
<1>1. /\ h.sent \in Seq(S)
      /\ h.sent \in {<< >>, <<ans>>, <<[ans EXCEPT !.ok = FALSE, !.data = Ack]>>}
      /\ h.sent = <<ans>> => h.done \/ ans = [ans EXCEPT !.ok = FALSE, !.data = Ack]
  <2>1. CASE h \in Handled(ans, TRUE)
    <3>1. [ans EXCEPT !.ok = FALSE, !.data = Ack] \in S
      BY DEF Closed
    <3> QED
      BY <2>1, <3>1, HandledKeeps
  <2>2. CASE h = [done |-> FALSE, sent |-> << >>, cost |-> 0]
    <3>1. h.sent = << >> /\ << >> \in Seq(S) /\ << >> # <<ans>>
      BY <2>2
    <3> QED
      BY <3>1
  <2> QED
    BY <2>1, <2>2 DEF Handlings
<1>2. PICK l \in Flushed(line) : Len(l \o h.sent) <= MaxLine /\ line' = l \o h.sent
  BY DEF SendFrame
<1>3. l \in Seq(S)
  BY FlushedKeeps
<1>4. line' \in Seq(S) /\ Len(line') <= MaxLine
  BY <1>1, <1>2, <1>3
<1> QED
  BY <1>1, <1>4

(* An answer, or none, comes in.                                           *)
LEMMA ReceiveKeeps ==
    ASSUME NEW S, line \in Seq(S), Len(line) <= MaxLine, MaxLine \in Nat, Receive
    PROVE  /\ line' \in Seq(S) /\ Len(line') <= MaxLine
           /\ \E g \in S \cup {Nothing, Damaged} : call' = [call EXCEPT !.phase = "received", !.got = g]
<1>1. PICK r \in Received(line) : /\ call' = [call EXCEPT !.phase = "received", !.got = r.got]
                                  /\ line' = r.left
  BY DEF Receive
<1>2. Len(line) <= MaxLine + 1
  <2>1. Len(line) \in Nat
    OBVIOUS
  <2> QED
    BY <2>1
<1>3. r.left \in Seq(S) /\ Len(r.left) <= MaxLine /\ r.got \in S \cup {Nothing, Damaged}
  BY <1>2, ReceivedKeeps
<1> QED
  BY <1>1, <1>3

(* The printer's exchange.                                                 *)
LEMMA TickKeeps ==
    ASSUME NEW S, Closed(S), line \in Seq(S), PrinterAnswer \in S, Len(line) <= MaxLine, MaxLine \in Nat,
           PrinterTick
    PROVE  line' \in Seq(S) /\ Len(line') <= MaxLine
<1>1. PICK l \in Flushed(line), h \in Handled(PrinterAnswer, TRUE) :
        \E r \in Received(l \o h.sent) : line' = r.left /\ Len(r.left) <= MaxLine
  BY DEF PrinterTick
<1>2. PICK r \in Received(l \o h.sent) : line' = r.left /\ Len(r.left) <= MaxLine
  BY <1>1
<1>3. l \in Seq(S) /\ Len(l) <= MaxLine
  BY FlushedKeeps
<1>4. h.sent \in Seq(S) /\ Len(h.sent) <= 1
  <2>1. [PrinterAnswer EXCEPT !.ok = FALSE, !.data = Ack] \in S
    BY DEF Closed
  <2> QED
    BY <2>1, HandledKeeps
<1>5. l \o h.sent \in Seq(S) /\ Len(l \o h.sent) <= MaxLine + 1
  BY <1>3, <1>4
<1>6. r.left \in Seq(S)
  BY <1>5, ReceivedKeeps
<1> QED
  BY <1>2, <1>6

-----------------------------------------------------------------------------
(* Which device sends which data, when m disks were mounted so far.        *)

FramesOf(D, X) == [dev : D, ok : BOOLEAN, data : X, own : BOOLEAN, whole : {TRUE}]
DataOf(kind, V) == [kind : {kind}, val : V]
Acks == DataOf("ack", {0})
Statuses == [bw : Nat, error : Nat]
SectorsRead == [disk : 0..Len(Sectors), sector : Nat]

FujiFrames(m) ==
    FramesOf({Device("fuji")}, Acks \cup DataOf("times", [Units -> 0..m]) \cup DataOf("slots", [Units -> {"r", "rw"}]))
DiskFrames == FramesOf({DiskOf(u) : u \in Units}, Acks \cup DataOf("sector", SectorsRead))
NetFrames ==
    FramesOf({Device("net")}, Acks \cup DataOf("status", Statuses) \cup DataOf("chunk", Seq(0..Pieces)))
PrinterFrames == FramesOf({Device("printer")}, Acks)
ClockFrames == FramesOf({Device("clock")}, Acks \cup DataOf("status", {0}))
Frames(m) == FujiFrames(m) \cup DiskFrames \cup NetFrames \cup PrinterFrames

(* A frame in which own or ok is lost is one of the same device.           *)
LEMMA FramesOfKeeps ==
    ASSUME NEW D, NEW X, Acks \subseteq X, NEW f \in FramesOf(D, X)
    PROVE  [f EXCEPT !.own = FALSE] \in FramesOf(D, X) /\ [f EXCEPT !.ok = FALSE, !.data = Ack] \in FramesOf(D, X)
<1>1. Ack \in X
  BY DEF Ack, Data, Acks, DataOf
<1> QED
  BY <1>1 DEF FramesOf

(* The two sets of frames are closed.                                      *)
LEMMA ClockFramesKeep == Closed(ClockFrames)
BY FramesOfKeeps DEF ClockFrames, Closed

LEMMA FramesKeep == ASSUME NEW m PROVE Closed(Frames(m))
<1> SUFFICES ASSUME NEW f \in Frames(m)
             PROVE  [f EXCEPT !.own = FALSE] \in Frames(m) /\ [f EXCEPT !.ok = FALSE, !.data = Ack] \in Frames(m)
  BY DEF Closed
<1>1. CASE f \in FujiFrames(m)
  BY <1>1, FramesOfKeeps DEF FujiFrames, Frames
<1>2. CASE f \in DiskFrames
  BY <1>2, FramesOfKeeps DEF DiskFrames, Frames
<1>3. CASE f \in NetFrames
  BY <1>3, FramesOfKeeps DEF NetFrames, Frames
<1>4. CASE f \in PrinterFrames
  BY <1>4, FramesOfKeeps DEF PrinterFrames, Frames
<1> QED
  BY <1>1, <1>2, <1>3, <1>4 DEF Frames

(* Mounting a disk takes nothing away.                                     *)
LEMMA FramesGrow ==
    ASSUME NEW m \in Nat, NEW n \in Nat, m <= n
    PROVE  Frames(m) \subseteq Frames(n)
<1>1. [Units -> 0..m] \subseteq [Units -> 0..n]
  OBVIOUS
<1>2. FujiFrames(m) \subseteq FujiFrames(n)
  BY <1>1 DEF FujiFrames, FramesOf, DataOf
<1> QED
  BY <1>2 DEF Frames

(* What a frame holds, by its kind and by its device.                      *)
LEMMA FrameHolds ==
    ASSUME NEW m, NEW f \in Frames(m)
    PROVE  /\ f.data.kind = "times" => f.data.val \in [Units -> 0..m]
           /\ f.data.kind = "slots" => f.data.val \in [Units -> {"r", "rw"}]
           /\ f.data.kind = "sector" => f.data.val \in SectorsRead
           /\ f.data.kind = "status" => f.data.val \in Statuses
           /\ f.data.kind = "chunk" => f.data.val \in Seq(0..Pieces)
           /\ f.data.kind \in {"ack", "times", "slots", "sector", "status", "chunk"}
           /\ \A u : f.dev = DiskOf(u) => f.data.kind \in {"ack", "sector"}
           /\ f.dev = Device("net") => f.data.kind \in {"ack", "status", "chunk"}
           /\ f.whole
<1>1. \A u : DiskOf(u)[1] = "disk"
  BY DEF DiskOf
<1>2. /\ Device("fuji")[1] = "fuji" /\ Device("net")[1] = "net" /\ Device("printer")[1] = "printer"
  BY DEF Device
<1>3. CASE f \in FujiFrames(m)
  <2>1. f.data.kind \in {"ack", "times", "slots"} /\ f.dev[1] = "fuji"
    BY <1>2, <1>3 DEF FujiFrames, FramesOf, Acks, DataOf
  <2> QED
    BY <1>1, <1>2, <1>3, <2>1 DEF FujiFrames, FramesOf, Acks, DataOf
<1>4. CASE f \in DiskFrames
  <2>1. f.data.kind \in {"ack", "sector"} /\ f.dev[1] = "disk"
    BY <1>1, <1>4 DEF DiskFrames, FramesOf, Acks, DataOf
  <2> QED
    BY <1>1, <1>2, <1>4, <2>1 DEF DiskFrames, FramesOf, Acks, DataOf
<1>5. CASE f \in NetFrames
  <2>1. f.data.kind \in {"ack", "status", "chunk"} /\ f.dev[1] = "net"
    BY <1>2, <1>5 DEF NetFrames, FramesOf, Acks, DataOf
  <2> QED
    BY <1>1, <1>2, <1>5, <2>1 DEF NetFrames, FramesOf, Acks, DataOf
<1>6. CASE f \in PrinterFrames
  <2>1. f.data.kind = "ack" /\ f.dev[1] = "printer"
    BY <1>2, <1>6 DEF PrinterFrames, FramesOf, Acks, DataOf
  <2> QED
    BY <1>1, <1>2, <1>6, <2>1 DEF PrinterFrames, FramesOf, Acks, DataOf
<1> QED
  BY <1>3, <1>4, <1>5, <1>6 DEF Frames

(* What the devices answer.                                                *)
LEMMA AnswersAreFrames ==
    ASSUME NEW m, NEW ok \in BOOLEAN
    PROVE  /\ \A v \in [Units -> 0..m] : Answer(Device("fuji"), ok, Data("times", v)) \in Frames(m)
           /\ \A v \in [Units -> {"r", "rw"}] : Answer(Device("fuji"), ok, Data("slots", v)) \in Frames(m)
           /\ Answer(Device("fuji"), ok, Ack) \in Frames(m)
           /\ \A u \in Units, v \in SectorsRead : Answer(DiskOf(u), ok, Data("sector", v)) \in Frames(m)
           /\ \A u \in Units : Answer(DiskOf(u), ok, Ack) \in Frames(m)
           /\ \A v \in Statuses : Answer(Device("net"), ok, Data("status", v)) \in Frames(m)
           /\ \A v \in Seq(0..Pieces) : Answer(Device("net"), ok, Data("chunk", v)) \in Frames(m)
           /\ Answer(Device("net"), ok, Ack) \in Frames(m)
           /\ PrinterAnswer \in Frames(m)
           /\ Answer(Device("clock"), ok, Data("status", 0)) \in ClockFrames
<1>1. \A D, X : \A d \in D, x \in X : Answer(d, ok, x) \in FramesOf(D, X)
  BY DEF Answer, FramesOf
<1>2. Ack \in Acks
  BY DEF Ack, Data, Acks, DataOf
<1>3. \A k, V : \A v \in V : Data(k, v) \in DataOf(k, V)
  BY DEF Data, DataOf
<1>4. \A v \in [Units -> 0..m] : Answer(Device("fuji"), ok, Data("times", v)) \in Frames(m)
  BY <1>1, <1>3 DEF FujiFrames, Frames
<1>5. \A v \in [Units -> {"r", "rw"}] : Answer(Device("fuji"), ok, Data("slots", v)) \in Frames(m)
  BY <1>1, <1>3 DEF FujiFrames, Frames
<1>6. Answer(Device("fuji"), ok, Ack) \in Frames(m)
  BY <1>1, <1>2 DEF FujiFrames, Frames
<1>7. \A u \in Units, v \in SectorsRead : Answer(DiskOf(u), ok, Data("sector", v)) \in Frames(m)
  BY <1>1, <1>3 DEF DiskFrames, Frames
<1>8. \A u \in Units : Answer(DiskOf(u), ok, Ack) \in Frames(m)
  BY <1>1, <1>2 DEF DiskFrames, Frames
<1>9. \A v \in Statuses : Answer(Device("net"), ok, Data("status", v)) \in Frames(m)
  BY <1>1, <1>3 DEF NetFrames, Frames
<1>10. \A v \in Seq(0..Pieces) : Answer(Device("net"), ok, Data("chunk", v)) \in Frames(m)
  BY <1>1, <1>3 DEF NetFrames, Frames
<1>11. Answer(Device("net"), ok, Ack) \in Frames(m)
  BY <1>1, <1>2 DEF NetFrames, Frames
<1>12. PrinterAnswer \in Frames(m)
  BY <1>2 DEF PrinterAnswer, Answer, PrinterFrames, Frames, FramesOf
<1>13. Answer(Device("clock"), ok, Data("status", 0)) \in ClockFrames
  BY <1>1, <1>3 DEF ClockFrames
<1> QED
  BY <1>4, <1>5, <1>6, <1>7, <1>8, <1>9, <1>10, <1>11, <1>12, <1>13

-----------------------------------------------------------------------------
(* The invariant.  Before start-up is over only the clock has answered, and *)
(* what it left is gone when start-up succeeds.                            *)

Calls(m) == [phase : {"none", "built", "sent", "received"}, dev : {Device("none"), Device("net")},
             kind : {"ack", "status", "chunk"}, got : Frames(m) \cup {Nothing, Damaged},
             alone : BOOLEAN, fresh : BOOLEAN]

BusTyped ==
    /\ Len(line) <= MaxLine
    /\ line \in IF Up THEN Seq(Frames(mounted)) ELSE Seq(ClockFrames)
    /\ boot \in {"parse", "version", "clock"} => line = << >>
    /\ call \in Calls(mounted)
    /\ ~Up => Idle

Asked == {"media", "bpb", "input", "output"}
Functions == {"none"} \cup Asked \cup DOMAIN Refusals
RequestSteps == {"done", "interrupt", "times", "slots", "boot", "transfer"}
OldTimes == -1..Len(Sectors)
Infos == {-1, 0, 1}
Outcomes == {"none", "ok", "general_fail", "unmarked", "unknown_command", "write_protect", "not_ready",
             "read_fault", "not_found"}
Requests ==
    [fn : Functions, unit : Units \cup {0}, start : Nat, count : Nat, pc : RequestSteps, idx : Nat,
     old : OldTimes, got : Seq(SectorsRead), status : Outcomes, info : Infos, rough : BOOLEAN]

RequestTyped ==
    /\ request \in Requests
    /\ request.idx <= request.count /\ Len(request.got) <= request.idx
    /\ request.fn \in Asked => request.unit \in Units
    /\ request.pc = "interrupt" => request.fn # "none"

DiskTyped ==
    /\ mounted \in 0..Len(Sectors)
    /\ medium \in [Units -> 0..mounted] /\ mode \in [Units -> {"r", "rw"}]
    /\ mountStatus \in [Units -> -1..mounted] /\ slots \in [Units -> {"none", "r", "rw"}]
    /\ bpb \in [Units -> Nat] /\ dos \in [Units -> -1..Len(Sectors)]
    /\ RequestTyped

ToolTyped ==
    /\ tool \in [name : Names \cup {"none"}, result : Nat,
                 pc : {"open", "first", "status", "read", "close", "write", "spin", "done"}]
    /\ ~Idle /\ tool.name = "nget" => tool.pc \in Steps
    /\ status \in Statuses /\ buf \in [1..Chunk -> 0..Pieces]
    /\ file \in Seq(0..Pieces) /\ Len(file) <= MaxFile /\ sent \in Nat
    /\ stream \in [of : {"none", "old", "file", "stored"}, come : Nat, read : Nat]
    /\ stream.read <= stream.come /\ (stream.of = "file" => stream.come <= Pieces)

Typed == BusTyped /\ DiskTyped /\ ToolTyped

(* The invariant gives the types that the runs check.                      *)
LEMMA TypedGivesTypeOK == Typed => TypeOK
<1> SUFFICES ASSUME Typed PROVE TypeOK
  OBVIOUS
<1> USE FirmwareDiskAssumption DEF Typed
<1>1. \A i \in DOMAIN line : line[i].data.kind \in DOMAIN Room \ {"junk"} /\ line[i].whole
  <2>1. DOMAIN Room \ {"junk"} = {"ack", "times", "slots", "sector", "status", "chunk"}
    BY DEF Room
  <2>2. CASE Up
    <3>1. \A i \in DOMAIN line : line[i] \in Frames(mounted)
      BY <2>2 DEF BusTyped
    <3> QED
      BY <2>1, <3>1, FrameHolds
  <2>3. CASE ~Up
    <3>1. \A i \in DOMAIN line : line[i] \in ClockFrames
      BY <2>3 DEF BusTyped
    <3>2. \A f \in ClockFrames : f.data.kind \in {"ack", "status"} /\ f.whole
      BY DEF ClockFrames, FramesOf, Acks, DataOf
    <3> QED
      BY <2>1, <3>1, <3>2
  <2> QED
    BY <2>2, <2>3
<1>2. Len(line) <= MaxLine /\ call.phase \in {"none", "built", "sent", "received"}
  BY DEF BusTyped, Calls
<1>3. /\ Len(Sectors) \in Nat /\ mounted \in 0..Len(Sectors)
      /\ \A m \in -1..Len(Sectors) : m \in {None, Unread} \cup Mounts
  BY DEF DiskTyped, None, Unread, Mounts
<1>4. /\ medium \in [Units -> {None} \cup Mounts] /\ mode \in [Units -> {"r", "rw"}]
      /\ mountStatus \in [Units -> {None, Unread} \cup Mounts] /\ slots \in [Units -> {"none", "r", "rw"}]
  BY <1>3 DEF DiskTyped, None, Unread, Mounts
<1>5. bpb \in [Units -> Nat] /\ dos \in [Units -> {None, Unread} \cup Mounts]
  BY <1>3 DEF DiskTyped
<1>6. /\ request.pc \in {"done", "interrupt", "times", "slots", "boot", "transfer"}
      /\ request.idx \in 0..request.count /\ Len(request.got) <= request.idx
  <2>1. request.pc \in RequestSteps /\ request.idx \in Nat /\ request.count \in Nat
    BY DEF DiskTyped, RequestTyped, Requests
  <2> QED
    BY <2>1 DEF DiskTyped, RequestTyped, RequestSteps
<1>7. /\ tool.pc \in {"open", "first", "status", "read", "close", "write", "spin", "done"}
      /\ file \in Seq(0..Pieces) /\ Len(file) <= MaxFile /\ stream.read <= stream.come
  BY DEF ToolTyped
<1> QED
  BY <1>1, <1>2, <1>3, <1>4, <1>5, <1>6, <1>7 DEF TypeOK

(* Before DOS asks anything.                                               *)
LEMMA NoRequestTyped == NoRequest \in Requests
<1>1. Len(Sectors) \in Nat /\ << >> \in Seq(SectorsRead)
  BY FirmwareDiskAssumption
<1>2. 0 \in OldTimes
  BY <1>1 DEF OldTimes
<1>3. "none" \in Functions /\ "done" \in RequestSteps /\ 0 \in Infos /\ "none" \in Outcomes
  BY DEF Functions, RequestSteps, Infos, Outcomes
<1> QED
  BY <1>1, <1>2, <1>3 DEF NoRequest, Requests, None

(* At CONFIG.SYS.                                                          *)
LEMMA InitTyped == Init => Typed
<1> SUFFICES ASSUME Init PROVE Typed
  OBVIOUS
<1> USE FirmwareDiskAssumption, FirmwareAssumption, BusCallAssumption, TransferAssumption DEF Init
<1>1. BusTyped
  <2>1. Len(line) <= MaxLine /\ line \in Seq(ClockFrames) /\ ~Up /\ line = << >>
    BY DEF Up
  <2>2. call \in Calls(mounted) /\ Idle
    BY DEF NoCall, Calls, Idle
  <2> QED
    BY <2>1, <2>2 DEF BusTyped
<1>2. DiskTyped
  <2>1. request = NoRequest /\ "none" \in Functions /\ "none" \notin Asked
    BY DEF Functions, Asked, Refusals
  <2>2. request.idx = 0 /\ request.count = 0 /\ Len(request.got) = 0 /\ request.fn = "none" /\ request.pc = "done"
    BY <2>1 DEF NoRequest
  <2>3. RequestTyped
    BY <2>1, <2>2, NoRequestTyped DEF RequestTyped
  <2> QED
    BY <2>3 DEF DiskTyped, None, Unread
<1>3. ToolTyped
  <2>1. stream \in {LeftOpen, ClosedStream}
    OBVIOUS
  <2>2. /\ stream \in [of : {"none", "old", "file", "stored"}, come : Nat, read : Nat]
        /\ stream.read <= stream.come /\ stream.of # "file"
    BY <2>1 DEF LeftOpen, ClosedStream
  <2>3. Idle
    BY DEF NoCall, Idle
  <2> QED
    BY <2>2, <2>3 DEF ToolTyped, NoTool, Statuses
<1> QED
  BY <1>1, <1>2, <1>3 DEF Typed

-----------------------------------------------------------------------------
(* Start-up.                                                               *)

LEMMA StartTyped ==
    ASSUME Typed, Start
    PROVE  Typed'
<1>1. ~Up /\ boot \in {"parse", "version", "clock"} /\ line = << >> /\ Idle
  BY DEF Start, Configure, Version, Clock, Up, Typed, BusTyped
<1>2. UNCHANGED <<call, medium, mode, mounted, mountStatus, slots, bpb, request, dos, transfer>>
  BY DEF Start, Configure, Version, Clock, disk, fujinet, driver, bus
<1>3. DiskTyped'
  BY <1>2 DEF Typed, DiskTyped, RequestTyped
<1>4. ToolTyped'
  BY <1>1, <1>2 DEF Typed, ToolTyped, transfer, Idle
<1>5. BusTyped'
  <2>1. CASE Configure \/ Version
    <3>1. line' = line /\ boot' \in {"version", "crashed", "clock", "failed"}
      BY <2>1, <1>1 DEF Configure, Version, VersionSent, VersionAnswered, VersionReturns, bus
    <3>2. ~Up /\ ~Up'
      BY <1>1, <3>1 DEF Up
    <3> QED
      BY <1>1, <1>2, <3>1, <3>2 DEF Typed, BusTyped, Idle
  <2>2. CASE Clock
    <3> DEFINE ans == Answer(Device("clock"), TRUE, Data("status", 0))
    <3>1. PICK o \in Exchange(Device("clock"), "status", ans, TRUE) :
            Takes(o) /\ boot' = IF o.ok THEN "up" ELSE "failed"
      BY <2>2 DEF Clock
    <3>2. ans \in ClockFrames
      BY AnswersAreFrames
    <3>4. line \in Seq(ClockFrames) /\ Len(line) <= MaxLine /\ MaxLine \in Nat
      BY <1>1, BusCallAssumption DEF Typed, BusTyped
    <3>5. o.left \in Seq(ClockFrames) /\ Len(o.left) <= MaxLine
      <4> HIDE DEF ans
      <4> QED
        BY <3>2, <3>4, ClockFramesKeep, Exchanged
    <3>6. o.ok => o.left = << >>
      <4>1. [ans EXCEPT !.ok = FALSE, !.data = Ack].ok = FALSE
        BY DEF Answer
      <4> HIDE DEF ans
      <4> QED
        BY <1>1, <3>4, <4>1, CleanExchange
    <3>7. CASE o.ok
      <4>1. line' = << >> /\ Up'
        BY <3>1, <3>6, <3>7 DEF Takes, Up
      <4>2. line' \in Seq(Frames(mounted')) /\ Len(line') <= MaxLine
        BY <4>1, <3>4
      <4> QED
        BY <1>2, <4>1, <4>2 DEF Typed, BusTyped, Up
    <3>8. CASE ~o.ok
      <4>1. line' = o.left /\ boot' = "failed"
        BY <3>1, <3>8 DEF Takes
      <4> QED
        BY <1>1, <1>2, <3>5, <4>1 DEF Typed, BusTyped, Up, Idle
    <3> QED
      BY <3>7, <3>8
  <2> QED
    BY <2>1, <2>2 DEF Start
<1> QED
  BY <1>3, <1>4, <1>5 DEF Typed

-----------------------------------------------------------------------------
(* The block driver.                                                       *)

(* An exchange of the driver, for any device that answers with a frame.    *)
LEMMA DriverTakes ==
    ASSUME BusTyped, Up, NEW ans \in Frames(mounted), NEW dev, NEW kind, NEW able,
           NEW o \in Exchange(dev, kind, ans, able), Takes(o), UNCHANGED <<call, mounted, boot>>
    PROVE  /\ BusTyped'
           /\ o.got \in Frames(mounted) \cup {Nothing, Damaged}
           /\ o.ok => o.got \in Frames(mounted) /\ Accepts(o.got, dev, kind)
<1>1. line \in Seq(Frames(mounted)) /\ Len(line) <= MaxLine /\ MaxLine \in Nat
  BY BusCallAssumption DEF BusTyped
<1>3. /\ o.left \in Seq(Frames(mounted)) /\ Len(o.left) <= MaxLine
      /\ o.got \in Frames(mounted) \cup {Nothing, Damaged}
      /\ o.ok = Accepts(o.got, dev, kind)
  <2> DEFINE S == Frames(mounted)
  <2>1. Closed(S) /\ ans \in S /\ line \in Seq(S)
    BY <1>1, FramesKeep
  <2> HIDE DEF S
  <2>2. /\ o.left \in Seq(S) /\ Len(o.left) <= MaxLine
        /\ o.got \in S \cup {Nothing, Damaged}
        /\ o.ok = Accepts(o.got, dev, kind)
    BY <1>1, <2>1, Exchanged
  <2> QED
    BY <2>2 DEF S
<1>4. Up' /\ line' = o.left /\ boot' = "up"
  BY DEF Takes, Up
<1>5. BusTyped'
  BY <1>3, <1>4 DEF BusTyped
<1>6. o.ok => o.got # Nothing /\ o.got # Damaged
  <2>1. ~Nothing.whole /\ ~Damaged.whole
    BY DEF Nothing, Damaged
  <2>2. o.ok => o.got.whole
    BY <1>3 DEF Accepts
  <2> QED
    BY <2>1, <2>2
<1> QED
  BY <1>3, <1>5, <1>6

(* Nothing that only changes the driver touches what the bus is about.     *)
LEMMA BusUntouched ==
    ASSUME BusTyped, UNCHANGED <<line, call, mounted, boot>>
    PROVE  BusTyped'
BY DEF BusTyped, Up, Idle

(* What mount_status becomes.                                              *)
LEMMA TimesTyped ==
    ASSUME DiskTyped, NEW o, o.got \in Frames(mounted) \cup {Nothing, Damaged}
    PROVE  Times(o) \in [Units -> -1..mounted]
<1> DEFINE d == Decoded(o.got, "times", Data("times", mountStatus))
<1>1. mounted \in Nat /\ mountStatus \in [Units -> -1..mounted]
  BY FirmwareDiskAssumption DEF DiskTyped
<1>2. CASE o.got \in Frames(mounted) /\ o.got.data.kind = "times"
  <2>1. o.got.data.val \in [Units -> 0..mounted] /\ d = o.got.data /\ Junk.kind = "junk"
    BY <1>2, FrameHolds DEF Decoded, Junk, Data
  <2>2. d # Junk
    BY <1>2, <2>1
  <2>3. Times(o) = o.got.data.val
    BY <2>1, <2>2 DEF Times
  <2> QED
    BY <1>1, <2>1, <2>3
<1>3. CASE o.got \notin Frames(mounted) \/ o.got.data.kind # "times"
  <2>1. o.got.data.kind # "times"
    BY <1>3 DEF Nothing, Damaged, Ack, Junk, Data
  <2>2. d \in {Data("times", mountStatus), Junk}
    BY <2>1 DEF Decoded
  <2>3. Times(o) = mountStatus \/ Times(o) = [u \in Units |-> Unread]
    BY <2>2 DEF Times, Data
  <2> QED
    BY <1>1, <2>3 DEF Unread
<1> QED
  BY <1>2, <1>3

(* Unchanged but for the end of the request. *)
LEMMA RequestEnds ==
    ASSUME RequestTyped, NEW st \in Outcomes, Done(st)
    PROVE  RequestTyped'
<1>1. "done" \in RequestSteps
  BY DEF RequestSteps
<1> QED
  BY <1>1 DEF RequestTyped, Requests, Done

(* DOS hands over a request.                                               *)
LEMMA StrategyTyped ==
    ASSUME DiskTyped, BusTyped, UNCHANGED boot, Dos
    PROVE  DiskTyped' /\ BusTyped'
<1>1. PICK fn, u, s, n :
        /\ Strategy(fn, u, s, n)
        /\ \/ fn \in {"media", "bpb"} /\ u \in Units /\ s = 0 /\ n = 0
           \/ fn \in DOMAIN Refusals /\ u = 0 /\ s = 0 /\ n = 1
           \/ fn \in {"input", "output"} /\ u \in Units /\ s \in Starts /\ n \in Counts
  BY DEF Dos
<1>2. fn \in Functions /\ fn # "none" /\ (fn \in Asked => u \in Units) /\ u \in Units \cup {0}
  <2>1. DOMAIN Refusals = {"verify", "flush", "open", "other", "beyond"}
    BY DEF Refusals
  <2> QED
    BY <1>1, <2>1 DEF Functions, Asked
<1>3. s \in Nat /\ n \in Nat
  <2>1. s = 0 \/ s \in Starts
    BY <1>1
  <2>2. n \in {0, 1} \/ n \in Counts
    BY <1>1
  <2>3. \A x \in Starts : x \in Nat
    BY FirmwareDiskAssumption
  <2>4. \A x \in Counts : x \in Nat
    BY FirmwareDiskAssumption
  <2> QED
    BY <2>1, <2>2, <2>3, <2>4
<1>4. request' = [NoRequest EXCEPT !.fn = fn, !.unit = u, !.start = s, !.count = n, !.pc = "interrupt",
                                   !.rough = line # << >>]
  BY <1>1 DEF Strategy
<1>5. NoRequest \in Requests /\ NoRequest.idx = 0 /\ NoRequest.got = << >>
  BY NoRequestTyped DEF NoRequest
<1>6. "interrupt" \in RequestSteps
  BY DEF RequestSteps
<1>7. request' \in Requests
  BY <1>2, <1>3, <1>4, <1>5, <1>6 DEF Requests
<1>8. request'.idx = 0 /\ request'.count = n /\ Len(request'.got) = 0 /\ request'.fn = fn /\ request'.unit = u
  BY <1>4, <1>5, <1>7 DEF Requests
<1>9. RequestTyped'
  BY <1>2, <1>3, <1>7, <1>8 DEF RequestTyped
<1>10. UNCHANGED <<line, call, mounted, medium, mode, mountStatus, slots, bpb, dos>>
  BY <1>1 DEF Strategy, bus, fujinet, driver
<1> QED
  BY <1>9, <1>10, BusUntouched DEF DiskTyped

(* What is decided before the first exchange.                              *)
LEMMA InterruptTyped ==
    ASSUME DiskTyped, BusTyped, UNCHANGED boot, Interrupt
    PROVE  DiskTyped' /\ BusTyped'
<1>1. UNCHANGED <<line, call, mounted, medium, mode, mountStatus, slots, bpb, dos>>
  BY DEF Interrupt, bus, fujinet, driver
<1>2. RequestTyped'
  <2>1. RequestTyped
    BY DEF DiskTyped
  <2>2. CASE \E st \in Outcomes : Done(st)
    BY <2>1, <2>2, RequestEnds
  <2>3. CASE request.fn \in Asked /\ \E pc \in {"times", "boot", "transfer"} : Goes(pc)
    <3>1. PICK pc \in {"times", "boot", "transfer"} : Goes(pc)
      BY <2>3
    <3>2. mountStatus[request.unit] \in OldTimes
      <4>1. request.unit \in Units /\ mountStatus \in [Units -> -1..mounted] /\ mounted \in 0..Len(Sectors)
        BY <2>1, <2>3 DEF DiskTyped, RequestTyped
      <4>2. Len(Sectors) \in Nat
        BY FirmwareDiskAssumption
      <4> QED
        BY <4>1, <4>2 DEF OldTimes
    <3>3. pc \in RequestSteps
      BY DEF RequestSteps
    <3> QED
      BY <2>1, <3>1, <3>2, <3>3 DEF RequestTyped, Requests, Goes
  <2>4. request.pc = "interrupt" => request.fn # "none"
    BY <2>1 DEF RequestTyped
  <2>5. request.fn \in {"media", "bpb", "input", "output"} \cup DOMAIN Refusals
    BY <2>1, <2>4 DEF Interrupt, RequestTyped, Requests, Functions, Asked
  <2>6. CASE request.fn \in DOMAIN Refusals
    <3>1. /\ DOMAIN Refusals = {"verify", "flush", "open", "other", "beyond"}
          /\ \A f \in {"verify", "flush", "open", "other", "beyond"} : Refusals[f] \in Outcomes
      BY DEF Refusals, Outcomes
    <3> HIDE DEF Refusals
    <3>2. Done(Refusals[request.fn])
      BY <2>6, <3>1 DEF Interrupt
    <3> QED
      BY <2>2, <2>6, <3>1, <3>2
  <2>7. CASE request.fn \in {"media", "bpb", "input", "output"}
    <3>1. request.fn \notin DOMAIN Refusals
      BY <2>7 DEF Refusals
    <3>2. Done("write_protect") \/ \E pc \in {"times", "boot", "transfer"} : Goes(pc)
      BY <2>7, <3>1 DEF Interrupt
    <3> QED
      BY <2>2, <2>3, <2>7, <3>2 DEF Asked, Outcomes
  <2> QED
    BY <2>5, <2>6, <2>7
<1> QED
  BY <1>1, <1>2, BusUntouched DEF DiskTyped

(* Whatever ends or goes on keeps the other fields of the request.         *)
LEMMA RequestGoesOn ==
    ASSUME RequestTyped, NEW pc \in RequestSteps \ {"interrupt"}, request' = [request EXCEPT !.pc = pc]
    PROVE  RequestTyped'
BY DEF RequestTyped, Requests

(* The two exchanges of a media check.                                     *)
LEMMA MediaTimesTyped ==
    ASSUME DiskTyped, BusTyped, Up, UNCHANGED boot, MediaTimes
    PROVE  DiskTyped' /\ BusTyped'
<1> DEFINE ans == Answer(Device("fuji"), TRUE, Data("times", medium))
<1>1. PICK o \in Exchange(Device("fuji"), "times", ans, TRUE) :
        /\ Takes(o)
        /\ mountStatus' = Times(o)
        /\ IF o.ok THEN request' = [request EXCEPT !.pc = "slots"] ELSE Done("not_ready")
  BY DEF MediaTimes
<1>2. UNCHANGED <<call, medium, mode, mounted, slots, bpb, dos>>
  BY DEF MediaTimes, fujinet
<1>3. ans \in Frames(mounted)
  BY AnswersAreFrames DEF DiskTyped
<1>4. BusTyped' /\ o.got \in Frames(mounted) \cup {Nothing, Damaged}
  <2> HIDE DEF ans
  <2> QED
    BY <1>1, <1>2, <1>3, DriverTakes
<1>5. mountStatus' \in [Units -> -1..mounted]
  BY <1>1, <1>4, TimesTyped
<1>6. RequestTyped'
  BY <1>1, RequestEnds, RequestGoesOn DEF DiskTyped, RequestSteps, Outcomes
<1> QED
  BY <1>2, <1>4, <1>5, <1>6 DEF DiskTyped

LEMMA MediaSlotsTyped ==
    ASSUME DiskTyped, BusTyped, Up, UNCHANGED boot, MediaSlots
    PROVE  DiskTyped' /\ BusTyped'
<1> DEFINE ans == Answer(Device("fuji"), TRUE, Data("slots", mode))
           d(o) == Decoded(o.got, "slots", Data("slots", slots))
<1>1. PICK o \in Exchange(Device("fuji"), "slots", ans, TRUE) :
        /\ Takes(o)
        /\ IF d(o) = Junk THEN slots' \in [Units -> {"r", "rw"}] ELSE slots' = d(o).val
        /\ \/ Told(MediaInfo)
           \/ Done("not_ready") /\ UNCHANGED dos
  BY DEF MediaSlots
<1>2. UNCHANGED <<call, medium, mode, mounted, mountStatus, bpb>> /\ request.fn = "media"
  BY DEF MediaSlots, fujinet, At
<1>3. ans \in Frames(mounted)
  BY AnswersAreFrames DEF DiskTyped
<1>4. BusTyped' /\ o.got \in Frames(mounted) \cup {Nothing, Damaged}
  <2> HIDE DEF ans
  <2> QED
    BY <1>1, <1>2, <1>3, DriverTakes
<1>5. slots' \in [Units -> {"none", "r", "rw"}]
  <2>1. slots \in [Units -> {"none", "r", "rw"}]
    BY DEF DiskTyped
  <2>2. CASE o.got.data.kind = "slots"
    <3>1. o.got \in Frames(mounted)
      BY <1>4, <2>2 DEF Nothing, Damaged, Ack, Junk, Data
    <3>2. d(o) = o.got.data /\ o.got.data.val \in [Units -> {"r", "rw"}]
      BY <2>2, <3>1, FrameHolds DEF Decoded
    <3>3. slots' \in [Units -> {"r", "rw"}]
      BY <1>1, <3>2
    <3> QED
      BY <3>3
  <2>3. CASE o.got.data.kind # "slots"
    <3>1. d(o) = Junk \/ d(o) = Data("slots", slots)
      BY <2>3 DEF Decoded
    <3>2. slots' \in [Units -> {"r", "rw"}] \/ slots' = slots
      BY <1>1, <3>1 DEF Data
    <3> QED
      BY <2>1, <3>2
  <2> QED
    BY <2>2, <2>3
<1>6. RequestTyped' /\ dos' \in [Units -> -1..Len(Sectors)]
  <2>1. dos \in [Units -> -1..Len(Sectors)] /\ RequestTyped
    BY DEF DiskTyped
  <2>2. CASE Told(MediaInfo)
    <3>1. MediaInfo \in Infos
      BY DEF MediaInfo, Infos
    <3>2. "done" \in RequestSteps /\ "ok" \in Outcomes
      BY DEF RequestSteps, Outcomes
    <3>3. request' = [request EXCEPT !.pc = "done", !.status = "ok", !.info = MediaInfo]
      BY <2>2 DEF Told
    <3>4. RequestTyped'
      BY <2>1, <3>1, <3>2, <3>3 DEF RequestTyped, Requests
    <3>5. dos' = dos \/ dos' = [dos EXCEPT ![request.unit] = Unread]
      BY <2>2 DEF Told
    <3>6. Unread \in -1..Len(Sectors)
      BY FirmwareDiskAssumption DEF Unread
    <3> QED
      BY <2>1, <3>4, <3>5, <3>6
  <2>3. CASE Done("not_ready") /\ UNCHANGED dos
    BY <2>1, <2>3, RequestEnds DEF Outcomes
  <2> QED
    BY <1>1, <2>2, <2>3
<1> QED
  BY <1>2, <1>4, <1>5, <1>6 DEF DiskTyped

(* The sector a disk answers with, and what an exchange of one leaves.     *)
LEMMA SectorTakes ==
    ASSUME DiskTyped, BusTyped, Up, UNCHANGED <<call, mounted, boot>>, NEW u \in Units, NEW n \in Nat,
           NEW kind, NEW data \in {Data("sector", Sector(medium[u], n)), Ack},
           NEW o \in SectorExchange(u, n, kind, data), Takes(o)
    PROVE  /\ BusTyped'
           /\ o.got \in Frames(mounted) \cup {Nothing, Damaged}
           /\ o.ok => o.got \in Frames(mounted) /\ Accepts(o.got, DiskOf(u), kind)
<1>1. PICK able : o \in Exchange(DiskOf(u), kind, Answer(DiskOf(u), TRUE, data), able)
  BY DEF SectorExchange
<1>2. Sector(medium[u], n) \in SectorsRead
  <2>1. medium[u] \in 0..Len(Sectors)
    BY FirmwareDiskAssumption DEF DiskTyped
  <2> QED
    BY <2>1 DEF Sector, SectorsRead
<1>3. Answer(DiskOf(u), TRUE, data) \in Frames(mounted)
  BY <1>2, AnswersAreFrames
<1> DEFINE ans == Answer(DiskOf(u), TRUE, data)
           dev == DiskOf(u)
<1> HIDE DEF ans, dev
<1>4. o \in Exchange(dev, kind, ans, able) /\ ans \in Frames(mounted)
  BY <1>1, <1>3 DEF ans, dev
<1>5. /\ BusTyped'
      /\ o.got \in Frames(mounted) \cup {Nothing, Damaged}
      /\ o.ok => o.got \in Frames(mounted) /\ Accepts(o.got, dev, kind)
  BY <1>4, DriverTakes
<1> QED
  BY <1>5 DEF dev

(* What is taken for a sector is one.                                      *)
LEMMA SectorDecoded ==
    ASSUME NEW m, NEW u, NEW got \in Frames(m), Accepts(got, DiskOf(u), "sector")
    PROVE  Decoded(got, "sector", Data("sector", NoSector)).val \in SectorsRead
<1>1. got.data.kind \in {"ack", "sector"} /\ (got.data.kind = "sector" => got.data.val \in SectorsRead)
  BY FrameHolds DEF Accepts
<1>2. Data("sector", NoSector).val \in SectorsRead
  <2>1. 0 \in 0..Len(Sectors)
    BY FirmwareDiskAssumption
  <2> QED
    BY <2>1 DEF Data, NoSector, Sector, SectorsRead, None
<1> QED
  BY <1>1, <1>2 DEF Decoded

(* The boot sector, from which Build_bpb_cmd takes the number of sectors.  *)
LEMMA BuildBpbTyped ==
    ASSUME DiskTyped, BusTyped, Up, UNCHANGED boot, BuildBpb
    PROVE  DiskTyped' /\ BusTyped'
<1> DEFINE u == request.unit
           d(o) == Decoded(o.got, "sector", Data("sector", NoSector))
<1>1. PICK o \in SectorExchange(u, 0, "sector", Data("sector", Sector(medium[u], 0))) :
        /\ Takes(o)
        /\ IF ~o.ok THEN Done("read_fault") /\ UNCHANGED <<bpb, dos, doubt>>
           ELSE /\ Done("ok")
                /\ bpb' = [bpb EXCEPT ![u] = IF d(o).val.disk = None THEN 0 ELSE Sectors[d(o).val.disk]]
                /\ dos' = [dos EXCEPT ![u] = d(o).val.disk]
  BY DEF BuildBpb
<1>2. UNCHANGED <<call, medium, mode, mounted, mountStatus, slots>>
  BY DEF BuildBpb, fujinet
<1>3. u \in Units
  BY DEF BuildBpb, At, DiskTyped, RequestTyped, Asked
<1>4. BusTyped' /\ (o.ok => o.got \in Frames(mounted) /\ Accepts(o.got, DiskOf(u), "sector"))
  BY <1>1, <1>2, <1>3, SectorTakes
<1>5. RequestTyped'
  BY <1>1, RequestEnds DEF DiskTyped, Outcomes
<1>6. bpb' \in [Units -> Nat] /\ dos' \in [Units -> -1..Len(Sectors)]
  <2>1. bpb \in [Units -> Nat] /\ dos \in [Units -> -1..Len(Sectors)]
    BY DEF DiskTyped
  <2>2. CASE ~o.ok
    BY <1>1, <2>1, <2>2
  <2>3. CASE o.ok
    <3>1. d(o).val \in SectorsRead
      BY <1>4, <2>3, SectorDecoded
    <3>2. d(o).val.disk \in 0..Len(Sectors) /\ Len(Sectors) \in Nat
      BY <3>1, FirmwareDiskAssumption DEF SectorsRead
    <3> DEFINE k == d(o).val.disk
    <3>3. (IF k = None THEN 0 ELSE Sectors[k]) \in Nat
      BY <3>2, FirmwareDiskAssumption DEF None
    <3>4. bpb' = [bpb EXCEPT ![u] = IF k = None THEN 0 ELSE Sectors[k]] /\ dos' = [dos EXCEPT ![u] = k]
      BY <1>1, <2>3
    <3> HIDE DEF k
    <3>5. k \in -1..Len(Sectors)
      BY <3>2 DEF k
    <3> QED
      BY <2>1, <3>3, <3>4, <3>5
  <2> QED
    BY <2>2, <2>3
<1> QED
  BY <1>2, <1>4, <1>5, <1>6 DEF DiskTyped

(* The loop of Input_cmd or of Output_cmd is left.                         *)
LEMMA StoppedTyped ==
    ASSUME RequestTyped, Stopped
    PROVE  RequestTyped'
<1>1. "done" \in RequestSteps /\ "ok" \in Outcomes /\ "general_fail" \in Outcomes
  BY DEF RequestSteps, Outcomes
<1>2. request.idx \in Nat /\ request.idx <= request.idx
  BY DEF RequestTyped, Requests
<1> QED
  BY <1>1, <1>2 DEF RequestTyped, Requests, Stopped

(* One turn of the loop.                                                   *)
LEMMA NextSectorTyped ==
    ASSUME RequestTyped, request.pc = "transfer", request.idx < request.count, NEW o, NEW got,
           o.ok => got \in Seq(SectorsRead) /\ Len(got) <= request.idx + 1, NextSector(o, got)
    PROVE  RequestTyped'
<1>1. CASE ~o.ok
  BY <1>1, StoppedTyped DEF NextSector
<1>2. CASE o.ok
  <2>1. request' = [request EXCEPT !.idx = @ + 1, !.got = got, !.rough = @ \/ o.left # << >>]
    BY <1>2 DEF NextSector
  <2>2. request \in Requests /\ request.idx \in Nat /\ request.count \in Nat /\ request.rough \in BOOLEAN
    BY DEF RequestTyped, Requests
  <2> DEFINE rough_ == request.rough \/ o.left # << >>
  <2>3. request' \in Requests
    <3>1. rough_ \in BOOLEAN /\ request.idx + 1 \in Nat /\ got \in Seq(SectorsRead)
      BY <1>2, <2>2
    <3>2. request' = [request EXCEPT !.idx = request.idx + 1, !.got = got, !.rough = rough_]
      BY <2>1
    <3> HIDE DEF rough_
    <3> QED
      BY <2>2, <3>1, <3>2 DEF Requests
  <2>4. /\ request'.idx = request.idx + 1 /\ request'.count = request.count /\ request'.got = got
        /\ request'.fn = request.fn /\ request'.unit = request.unit /\ request'.pc = "transfer"
    BY <2>1, <2>2 DEF Requests
  <2> QED
    BY <1>2, <2>2, <2>3, <2>4 DEF RequestTyped
<1> QED
  BY <1>1, <1>2

(* A turn of the loops of Input_cmd and Output_cmd, or their end.          *)
LEMMA TransferTyped ==
    ASSUME DiskTyped, BusTyped, Up, UNCHANGED boot, LoopEnds \/ InputSector \/ OutputSector
    PROVE  DiskTyped' /\ BusTyped'
<1>1. UNCHANGED <<call, medium, mode, mounted, mountStatus, slots, bpb, dos>> /\ request.pc = "transfer"
  BY DEF LoopEnds, InputSector, OutputSector, Transfers, fujinet, driver
<1>2. RequestTyped
  BY DEF DiskTyped
<1>3. sector \in Nat
  BY <1>2 DEF sector, RequestTyped, Requests
<1>4. RequestTyped' /\ BusTyped'
  <2>1. CASE LoopEnds
    <3>1. UNCHANGED line
      BY <2>1 DEF LoopEnds
    <3>2. RequestTyped'
      BY <1>2, <2>1, StoppedTyped, RequestEnds DEF LoopEnds, Outcomes
    <3> QED
      BY <1>1, <3>1, <3>2, BusUntouched
  <2>2. CASE InputSector
    <3> DEFINE got(o) == Append(request.got, Decoded(o.got, "sector", Data("sector", NoSector)).val)
    <3>1. PICK o \in SectorExchange(request.unit, sector, "sector",
                                   Data("sector", Sector(medium[request.unit], sector))) :
            Takes(o) /\ NextSector(o, got(o))
      BY <2>2 DEF InputSector
    <3>2. request.unit \in Units /\ request.idx < request.count
      BY <1>2, <2>2 DEF InputSector, At, RequestTyped, Asked
    <3>3. BusTyped' /\ (o.ok => o.got \in Frames(mounted) /\ Accepts(o.got, DiskOf(request.unit), "sector"))
      BY <1>1, <1>3, <3>1, <3>2, SectorTakes
    <3>4. o.ok => Decoded(o.got, "sector", Data("sector", NoSector)).val \in SectorsRead
      BY <3>3, SectorDecoded
    <3>5. o.ok => got(o) \in Seq(SectorsRead) /\ Len(got(o)) <= request.idx + 1
      <4>1. request.got \in Seq(SectorsRead) /\ Len(request.got) <= request.idx /\ request.idx \in Nat
        BY <1>2 DEF RequestTyped, Requests
      <4> DEFINE v == Decoded(o.got, "sector", Data("sector", NoSector)).val
      <4>2. o.ok => v \in SectorsRead
        BY <3>4
      <4> HIDE DEF v
      <4>3. o.ok => /\ Append(request.got, v) \in Seq(SectorsRead)
                    /\ Len(Append(request.got, v)) <= request.idx + 1
        BY <4>1, <4>2
      <4> QED
        BY <4>3 DEF v
    <3> HIDE DEF got
    <3> QED
      BY <1>1, <1>2, <3>1, <3>2, <3>3, <3>5, NextSectorTyped
  <2>3. CASE OutputSector
    <3>1. PICK o \in SectorExchange(request.unit, sector, "ack", Ack) : Takes(o) /\ NextSector(o, << >>)
      BY <2>3 DEF OutputSector
    <3>2. request.unit \in Units /\ request.idx < request.count
      BY <1>2, <2>3 DEF OutputSector, At, RequestTyped, Asked
    <3>3. BusTyped'
      BY <1>1, <1>3, <3>1, <3>2, SectorTakes
    <3>4. << >> \in Seq(SectorsRead) /\ Len(<< >>) <= request.idx + 1
      BY <1>2 DEF RequestTyped, Requests
    <3> QED
      BY <1>1, <1>2, <3>1, <3>2, <3>3, <3>4, NextSectorTyped
  <2> QED
    BY <2>1, <2>2, <2>3
<1> QED
  BY <1>1, <1>4 DEF DiskTyped

(* The driver's commands.                                                  *)
LEMMA DiskKeepsTypes ==
    ASSUME Typed, Up, UNCHANGED boot, Disk
    PROVE  Typed'
<1>1. DiskTyped /\ BusTyped /\ Idle /\ UNCHANGED <<transfer, boot>>
  BY DEF Typed, Disk
<1>2. DiskTyped' /\ BusTyped'
  BY <1>1, StrategyTyped, InterruptTyped, MediaTimesTyped, MediaSlotsTyped, BuildBpbTyped, TransferTyped DEF Disk
<1>3. UNCHANGED call
  BY DEF Disk, Dos, Strategy, Interrupt, MediaTimes, MediaSlots, BuildBpb, LoopEnds, InputSector, OutputSector,
         Transfers, bus
<1>4. ToolTyped'
  BY <1>1, <1>3 DEF Typed, ToolTyped, transfer, Idle
<1> QED
  BY <1>2, <1>4 DEF Typed

-----------------------------------------------------------------------------
(* The tools.                                                              *)

LEMMA BuildTyped ==
    ASSUME BusTyped, Up, UNCHANGED <<mounted, boot>>, NEW kind \in {"ack", "status", "chunk"},
           BuildFrame(Device("net"), kind)
    PROVE  BusTyped'
<1> DEFINE S == Frames(mounted)
<1>1. line \in Seq(S) /\ Closed(S) /\ Len(line) <= MaxLine
  BY FramesKeep DEF BusTyped
<1>2. line' \in Seq(S) /\ Len(line') <= MaxLine
  <2>1. line' = Disowned(line)
    BY DEF BuildFrame
  <2> HIDE DEF S
  <2> QED
    BY <1>1, <2>1, DisownedKeeps
<1>3. call' \in Calls(mounted)
  BY DEF BuildFrame, NoCall, Calls
<1> QED
  BY <1>2, <1>3 DEF BusTyped, Up

(* The request goes out, is handled or not, and its answer follows.        *)
LEMMA SendTyped ==
    ASSUME BusTyped, Up, UNCHANGED <<mounted, boot>>, NEW ans \in Frames(mounted), NEW h \in Handlings(ans),
           SendFrame(h)
    PROVE  BusTyped'
<1> DEFINE S == Frames(mounted)
<1>1. line \in Seq(S) /\ Closed(S) /\ ans \in S
  BY FramesKeep DEF BusTyped
<1>2. line' \in Seq(S) /\ Len(line') <= MaxLine
  <2> HIDE DEF S
  <2> QED
    BY <1>1, SentKeeps
<1>3. call' \in Calls(mounted)
  BY DEF SendFrame, BusTyped, Calls
<1> QED
  BY <1>2, <1>3 DEF BusTyped, Up

(* An answer, or none, comes in.                                           *)
LEMMA ReceiveTyped ==
    ASSUME BusTyped, Up, UNCHANGED <<mounted, boot>>, Receive
    PROVE  BusTyped' /\ call'.got \in Frames(mounted) \cup {Nothing, Damaged}
<1> DEFINE S == Frames(mounted)
<1>1. line \in Seq(S) /\ Len(line) <= MaxLine /\ MaxLine \in Nat
  BY BusCallAssumption DEF BusTyped
<1>2. /\ line' \in Seq(S) /\ Len(line') <= MaxLine
      /\ \E g \in S \cup {Nothing, Damaged} : call' = [call EXCEPT !.phase = "received", !.got = g]
  <2> HIDE DEF S
  <2> QED
    BY <1>1, ReceiveKeeps
<1>3. call' \in Calls(mounted) /\ call'.got \in S \cup {Nothing, Damaged}
  BY <1>2 DEF BusTyped, Calls
<1> QED
  BY <1>2, <1>3 DEF BusTyped, Up

(* The call is over.                                                       *)
LEMMA ReturnTyped ==
    ASSUME BusTyped, Up, UNCHANGED <<mounted, boot>>, CallReturns
    PROVE  BusTyped'
<1>1. call' \in Calls(mounted)
  BY DEF CallReturns, NoCall, Calls
<1> QED
  BY <1>1 DEF BusTyped, Up, CallReturns

(* The printer's exchange in the middle of a call.                         *)
LEMMA TickTyped ==
    ASSUME BusTyped, Up, UNCHANGED <<mounted, boot>>, PrinterTick
    PROVE  BusTyped' /\ call'.phase = call.phase
<1> DEFINE S == Frames(mounted)
<1>1. line \in Seq(S) /\ Closed(S) /\ PrinterAnswer \in S /\ Len(line) <= MaxLine /\ MaxLine \in Nat
  BY FramesKeep, AnswersAreFrames, BusCallAssumption DEF BusTyped
<1>2. line' \in Seq(S) /\ Len(line') <= MaxLine
  <2> HIDE DEF S
  <2> QED
    BY <1>1, TickKeeps
<1>3. call' \in Calls(mounted) /\ call'.phase = call.phase
  BY DEF PrinterTick, BusTyped, Calls
<1> QED
  BY <1>2, <1>3 DEF BusTyped, Up

(* What the network device answers and what that makes of its stream.      *)
LEMMA LengthFits ==
    ASSUME ToolTyped
    PROVE  bw \in 0..Chunk /\ Length \in 0..bw /\ Length <= Waiting /\ Waiting \in Nat
<1>1. /\ status.bw \in Nat /\ stream.come \in Nat /\ stream.read \in Nat /\ stream.read <= stream.come
  BY DEF ToolTyped, Statuses
<1>2. Waiting \in Nat
  BY <1>1 DEF Waiting
<1>3. bw \in 0..Chunk
  BY <1>1, TransferAssumption DEF bw, FewerOf
<1> QED
  BY <1>2, <1>3 DEF Length, FewerOf

(* What the network device answers NGET, and the stream it leaves.         *)
LEMMA ReplyTyped ==
    ASSUME ToolTyped
    PROVE  /\ Reply(tool.pc) \in Frames(mounted)
           /\ Effect(tool.pc) \in [of : {"none", "old", "file", "stored"}, come : Nat, read : Nat]
           /\ Effect(tool.pc).read <= Effect(tool.pc).come
           /\ Effect(tool.pc).of = "file" => Effect(tool.pc).come <= Pieces
<1>1. /\ bw \in 0..Chunk /\ Length \in 0..bw /\ Length <= Waiting /\ Waiting \in Nat
      /\ Length \in Nat
  BY LengthFits, TransferAssumption
<1>2. /\ stream \in [of : {"none", "old", "file", "stored"}, come : Nat, read : Nat]
      /\ stream.read <= stream.come /\ (stream.of = "file" => stream.come <= Pieces)
  BY DEF ToolTyped
<1>3. StatusOf \in Statuses
  BY <1>1 DEF StatusOf, Statuses, Refused, EndOfFile
<1>4. [i \in 1..Length |-> Content(stream.read + i)] \in Seq(0..Pieces)
  <2>1. ASSUME NEW i \in 1..Length PROVE Content(stream.read + i) \in 0..Pieces
    BY <1>1, <1>2, TransferAssumption DEF Content, Waiting
  <2>2. [i \in 1..Length |-> Content(stream.read + i)] \in [1..Length -> 0..Pieces]
    BY <2>1
  <2> QED
    BY <1>1, <2>2
<1>5. Reply(tool.pc) \in Frames(mounted)
  <2> DEFINE c == [i \in 1..Length |-> Content(stream.read + i)]
             ok == Length > 0
  <2>1. /\ Answer(Device("net"), TRUE, Data("status", StatusOf)) \in Frames(mounted)
        /\ Answer(Device("net"), TRUE, Ack) \in Frames(mounted)
    BY <1>3, AnswersAreFrames
  <2>2. Answer(Device("net"), ok, Data("chunk", c)) \in Frames(mounted)
    <3>1. ok \in BOOLEAN /\ c \in Seq(0..Pieces)
      BY <1>4
    <3> HIDE DEF c, ok
    <3> QED
      BY <3>1, AnswersAreFrames
  <2>3. Reply(tool.pc) \in {Answer(Device("net"), TRUE, Data("status", StatusOf)),
                           Answer(Device("net"), ok, Data("chunk", c)), Answer(Device("net"), TRUE, Ack)}
    BY DEF Reply
  <2> HIDE DEF c, ok
  <2> QED
    BY <2>1, <2>2, <2>3
<1>6. CASE tool.pc = "read"
  <2>1. Effect(tool.pc) = [stream EXCEPT !.read = stream.read + Length]
    BY <1>6 DEF Effect
  <2> QED
    BY <1>1, <1>2, <1>5, <2>1 DEF Waiting
<1>7. CASE tool.pc # "read"
  <2>1. Effect(tool.pc) \in {[of |-> "file", come |-> 0, read |-> 0], ClosedStream, stream}
    BY <1>7 DEF Effect
  <2> QED
    BY <1>2, <1>5, <2>1, TransferAssumption DEF ClosedStream
<1> QED
  BY <1>6, <1>7

(* Neither the tool nor the stream changes. *)
LEMMA ToolUntouched ==
    ASSUME ToolTyped, UNCHANGED transfer, call'.phase = call.phase \/ Idle'
    PROVE  ToolTyped'
BY DEF ToolTyped, transfer, Idle

(* The four steps of NGET's call.                                          *)
LEMMA NgetAsksTyped ==
    ASSUME BusTyped, ToolTyped, Up, UNCHANGED <<mounted, boot>>, NgetAsks
    PROVE  BusTyped' /\ ToolTyped'
<1>1. Kind(tool.pc) \in {"ack", "status", "chunk"}
  BY DEF Kind
<1>2. BusTyped'
  BY <1>1, BuildTyped DEF NgetAsks
<1>3. ToolTyped'
  BY DEF NgetAsks, ToolTyped
<1> QED
  BY <1>2, <1>3

LEMMA NgetSendsTyped ==
    ASSUME BusTyped, ToolTyped, Up, UNCHANGED <<mounted, boot>>, NgetSends
    PROVE  BusTyped' /\ ToolTyped'
<1>1. PICK h \in Handlings(Reply(tool.pc)) : SendFrame(h) /\ stream' \in {Effect(tool.pc), stream}
  BY DEF NgetSends
<1>2. Reply(tool.pc) \in Frames(mounted)
  BY ReplyTyped
<1>3. BusTyped'
  <2> DEFINE ans == Reply(tool.pc)
  <2> HIDE DEF ans
  <2>1. ans \in Frames(mounted) /\ h \in Handlings(ans) /\ SendFrame(h)
    BY <1>1, <1>2 DEF ans
  <2> QED
    BY <2>1, SendTyped
<1>4. /\ stream' \in [of : {"none", "old", "file", "stored"}, come : Nat, read : Nat]
      /\ stream'.read <= stream'.come /\ (stream'.of = "file" => stream'.come <= Pieces)
  BY <1>1, ReplyTyped DEF ToolTyped
<1>5. ~Idle
  BY <1>1 DEF SendFrame, Idle
<1>6. UNCHANGED <<tool, status, buf, file, sent>>
  BY DEF NgetSends
<1>7. ToolTyped'
  BY <1>4, <1>5, <1>6 DEF ToolTyped
<1> QED
  BY <1>3, <1>7

LEMMA NgetReceivesTyped ==
    ASSUME BusTyped, ToolTyped, Up, UNCHANGED <<mounted, boot>>, NgetReceives
    PROVE  BusTyped' /\ ToolTyped'
<1>1. BusTyped' /\ call'.got \in Frames(mounted) \cup {Nothing, Damaged}
  BY ReceiveTyped DEF NgetReceives
<1> DEFINE d == call'.got.data
<1>2. /\ d.kind = "status" => d.val \in Statuses
      /\ d.kind = "chunk" => d.val \in Seq(0..Pieces)
  BY <1>1, FrameHolds DEF Nothing, Damaged, Ack, Junk, Data
<1>3. status \in Statuses /\ buf \in [1..Chunk -> 0..Pieces] /\ Chunk \in Nat \ {0} /\ Pieces \in Nat
  BY TransferAssumption DEF ToolTyped
<1>4. \/ d.kind = "status" /\ status' = d.val /\ UNCHANGED buf
      \/ status' \in {[bw |-> 0, error |-> EndOfFile], [bw |-> Chunk, error |-> 1]} /\ UNCHANGED buf
      \/ /\ d.kind = "chunk" /\ UNCHANGED status
         /\ buf' = [i \in 1..Chunk |-> IF i <= Len(d.val) THEN d.val[i] ELSE buf[i]]
      \/ buf' = [i \in 1..Chunk |-> 0] /\ UNCHANGED status
      \/ UNCHANGED <<status, buf>>
  BY DEF NgetReceives
<1> HIDE DEF d
<1>5. status' \in Statuses
  BY <1>2, <1>3, <1>4 DEF Statuses, EndOfFile
<1>6. buf' \in [1..Chunk -> 0..Pieces]
  <2>1. CASE /\ d.kind = "chunk"
             /\ buf' = [i \in 1..Chunk |-> IF i <= Len(d.val) THEN d.val[i] ELSE buf[i]]
    <3>1. Len(d.val) \in Nat /\ \A i \in 1..Len(d.val) : d.val[i] \in 0..Pieces
      BY <1>2, <2>1, ElementOf
    <3>2. \A i \in 1..Chunk : (IF i <= Len(d.val) THEN d.val[i] ELSE buf[i]) \in 0..Pieces
      BY <1>3, <3>1
    <3> QED
      BY <2>1, <3>2
  <2>2. CASE buf' = [i \in 1..Chunk |-> 0]
    BY <1>3, <2>2
  <2> QED
    BY <1>3, <1>4, <2>1, <2>2
<1>7. ~Idle /\ UNCHANGED <<tool, file, stream, sent>>
  BY DEF NgetReceives, Receive, Idle
<1>8. ToolTyped'
  BY <1>5, <1>6, <1>7 DEF ToolTyped
<1> QED
  BY <1>1, <1>8

(* What READ copied of the buffer. *)
LEMMA CopiedTyped ==
    ASSUME ToolTyped
    PROVE  file \o SubSeq(buf, 1, bw) \in Seq(0..Pieces)
<1>1. bw \in 0..Chunk /\ Chunk \in Nat
  BY LengthFits, TransferAssumption
<1>2. buf \in Seq(0..Pieces) /\ Len(buf) = Chunk
  BY <1>1, FunctionSeq DEF ToolTyped
<1>3. SubSeq(buf, 1, bw) \in Seq(0..Pieces)
  BY <1>1, <1>2, FirstOf
<1> QED
  BY <1>3 DEF ToolTyped

(* The tool goes to another step, or ends. *)
LEMMA ToolGoes ==
    ASSUME ToolTyped,
           NEW pc \in {"open", "first", "status", "read", "close", "write", "spin", "done"}, NEW r \in Nat,
           tool' \in {[tool EXCEPT !.pc = pc], [tool EXCEPT !.pc = pc, !.result = r]},
           file' \in Seq(0..Pieces), Len(file') <= MaxFile, sent' \in Nat, Idle',
           UNCHANGED <<status, buf, stream>>
    PROVE  ToolTyped'
BY DEF ToolTyped

LEMMA NgetReturnsTyped ==
    ASSUME BusTyped, ToolTyped, Up, UNCHANGED <<mounted, boot>>, NgetReturns, Len(file') <= MaxFile
    PROVE  BusTyped' /\ ToolTyped'
<1>1. BusTyped' /\ Idle'
  BY ReturnTyped DEF NgetReturns, CallReturns, Idle, NoCall
<1>2. \/ file' = file
      \/ file' = file \o SubSeq(buf, 1, bw)
  BY DEF NgetReturns, AfterRead
<1>3. file' \in Seq(0..Pieces) /\ sent' \in Nat /\ UNCHANGED <<status, buf, stream>>
  BY <1>2, CopiedTyped DEF ToolTyped, NgetReturns
<1>4. \/ \E pc \in {"first", "status", "read", "close", "spin"} : Go(pc)
      \/ \E r \in {status.error, 144, 0} : Exit(r)
  BY DEF NgetReturns, AfterRead, Loop
<1>5. {status.error, 144, 0} \subseteq Nat
  BY DEF ToolTyped, Statuses
<1>6. ToolTyped'
  <2>1. CASE \E pc \in {"first", "status", "read", "close", "spin"} : Go(pc)
    <3>1. PICK pc \in {"first", "status", "read", "close", "spin"} : tool' = [tool EXCEPT !.pc = pc]
      BY <2>1 DEF Go
    <3> QED
      BY <1>1, <1>3, <3>1, ToolGoes
  <2>2. CASE \E r \in {status.error, 144, 0} : Exit(r)
    <3>1. PICK r \in Nat : tool' = [tool EXCEPT !.pc = "done", !.result = r]
      BY <1>5, <2>2 DEF Exit
    <3> QED
      BY <1>1, <1>3, <3>1, ToolGoes
  <2> QED
    BY <1>4, <2>1, <2>2
<1> QED
  BY <1>1, <1>6

(* The steps of NPUT.                                                      *)
LEMMA NputTyped ==
    ASSUME BusTyped, ToolTyped, Up, UNCHANGED <<mounted, boot>>,
           NputCalls \/ NputSends \/ NputReceives \/ NputReturns
               \/ \E ok \in BOOLEAN : NputOpens(ok) \/ NputCallsNowhere(ok)
    PROVE  BusTyped' /\ ToolTyped'
<1>1. ASSUME tool.name = "nput", Idle', NEW ok, NputGoesOn(ok), UNCHANGED <<status, buf, file, stream>>
      PROVE  ToolTyped'
  <2>1. sent' \in Nat
    BY <1>1, TransferAssumption DEF NputGoesOn, ChunkWritten, FewerOf, ToolTyped
  <2>2. /\ \/ \E pc \in {"close", "done"}, r \in {0, 255} :
                tool' \in {[tool EXCEPT !.pc = pc], [tool EXCEPT !.pc = pc, !.result = r]}
            \/ tool' = tool
    BY <1>1 DEF NputGoesOn, ChunkWritten, Go, Exit
  <2>3. file' \in Seq(0..Pieces) /\ Len(file') <= MaxFile
    BY <1>1 DEF ToolTyped
  <2>4. CASE tool' = tool
    BY <1>1, <2>1, <2>3, <2>4 DEF ToolTyped
  <2>5. CASE \E pc \in {"close", "done"}, r \in {0, 255} :
                tool' \in {[tool EXCEPT !.pc = pc], [tool EXCEPT !.pc = pc, !.result = r]}
    <3>1. PICK pc \in {"close", "done"}, r \in {0, 255} :
            tool' \in {[tool EXCEPT !.pc = pc], [tool EXCEPT !.pc = pc, !.result = r]}
      BY <2>5
    <3>2. /\ pc \in {"open", "first", "status", "read", "close", "write", "spin", "done"} /\ r \in Nat
          /\ Idle' /\ UNCHANGED <<status, buf, stream>>
      BY <1>1
    <3> QED
      BY <2>1, <2>3, <3>1, <3>2, ToolGoes
  <2> QED
    BY <2>2, <2>4, <2>5
<1>2. CASE \E ok \in BOOLEAN : NputOpens(ok)
  <2>1. PICK pc \in {"write", "done"}, r \in {2} :
          tool' \in {[tool EXCEPT !.pc = pc], [tool EXCEPT !.pc = pc, !.result = r]}
    BY <1>2 DEF NputOpens, Go, Exit
  <2>2. Idle' /\ UNCHANGED <<line, call, status, buf, file, stream, sent>>
    BY <1>2 DEF NputOpens, Idle, bus
  <2>3. file' \in Seq(0..Pieces) /\ Len(file') <= MaxFile /\ sent' \in Nat
    BY <2>2 DEF ToolTyped
  <2>4. ToolTyped'
    BY <2>1, <2>2, <2>3, ToolGoes
  <2> QED
    BY <2>2, <2>4, BusUntouched
<1>3. CASE \E ok \in BOOLEAN : NputCallsNowhere(ok)
  <2>1. PICK ok \in BOOLEAN : NputCallsNowhere(ok)
    BY <1>3
  <2>2. Idle' /\ tool.name = "nput" /\ NputGoesOn(ok) /\ UNCHANGED <<line, call, status, buf, file, stream>>
    BY <2>1 DEF NputCallsNowhere, Idle, bus
  <2> QED
    BY <1>1, <2>2, BusUntouched
<1>4. CASE NputCalls
  <2>1. BusTyped'
    BY <1>4, BuildTyped DEF NputCalls
  <2>2. ToolTyped'
    BY <1>4 DEF NputCalls, transfer, ToolTyped
  <2> QED
    BY <2>1, <2>2
<1>5. CASE NputSends
  <2> DEFINE ans == Answer(Device("net"), TRUE, Ack)
  <2>1. PICK h \in Handlings(ans) : SendFrame(h)
    BY <1>5 DEF NputSends
  <2>2. ans \in Frames(mounted)
    BY AnswersAreFrames
  <2>3. BusTyped'
    <3> HIDE DEF ans
    <3> QED
      BY <2>1, <2>2, SendTyped
  <2>4. stream' = stream \/ stream' = [stream EXCEPT !.of = "stored"]
    BY <1>5 DEF NputSends
  <2>5. tool.name = "nput" /\ UNCHANGED <<tool, status, buf, file, sent>>
    BY <1>5 DEF NputSends
  <2>6. ToolTyped'
    BY <2>4, <2>5 DEF ToolTyped
  <2> QED
    BY <2>3, <2>6
<1>6. CASE NputReceives
  <2>1. BusTyped' /\ UNCHANGED transfer /\ tool.name = "nput"
    BY <1>6, ReceiveTyped DEF NputReceives
  <2>2. ToolTyped'
    BY <2>1 DEF ToolTyped, transfer
  <2> QED
    BY <2>1, <2>2
<1>7. CASE NputReturns
  <2> DEFINE ok == CallSucceeds
  <2>1. /\ BusTyped' /\ Idle' /\ tool.name = "nput" /\ NputGoesOn(ok) /\ UNCHANGED <<status, buf, file, stream>>
    BY <1>7, ReturnTyped DEF NputReturns, CallReturns, Idle, NoCall
  <2> HIDE DEF ok
  <2> QED
    BY <1>1, <2>1
<1> QED
  BY <1>2, <1>3, <1>4, <1>5, <1>6, <1>7

(* A program's step.                                                       *)
LEMMA ProgramTyped ==
    ASSUME Typed, Up, UNCHANGED boot, Program
    PROVE  Typed'
<1>1. BusTyped /\ ToolTyped
  BY DEF Typed
<1>2. UNCHANGED <<medium, mode, mounted, mountStatus, slots, bpb, request, dos, boot>>
  BY DEF Program, fujinet, driver
<1>3. DiskTyped'
  BY <1>2 DEF Typed, DiskTyped, RequestTyped
<1>4. BusTyped' /\ ToolTyped'
  <2>1. CASE Tools /\ Len(file') <= MaxFile
    BY <1>1, <1>2, <2>1, NgetAsksTyped, NgetSendsTyped, NgetReceivesTyped, NgetReturnsTyped, NputTyped DEF Tools
  <2>2. CASE \E name \in Names : Run(name) /\ UNCHANGED bus
    <3>1. PICK name \in Names : Run(name) /\ UNCHANGED bus
      BY <2>2
    <3>2. BusTyped' /\ Idle'
      BY <1>1, <1>2, <3>1, BusUntouched DEF bus, Run, Idle
    <3>3. /\ tool' = [name |-> name, pc |-> "open", result |-> 0] /\ status' = [bw |-> 0, error |-> 0]
          /\ buf' = [i \in 1..Chunk |-> 0] /\ file' = << >> /\ sent' = 0 /\ stream' = stream
      BY <3>1 DEF Run
    <3>4. buf' \in [1..Chunk -> 0..Pieces] /\ file' \in Seq(0..Pieces) /\ Len(file') <= MaxFile
      BY <3>3, TransferAssumption, FirmwareAssumption
    <3>5. ToolTyped'
      BY <1>1, <3>2, <3>3, <3>4 DEF ToolTyped, Statuses
    <3> QED
      BY <3>2, <3>5
  <2> QED
    BY <2>1, <2>2 DEF Program
<1> QED
  BY <1>3, <1>4 DEF Typed

-----------------------------------------------------------------------------
(* The FujiNet, the timer and the keyboard.                                *)

LEMMA ElsewhereTyped ==
    ASSUME Typed, Up, UNCHANGED boot, Elsewhere
    PROVE  Typed'
<1>1. CASE (\E u \in Units : Eject(u) \/ \E m \in {"r", "rw"} : Mount(u, m)) /\ UNCHANGED transfer
  <2>1. PICK u \in Units, d \in {None, mounted'}, m \in {"r", "rw"} :
          /\ Change(u, d, m)
          /\ \/ d = None /\ mounted' = mounted
             \/ d = mounted' /\ mounted < Len(Sectors) /\ mounted' = mounted + 1
    BY <1>1 DEF Eject, Mount
  <2>2. /\ UNCHANGED <<line, call, mountStatus, slots, bpb, request, dos>>
        /\ medium' = [medium EXCEPT ![u] = d] /\ mode' = [mode EXCEPT ![u] = m]
    BY <2>1 DEF Change, bus, driver
  <2>3. UNCHANGED transfer
    BY <1>1
  <2>4. mounted \in Nat /\ mounted' \in 0..Len(Sectors) /\ mounted <= mounted' /\ d \in 0..mounted'
    BY <2>1, FirmwareDiskAssumption DEF Typed, DiskTyped, None
  <2>5. medium \in [Units -> 0..mounted'] /\ mountStatus \in [Units -> -1..mounted']
    BY <2>4, FirmwareDiskAssumption DEF Typed, DiskTyped
  <2>6. DiskTyped'
    BY <2>1, <2>2, <2>4, <2>5 DEF Typed, DiskTyped, RequestTyped
  <2>7. Frames(mounted) \subseteq Frames(mounted')
    BY <2>4, FramesGrow
  <2>8. BusTyped'
    <3>1. line \in Seq(Frames(mounted'))
      BY <2>7, SeqOver DEF Typed, BusTyped
    <3>2. call \in Calls(mounted')
      BY <2>7 DEF Typed, BusTyped, Calls
    <3> QED
      BY <2>2, <3>1, <3>2 DEF Typed, BusTyped, Up
  <2>9. ToolTyped'
    BY <2>2, <2>3, ToolUntouched DEF Typed
  <2> QED
    BY <2>6, <2>8, <2>9 DEF Typed
<1>2. CASE Arrives /\ UNCHANGED <<bus, disk>>
  <2>1. BusTyped'
    BY <1>2, BusUntouched DEF Typed, bus, disk, fujinet
  <2>2. DiskTyped'
    BY <1>2 DEF Typed, DiskTyped, RequestTyped, disk, fujinet, driver
  <2>3. ToolTyped'
    <3>1. /\ stream' = [stream EXCEPT !.come = stream.come + 1] /\ ~Ended
          /\ UNCHANGED <<tool, status, buf, file, sent, call>>
      BY <1>2 DEF Arrives, bus
    <3>2. /\ stream'.of = stream.of /\ stream'.read = stream.read /\ stream'.come = stream.come + 1
          /\ stream.come \in Nat /\ stream.read \in Nat
          /\ stream' \in [of : {"none", "old", "file", "stored"}, come : Nat, read : Nat]
      BY <3>1 DEF Typed, ToolTyped
    <3>3. stream.of = "file" => stream.come < Pieces
      BY <3>1, <3>2, TransferAssumption DEF Typed, ToolTyped, Ended
    <3>4. stream'.read <= stream'.come /\ (stream'.of = "file" => stream'.come <= Pieces)
      BY <3>2, <3>3, TransferAssumption DEF Typed, ToolTyped
    <3> QED
      BY <3>1, <3>2, <3>4 DEF Typed, ToolTyped, Idle
  <2> QED
    BY <2>1, <2>2, <2>3 DEF Typed
<1>3. CASE PrinterTick /\ UNCHANGED <<disk, transfer>>
  <2>1. BusTyped' /\ call'.phase = call.phase
    BY <1>3, TickTyped DEF Typed, disk, fujinet
  <2>2. DiskTyped'
    BY <1>3 DEF Typed, DiskTyped, RequestTyped, disk, fujinet, driver
  <2>3. ToolTyped'
    BY <1>3, <2>1, ToolUntouched DEF Typed
  <2> QED
    BY <2>1, <2>2, <2>3 DEF Typed
<1> QED
  BY <1>1, <1>2, <1>3 DEF Elsewhere

(* Keys, CFGTSR and programs that load.                                    *)
LEMMA KeyboardTyped ==
    ASSUME Typed, Up, UNCHANGED boot, Keyboard
    PROVE  Typed'
<1>1. UNCHANGED <<medium, mode, mounted, mountStatus, slots, bpb, request, dos, transfer>>
  BY DEF Keyboard, fujinet, driver
<1>2. UNCHANGED call
  BY DEF Keyboard, Typing, Loading, Menu, bus
<1>3. DiskTyped'
  BY <1>1 DEF Typed, DiskTyped, RequestTyped
<1>4. ToolTyped'
  BY <1>1, <1>2, ToolUntouched DEF Typed
<1>5. BusTyped'
  <2>1. CASE BootMode
    <3> DEFINE ans == Answer(Device("fuji"), TRUE, Ack)
    <3>1. PICK o \in Exchange(Device("fuji"), "ack", ans, TRUE) : Takes(o)
      BY <2>1 DEF BootMode
    <3>2. ans \in Frames(mounted) /\ BusTyped
      BY AnswersAreFrames DEF Typed
    <3> HIDE DEF ans
    <3> QED
      BY <1>1, <1>2, <3>1, <3>2, DriverTakes
  <2>2. CASE UNCHANGED line
    BY <1>1, <1>2, <2>2, BusUntouched DEF Typed
  <2> QED
    BY <2>1, <2>2 DEF Keyboard, Typing, Loading, Menu, bus
<1> QED
  BY <1>3, <1>4, <1>5 DEF Typed

-----------------------------------------------------------------------------
(* Every step.                                                             *)
LEMMA TypedKeeps == Typed /\ [Next]_vars => Typed'
<1> SUFFICES ASSUME Typed, [Next]_vars PROVE Typed'
  OBVIOUS
<1>1. CASE Start
  BY <1>1, StartTyped
<1>2. CASE Up /\ (Disk \/ Program \/ Elsewhere) /\ UNCHANGED <<serial, start, hotkey>>
  BY <1>2, DiskKeepsTypes, ProgramTyped, ElsewhereTyped DEF start
<1>3. CASE Up /\ Keyboard /\ UNCHANGED <<serial, start>>
  BY <1>3, KeyboardTyped DEF start
<1>4. CASE UNCHANGED vars
  <2>1. UNCHANGED <<line, call, medium, mode, mounted, mountStatus, slots, bpb, request, dos, transfer, boot>>
    BY <1>4 DEF vars, bus, disk, fujinet, driver, start
  <2>2. BusTyped'
    BY <2>1, BusUntouched DEF Typed
  <2>3. DiskTyped'
    BY <2>1 DEF Typed, DiskTyped, RequestTyped
  <2>4. ToolTyped'
    BY <2>1, ToolUntouched DEF Typed
  <2> QED
    BY <2>2, <2>3, <2>4 DEF Typed
<1> QED
  BY <1>1, <1>2, <1>3, <1>4 DEF Next

(* Every variable is of the set Typed gives it, in every reachable state: the *)
(* invariant behind TypeCorrect, and what the other proofs take for granted. *)
THEOREM TypesHold == Spec => []Typed
<1> QED
  BY InitTyped, TypedKeeps, PTL DEF Spec

(* The variables keep their types, for every number of units, disks,       *)
(* pieces and frames under way (TypeOK).                                   *)
THEOREM TypeCorrect == Spec => []TypeOK
<1> QED
  BY TypesHold, TypedGivesTypeOK, PTL
=============================================================================
