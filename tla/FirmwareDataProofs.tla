------------------------- MODULE FirmwareDataProofs -------------------------
(***************************************************************************)
(* That the firmware build's answers are about what was asked: a call gets *)
(* its own answer, whatever is on the line; and so come the sectors of a   *)
(* transfer, the change of a disk, the pieces of a file, each by what may  *)
(* be on the line when a request goes out.                                 *)
(***************************************************************************)
EXTENDS FirmwareTypeProofs

\* Every element of k is one of l.
Within(k, l) == \A i \in DOMAIN k : \E j \in DOMAIN l : k[i] = l[j]
\* What comes from d answers the call under way.
Good(l, d) == \A i \in DOMAIN l : l[i].dev = d => l[i].own
IsFrame(f) == {"dev", "own", "ok", "data"} \subseteq DOMAIN f

-----------------------------------------------------------------------------
(* What the operators of BusCall make of a line.                           *)

(* The indices of a sequence joined from two lead to one of them. *)
LEMMA Joined ==
    ASSUME NEW S, NEW T, NEW l \in Seq(S), NEW m \in Seq(T)
    PROVE  /\ l \o m \in Seq(S \cup T)
           /\ \A i \in DOMAIN (l \o m) : \/ \E j \in DOMAIN l : (l \o m)[i] = l[j]
                                         \/ \E j \in DOMAIN m : (l \o m)[i] = m[j]
<1>1. l \in Seq(S \cup T) /\ m \in Seq(S \cup T)
  OBVIOUS
<1>2. l \o m \in Seq(S \cup T) /\ Len(l \o m) = Len(l) + Len(m)
  BY <1>1
<1>3. ASSUME NEW i \in DOMAIN (l \o m)
      PROVE  \/ \E j \in DOMAIN l : (l \o m)[i] = l[j]
             \/ \E j \in DOMAIN m : (l \o m)[i] = m[j]
  <2>1. i \in 1..(Len(l) + Len(m)) /\ Len(l) \in Nat /\ Len(m) \in Nat
    BY <1>1, <1>2, <1>3
  <2>2. CASE i <= Len(l)
    <3>1. i \in 1..Len(l) /\ (l \o m)[i] = l[i]
      BY <1>1, <2>1, <2>2
    <3> QED
      BY <3>1
  <2>3. CASE i > Len(l)
    <3>1. i - Len(l) \in 1..Len(m) /\ (l \o m)[i] = m[i - Len(l)]
      BY <1>1, <2>1, <2>3
    <3> QED
      BY <3>1
  <2> QED
    BY <2>1, <2>2, <2>3
<1> QED
  BY <1>2, <1>3

(* port_flush_rx leaves a tail of what was there. *)
LEMMA FlushedIsTail ==
    ASSUME NEW S, NEW l \in Seq(S), NEW k \in Flushed(l)
    PROVE  k \in Seq(S) /\ Within(k, l)
<1>1. PICK n \in 1..(Len(l) + 1) : k = SubSeq(l, n, Len(l))
  BY DEF Flushed
<1>2. Len(l) \in Nat
  OBVIOUS
<1>3. k \in Seq(S) /\ Len(k) = Len(l) - n + 1
  BY <1>1, <1>2
<1>4. ASSUME NEW i \in DOMAIN k
      PROVE  \E j \in DOMAIN l : k[i] = l[j]
  <2>1. i \in 1..(Len(l) - n + 1)
    BY <1>3, <1>4
  <2>2. i + n - 1 \in 1..Len(l) /\ k[i] = l[i + n - 1]
    BY <1>1, <1>2, <2>1
  <2> QED
    BY <2>2
<1> QED
  BY <1>3, <1>4 DEF Within

(* What the FujiNet sends in answer comes from the device that was asked,  *)
(* and is the answer of the call it is of. *)
LEMMA HandledAnswers ==
    ASSUME NEW ans, IsFrame(ans), NEW able, NEW h \in Handled(ans, able)
    PROVE  /\ IsSeq(h.sent)
           /\ \A i \in DOMAIN h.sent : h.sent[i].dev = ans.dev /\ h.sent[i].own = ans.own
<1> DEFINE no == [ans EXCEPT !.ok = FALSE, !.data = Ack]
<1>1. no.dev = ans.dev /\ no.own = ans.own
  BY DEF IsFrame
<1>2. h.sent \in {<<ans>>, <<no>>, << >>}
  BY DEF Handled
<1>3. <<ans>> \in Seq({ans}) /\ <<no>> \in Seq({no}) /\ << >> \in Seq({ans})
  OBVIOUS
<1>4. IsSeq(h.sent)
  BY <1>2, <1>3 DEF IsSeq
<1>5. \A i \in DOMAIN h.sent : h.sent[i] = ans \/ h.sent[i] = no
  BY <1>2
<1> QED
  BY <1>1, <1>4, <1>5

(* What is received is the line's oldest frame or none that passes the     *)
(* checks, and what is left was there. *)
LEMMA ReceivedIsHead ==
    ASSUME NEW S, NEW l \in Seq(S), NEW r \in Received(l)
    PROVE  /\ r.left \in Seq(S) /\ Within(r.left, l)
           /\ ~r.got.whole \/ \E j \in DOMAIN l : r.got = l[j]
<1>0. Nothing.whole = FALSE /\ Damaged.whole = FALSE
  BY DEF Nothing, Damaged
<1>1. CASE l = << >>
  <2>1. r.left = << >> /\ r.got = Nothing
    BY <1>1 DEF Received
  <2>2. << >> \in Seq(S) /\ Within(<< >>, l)
    BY DEF Within
  <2> QED
    BY <1>0, <2>1, <2>2
<1>2. CASE l # << >>
  <2>1. /\ r.left \in {Tail(l), << >>, l}
        /\ r.got \in {Head(l), Nothing, Damaged}
    BY <1>2 DEF Received
  <2>2. Len(l) \in Nat /\ Len(l) > 0 /\ Head(l) = l[1] /\ 1 \in DOMAIN l
    BY <1>2
  <2>3. Tail(l) \in Seq(S) /\ Len(Tail(l)) = Len(l) - 1
    BY <1>2
  <2>4. \A i \in DOMAIN Tail(l) : i + 1 \in DOMAIN l /\ Tail(l)[i] = l[i + 1]
    BY <1>2, <2>2, <2>3
  <2>5. Within(Tail(l), l)
    BY <2>4 DEF Within
  <2>6. << >> \in Seq(S) /\ Within(<< >>, l) /\ Within(l, l)
    BY DEF Within
  <2>7. r.left \in Seq(S) /\ Within(r.left, l)
    BY <2>1, <2>3, <2>5, <2>6
  <2>8. ~r.got.whole \/ r.got = l[1]
    BY <1>0, <2>1, <2>2
  <2> QED
    BY <2>2, <2>7, <2>8
<1> QED
  BY <1>1, <1>2

(* Answers to calls that are over are a sequence again. *)
LEMMA DisownedIsSeq ==
    ASSUME NEW l, IsSeq(l)
    PROVE  IsSeq(Disowned(l)) /\ DOMAIN Disowned(l) = DOMAIN l
<1>1. PICK S : l \in Seq(S)
  BY DEF IsSeq
<1> DEFINE T == {[e EXCEPT !.own = FALSE] : e \in S}
<1>2. DOMAIN l = 1..Len(l) /\ Len(l) \in Nat /\ \A i \in DOMAIN l : l[i] \in S
  BY <1>1
<1>3. Disowned(l) \in [1..Len(l) -> T]
  BY <1>2 DEF Disowned
<1>4. Disowned(l) \in Seq(T)
  BY <1>2, <1>3
<1> QED
  BY <1>4 DEF IsSeq, Disowned

(* An exchange of the driver leaves a sequence on the line. *)
LEMMA ExchangeLeaves ==
    ASSUME IsSeq(line), NEW dev, NEW kind, NEW ans, IsFrame(ans), NEW able,
           NEW o \in Exchange(dev, kind, ans, able)
    PROVE  IsSeq(o.left)
<1>1. IsSeq(Disowned(line))
  BY DisownedIsSeq
<1>2. PICK l \in Flushed(Disowned(line)), h \in Handled(ans, able) :
        \E r \in Received(l \o h.sent) : o.left = r.left
  BY DEF Exchange
<1>3. PICK r \in Received(l \o h.sent) : o.left = r.left
  BY <1>2
<1>4. PICK S : l \in Seq(S)
  BY <1>1, FlushedIsTail DEF IsSeq
<1>5. PICK T : h.sent \in Seq(T)
  BY HandledAnswers DEF IsSeq
<1>6. l \o h.sent \in Seq(S \cup T)
  BY <1>4, <1>5, Joined
<1>7. r.left \in Seq(S \cup T)
  BY <1>6, ReceivedIsHead
<1> QED
  BY <1>3, <1>7 DEF IsSeq

-----------------------------------------------------------------------------
(* The invariant.  Only while a call began with nothing on the line is     *)
(* everything that comes from its device its own; the driver's exchanges   *)
(* and start-up, which disregard it, take place when no call is under way, *)
(* and the printer's, which come in the middle of one, are with another    *)
(* device. *)

Fields == {"phase", "dev", "kind", "got", "alone", "fresh"}
CallInv ==
    /\ DOMAIN call = Fields
    /\ ~Idle => call.dev = Device("net")
    /\ ~Idle /\ call.fresh => Good(line, call.dev)
    /\ call.phase = "received" /\ call.fresh =>
           call.got.own \/ ~call.got.whole \/ call.got.dev # call.dev
BusInv ==
    /\ IsSeq(line)
    /\ ~Up => Idle
    /\ CallInv

(* The invariant gives the property. *)
LEMMA InvGivesOwn == BusInv => AnswerOwn
<1> SUFFICES ASSUME BusInv, CallSucceeds, call.fresh PROVE call.got.own
  BY DEF AnswerOwn
<1>1. call.phase = "received" /\ call.got.whole /\ call.got.dev = call.dev
  BY DEF CallSucceeds, Accepts
<1> QED
  BY <1>1 DEF BusInv, CallInv

(* A program with nothing under way, and an empty line. *)
LEMMA InitBus == Init => BusInv
<1> SUFFICES ASSUME Init PROVE BusInv
  OBVIOUS
<1>1. line = << >> /\ call = NoCall
  BY DEF Init
<1>2. line \in Seq({})
  BY <1>1
<1>3. IsSeq(line)
  BY <1>2 DEF IsSeq
<1>4. DOMAIN call = Fields /\ call.phase = "none"
  BY <1>1 DEF NoCall, Fields
<1> QED
  BY <1>3, <1>4 DEF BusInv, CallInv, Idle

(* What leaves the call and the line alone. *)
LEMMA Untouched ==
    ASSUME BusInv, call' = call, line' = line, Up => Up'
    PROVE  BusInv'
<1>1. IsSeq(line)' /\ CallInv'
  BY DEF BusInv, CallInv, IsSeq, Good, Idle
<1> QED
  BY <1>1 DEF BusInv, Idle

(* An exchange of the driver or of start-up. *)
LEMMA DriverExchange ==
    ASSUME BusInv, Idle, call' = call, NEW dev, NEW kind, NEW ans, IsFrame(ans), NEW able,
           NEW o \in Exchange(dev, kind, ans, able), Takes(o)
    PROVE  BusInv'
<1>1. IsSeq(o.left)
  BY ExchangeLeaves DEF BusInv
<1>2. IsSeq(line)'
  BY <1>1 DEF Takes, IsSeq
<1>3. Idle'
  BY DEF Idle
<1>4. CallInv'
  BY <1>3 DEF BusInv, CallInv, Idle
<1> QED
  BY <1>2, <1>3, <1>4 DEF BusInv

(* Every answer is a frame. *)
LEMMA AnswersHaveFields ==
    /\ \A dev, ok, data : /\ IsFrame(Answer(dev, ok, data))
                          /\ Answer(dev, ok, data).dev = dev /\ Answer(dev, ok, data).own = TRUE
    /\ IsFrame(PrinterAnswer) /\ PrinterAnswer.dev = Device("printer")
  BY DEF Answer, IsFrame, PrinterAnswer

-----------------------------------------------------------------------------
(* The steps of INT F5h. *)

(* A call that begins with an empty line leaves it empty. *)
LEMMA Builds ==
    ASSUME BusInv, Up, Up', NEW kind, BuildFrame(Device("net"), kind)
    PROVE  BusInv'
<1>1. IsSeq(line) /\ DOMAIN call = Fields
  BY DEF BusInv, CallInv
<1>2. IsSeq(line') /\ DOMAIN line' = DOMAIN line
  BY <1>1, DisownedIsSeq DEF BuildFrame
<1>3. /\ DOMAIN call' = Fields /\ call'.phase = "built" /\ call'.dev = Device("net")
      /\ call'.fresh = (line = << >>)
  BY DEF BuildFrame, NoCall, Fields
<1>4. call'.fresh => Good(line', call'.dev)
  <2>1. line = << >> => DOMAIN line = {}
    OBVIOUS
  <2> QED
    BY <1>2, <1>3, <2>1 DEF Good
<1>5. CallInv'
  BY <1>3, <1>4 DEF CallInv, Good, Idle
<1> QED
  BY <1>2, <1>5 DEF BusInv, IsSeq

(* The answer to the request sent is its own. *)
LEMMA Sends ==
    ASSUME BusInv, Up, Up', NEW ans, IsFrame(ans), ans.own = TRUE,
           NEW h \in Handlings(ans), SendFrame(h)
    PROVE  BusInv'
<1>1. /\ IsSeq(h.sent)
      /\ \A i \in DOMAIN h.sent : h.sent[i].own
  <2>1. CASE h \in Handled(ans, TRUE)
    BY <2>1, HandledAnswers
  <2>2. CASE h = [done |-> FALSE, sent |-> << >>, cost |-> 0]
    <3>1. h.sent = << >> /\ h.sent \in Seq({})
      BY <2>2
    <3> QED
      BY <3>1 DEF IsSeq
  <2> QED
    BY <2>1, <2>2 DEF Handlings
<1>2. PICK l \in Flushed(line) : line' = l \o h.sent
  BY DEF SendFrame
<1>3. PICK S : line \in Seq(S)
  BY DEF BusInv, IsSeq
<1>4. PICK T : h.sent \in Seq(T)
  BY <1>1 DEF IsSeq
<1>5. l \in Seq(S) /\ Within(l, line)
  BY <1>3, FlushedIsTail
<1>6. /\ line' \in Seq(S \cup T)
      /\ \A i \in DOMAIN line' : (\E j \in DOMAIN l : line'[i] = l[j])
                                 \/ \E j \in DOMAIN h.sent : line'[i] = h.sent[j]
  <2>1. /\ l \o h.sent \in Seq(S \cup T)
        /\ \A i \in DOMAIN (l \o h.sent) : (\E j \in DOMAIN l : (l \o h.sent)[i] = l[j])
                                          \/ \E j \in DOMAIN h.sent : (l \o h.sent)[i] = h.sent[j]
    BY <1>4, <1>5, Joined
  <2> QED
    BY <1>2, <2>1
<1>7. ~Idle /\ DOMAIN call = Fields /\ call' = [call EXCEPT !.phase = "sent"]
  BY DEF BusInv, CallInv, SendFrame, Idle
<1>8. /\ DOMAIN call' = Fields /\ call'.phase = "sent" /\ call'.dev = call.dev
      /\ call'.fresh = call.fresh
  BY <1>7 DEF Fields
<1>9. call.fresh => Good(line', call.dev)
  <2> SUFFICES ASSUME call.fresh, NEW i \in DOMAIN line', line'[i].dev = call.dev
               PROVE  line'[i].own
    BY DEF Good
  <2>1. Good(line, call.dev)
    BY <1>7 DEF BusInv, CallInv
  <2>2. CASE \E j \in DOMAIN l : line'[i] = l[j]
    BY <1>5, <2>1, <2>2 DEF Within, Good
  <2>3. CASE \E j \in DOMAIN h.sent : line'[i] = h.sent[j]
    BY <1>1, <2>3
  <2> QED
    BY <1>6, <2>2, <2>3
<1>10. call'.dev = Device("net")
  BY <1>7, <1>8 DEF BusInv, CallInv
<1>11. CallInv'
  BY <1>8, <1>9, <1>10 DEF CallInv, Good, Idle
<1>12. IsSeq(line')
  BY <1>6 DEF IsSeq
<1>13. IsSeq(line)'
  BY <1>12 DEF IsSeq
<1> QED
  BY <1>11, <1>13 DEF BusInv

(* What is received comes from the line. *)
LEMMA Receives ==
    ASSUME BusInv, Up, Up', Receive
    PROVE  BusInv'
<1>1. PICK r \in Received(line) : /\ call' = [call EXCEPT !.phase = "received", !.got = r.got]
                                  /\ line' = r.left
  BY DEF Receive
<1>2. PICK S : line \in Seq(S)
  BY DEF BusInv, IsSeq
<1>3. /\ line' \in Seq(S) /\ Within(line', line)
      /\ ~r.got.whole \/ \E j \in DOMAIN line : r.got = line[j]
  BY <1>1, <1>2, ReceivedIsHead
<1>4. ~Idle /\ DOMAIN call = Fields
  BY DEF BusInv, CallInv, Receive, Idle
<1>5. /\ DOMAIN call' = Fields /\ call'.phase = "received" /\ call'.dev = call.dev
      /\ call'.fresh = call.fresh /\ call'.got = r.got
  BY <1>1, <1>4 DEF Fields
<1>6. call.dev = Device("net") /\ (call.fresh => Good(line, call.dev))
  BY <1>4 DEF BusInv, CallInv
<1>7. call.fresh => Good(line', call.dev)
  BY <1>3, <1>6 DEF Good, Within
<1>8. call.fresh => r.got.own \/ ~r.got.whole \/ r.got.dev # call.dev
  BY <1>3, <1>6 DEF Good
<1>9. CallInv'
  BY <1>5, <1>6, <1>7, <1>8 DEF CallInv, Good, Idle
<1> QED
  BY <1>3, <1>9 DEF BusInv, IsSeq

(* The call is over. *)
LEMMA Returns ==
    ASSUME BusInv, Up, Up', CallReturns
    PROVE  BusInv'
<1>1. call' = NoCall /\ line' = line
  BY DEF CallReturns
<1>2. DOMAIN call' = Fields /\ call'.phase = "none"
  BY <1>1 DEF NoCall, Fields
<1> QED
  BY <1>1, <1>2 DEF BusInv, CallInv, IsSeq, Idle

(* The printer's exchange puts only its own device's answers on the line. *)
LEMMA Ticks ==
    ASSUME BusInv, Up, Up', PrinterTick
    PROVE  BusInv'
<1>1. PICK l \in Flushed(line), h \in Handled(PrinterAnswer, TRUE) :
        \E r \in Received(l \o h.sent) : line' = r.left
  BY DEF PrinterTick
<1>2. PICK r \in Received(l \o h.sent) : line' = r.left
  BY <1>1
<1>3. PICK S : line \in Seq(S)
  BY DEF BusInv, IsSeq
<1>4. l \in Seq(S) /\ Within(l, line)
  BY <1>3, FlushedIsTail
<1>5. /\ IsSeq(h.sent)
      /\ \A i \in DOMAIN h.sent : h.sent[i].dev = Device("printer")
  <2>1. IsFrame(PrinterAnswer) /\ PrinterAnswer.dev = Device("printer")
    BY AnswersHaveFields
  <2>2. IsSeq(h.sent) /\ \A i \in DOMAIN h.sent : h.sent[i].dev = PrinterAnswer.dev
    BY <2>1, HandledAnswers
  <2> QED
    BY <2>1, <2>2
<1>6. PICK T : h.sent \in Seq(T)
  BY <1>5 DEF IsSeq
<1>7. /\ l \o h.sent \in Seq(S \cup T)
      /\ \A i \in DOMAIN (l \o h.sent) : (\E j \in DOMAIN l : (l \o h.sent)[i] = l[j])
                                        \/ \E j \in DOMAIN h.sent : (l \o h.sent)[i] = h.sent[j]
  BY <1>4, <1>6, Joined
<1>8. line' \in Seq(S \cup T) /\ Within(line', l \o h.sent)
  BY <1>2, <1>7, ReceivedIsHead
<1>9. ~Idle /\ DOMAIN call = Fields /\ call' = [call EXCEPT !.alone = FALSE]
  BY DEF PrinterTick, BusInv, CallInv
<1>10. /\ DOMAIN call' = Fields /\ call'.phase = call.phase /\ call'.dev = call.dev
       /\ call'.fresh = call.fresh /\ call'.got = call.got
  BY <1>9 DEF Fields
<1>11. call.dev = Device("net") /\ Device("net") # Device("printer")
  BY <1>9 DEF BusInv, CallInv, Device
<1>12. call.fresh => Good(line', call.dev)
  <2> SUFFICES ASSUME call.fresh, NEW i \in DOMAIN line', line'[i].dev = call.dev
               PROVE  line'[i].own
    BY DEF Good
  <2>1. Good(line, call.dev)
    BY <1>9 DEF BusInv, CallInv
  <2>2. PICK j \in DOMAIN (l \o h.sent) : line'[i] = (l \o h.sent)[j]
    BY <1>8 DEF Within
  <2>3. CASE \E n \in DOMAIN l : (l \o h.sent)[j] = l[n]
    BY <1>4, <2>1, <2>2, <2>3 DEF Within, Good
  <2>4. CASE \E n \in DOMAIN h.sent : (l \o h.sent)[j] = h.sent[n]
    BY <1>5, <1>11, <2>2, <2>4
  <2> QED
    BY <1>7, <2>2, <2>3, <2>4
<1>13. CallInv'
  BY <1>9, <1>10, <1>11, <1>12 DEF BusInv, CallInv, Good, Idle
<1>14. IsSeq(line')
  BY <1>8 DEF IsSeq
<1>15. IsSeq(line)'
  BY <1>14 DEF IsSeq
<1> QED
  BY <1>13, <1>15 DEF BusInv

-----------------------------------------------------------------------------
(* The steps of Firmware.                                                  *)

(* Start-up: no call is under way until it is over. *)
LEMMA StartKeeps ==
    ASSUME BusInv, Start
    PROVE  BusInv'
<1>1. ~Up
  BY DEF Start, Configure, Version, Clock, Up
<1>2. CASE Configure
  BY <1>1, <1>2, Untouched DEF Configure, bus
<1>3. CASE Version
  BY <1>1, <1>3, Untouched DEF Version
<1>4. CASE Clock
  <2>1. PICK o \in Exchange(Device("clock"), "status", Answer(Device("clock"), TRUE, Data("status", 0)), TRUE) : Takes(o)
    BY <1>4 DEF Clock
  <2>2. Idle /\ call' = call
    BY <1>1, <1>4 DEF BusInv, Clock
  <2> QED
    BY <2>1, <2>2, DriverExchange, AnswersHaveFields
<1> QED
  BY <1>2, <1>3, <1>4 DEF Start

(* The exchange about a sector is one of the driver's. *)
LEMMA SectorExchanges ==
    ASSUME BusInv, Idle, call' = call, NEW u, NEW n, NEW kind, NEW data,
           NEW o \in SectorExchange(u, n, kind, data), Takes(o)
    PROVE  BusInv'
<1> DEFINE able == (medium[u] # None /\ n < Sectors[medium[u]]) /\ (kind = "ack" => mode[u] = "rw")
           ans == Answer(DiskOf(u), TRUE, data)
<1>1. o \in Exchange(DiskOf(u), kind, ans, able)
  BY DEF SectorExchange
<1>2. IsFrame(ans)
  BY AnswersHaveFields
<1> HIDE DEF able, ans
<1> QED
  BY <1>1, <1>2, DriverExchange

(* The block driver. *)
LEMMA DiskKeeps ==
    ASSUME BusInv, Up, Up', Disk
    PROVE  BusInv'
<1>1. Idle
  BY DEF Disk
<1>2. CASE Dos
  BY <1>2, Untouched DEF Dos, Strategy, bus
<1>3. CASE Interrupt
  BY <1>3, Untouched DEF Interrupt, bus
<1>4. CASE MediaTimes
  <2>1. PICK o \in Exchange(Device("fuji"), "times", Answer(Device("fuji"), TRUE, Data("times", medium)), TRUE) : Takes(o)
    BY <1>4 DEF MediaTimes
  <2>2. call' = call
    BY <1>4 DEF MediaTimes
  <2> QED
    BY <1>1, <2>1, <2>2, DriverExchange, AnswersHaveFields
<1>5. CASE MediaSlots
  <2>1. PICK o \in Exchange(Device("fuji"), "slots", Answer(Device("fuji"), TRUE, Data("slots", mode)), TRUE) : Takes(o)
    BY <1>5 DEF MediaSlots
  <2>2. call' = call
    BY <1>5 DEF MediaSlots
  <2> QED
    BY <1>1, <2>1, <2>2, DriverExchange, AnswersHaveFields
<1>6. CASE BuildBpb
  <2>1. PICK o \in SectorExchange(request.unit, 0, "sector", Data("sector", Sector(medium[request.unit], 0))) : Takes(o)
    BY <1>6 DEF BuildBpb
  <2>2. call' = call
    BY <1>6 DEF BuildBpb
  <2> QED
    BY <1>1, <2>1, <2>2, SectorExchanges
<1>7. CASE LoopEnds
  BY <1>7, Untouched DEF LoopEnds, Transfers
<1>8. CASE InputSector
  <2>1. PICK o \in SectorExchange(request.unit, sector, "sector", Data("sector", Sector(medium[request.unit], sector))) : Takes(o)
    BY <1>8 DEF InputSector
  <2>2. call' = call
    BY <1>8 DEF InputSector, Transfers
  <2> QED
    BY <1>1, <2>1, <2>2, SectorExchanges
<1>9. CASE OutputSector
  <2>1. PICK o \in SectorExchange(request.unit, sector, "ack", Ack) : Takes(o)
    BY <1>9 DEF OutputSector
  <2>2. call' = call
    BY <1>9 DEF OutputSector, Transfers
  <2> QED
    BY <1>1, <2>1, <2>2, SectorExchanges
<1> QED
  BY <1>2, <1>3, <1>4, <1>5, <1>6, <1>7, <1>8, <1>9 DEF Disk

(* NGET and NPUT: the request sent is answered by the network device. *)
LEMMA ProgramKeeps ==
    ASSUME BusInv, Up, Up', Program
    PROVE  BusInv'
<1>1. ASSUME NEW name \in Names, Run(name), UNCHANGED bus
      PROVE  BusInv'
  BY <1>1, Untouched DEF bus
<1>2. CASE NgetAsks
  BY <1>2, Builds DEF NgetAsks
<1>3. CASE NgetSends
  <2>1. PICK h \in Handlings(Reply(tool.pc)) : SendFrame(h)
    BY <1>3 DEF NgetSends
  <2>2. \E ok, data : Reply(tool.pc) = Answer(Device("net"), ok, data)
    BY DEF Reply
  <2>3. IsFrame(Reply(tool.pc)) /\ Reply(tool.pc).own = TRUE
    BY <2>2, AnswersHaveFields
  <2> HIDE DEF Reply
  <2> QED
    BY <2>1, <2>3, Sends
<1>4. CASE NgetReceives
  BY <1>4, Receives DEF NgetReceives
<1>5. CASE NgetReturns
  BY <1>5, Returns DEF NgetReturns
<1>6. ASSUME NEW ok \in BOOLEAN, NputOpens(ok) \/ NputCallsNowhere(ok)
      PROVE  BusInv'
  BY <1>6, Untouched DEF NputOpens, NputCallsNowhere, bus
<1>7. CASE NputCalls
  BY <1>7, Builds DEF NputCalls
<1>8. CASE NputSends
  <2>1. PICK h \in Handlings(Answer(Device("net"), TRUE, Ack)) : SendFrame(h)
    BY <1>8 DEF NputSends
  <2> QED
    BY <2>1, Sends, AnswersHaveFields
<1>9. CASE NputReceives
  BY <1>9, Receives DEF NputReceives
<1>10. CASE NputReturns
  BY <1>10, Returns DEF NputReturns
<1>11. CASE Tools
  BY <1>2, <1>3, <1>4, <1>5, <1>6, <1>7, <1>8, <1>9, <1>10, <1>11 DEF Tools
<1> QED
  BY <1>1, <1>11 DEF Program

(* The disks, the network's stream, the printer. *)
LEMMA ElsewhereKeeps ==
    ASSUME BusInv, Up, Up', Elsewhere
    PROVE  BusInv'
<1>1. ASSUME NEW u \in Units, Eject(u) \/ \E m \in {"r", "rw"} : Mount(u, m)
      PROVE  BusInv'
  BY <1>1, Untouched DEF Eject, Mount, Change, bus
<1>2. ASSUME UNCHANGED <<bus, disk>>
      PROVE  BusInv'
  BY <1>2, Untouched DEF bus
<1>3. CASE PrinterTick
  BY <1>3, Ticks
<1> QED
  BY <1>1, <1>2, <1>3 DEF Elsewhere

(* CFGTSR exchanges when no call is under way. *)
LEMMA KeyboardKeeps ==
    ASSUME BusInv, Up, Up', Keyboard
    PROVE  BusInv'
<1>1. CASE UNCHANGED bus
  BY <1>1, Untouched DEF bus
<1>2. CASE Waits /\ Menu
  <2>1. Idle /\ call' = call
    BY <1>2 DEF Waits, Menu
  <2>2. CASE BootMode
    <3>1. PICK o \in Exchange(Device("fuji"), "ack", Answer(Device("fuji"), TRUE, Ack), TRUE) : Takes(o)
      BY <2>2 DEF BootMode
    <3> QED
      BY <2>1, <3>1, DriverExchange, AnswersHaveFields
  <2>3. CASE UNCHANGED <<line, faults>>
    BY <2>1, <2>3, Untouched
  <2> QED
    BY <1>2, <2>2, <2>3 DEF Menu
<1> QED
  BY <1>1, <1>2 DEF Keyboard, Typing, Loading

(* Every step keeps the invariant. *)
LEMMA StepKeeps == BusInv /\ [Next]_vars => BusInv'
<1> SUFFICES ASSUME BusInv, [Next]_vars PROVE BusInv'
  OBVIOUS
<1>1. CASE Start
  BY <1>1, StartKeeps
<1>2. CASE Up /\ UNCHANGED start /\ (Disk \/ Program \/ Elsewhere \/ Keyboard)
  <2>1. Up'
    BY <1>2 DEF start, Up
  <2> QED
    BY <1>2, <2>1, DiskKeeps, ProgramKeeps, ElsewhereKeeps, KeyboardKeeps
<1>3. CASE UNCHANGED vars
  <2>1. call' = call /\ line' = line /\ (Up => Up')
    BY <1>3 DEF vars, bus, start, Up
  <2> QED
    BY <2>1, Untouched
<1> QED
  BY <1>1, <1>2, <1>3 DEF Next

(* Whatever the timer, the line, DOS, the disks, CFGTSR and the other      *)
(* programs do, a call of INT F5h that began with no answer under way and  *)
(* succeeds got the answer to its own request (fuji_bus_call, intf5).      *)
THEOREM AnswersOwn == Spec => []AnswerOwn
<1>1. Init => BusInv
  BY InitBus
<1>2. BusInv /\ [Next]_vars => BusInv'
  BY StepKeeps
<1>3. BusInv => AnswerOwn
  BY InvGivesOwn
<1> QED
  BY <1>1, <1>2, <1>3, PTL DEF Spec

-----------------------------------------------------------------------------
(* The driver and the rest of the program.                                 *)

(* DOS is in the driver only after start-up and outside INT F5h.           *)
Entered == InDriver => Up /\ Idle
DriverStep == Up /\ Disk /\ UNCHANGED <<serial, start, hotkey>>

(* Whatever else happens leaves the driver's request alone, and the line   *)
(* while there is one; a disk may be exchanged for no disk or a new one.   *)
LEMMA OutsideDriver ==
    ASSUME Entered, [Next]_vars, ~DriverStep
    PROVE  /\ UNCHANGED <<mountStatus, slots, request, dos, doubt, written>>
           /\ InDriver => UNCHANGED <<line, call, boot>>
           /\ \/ UNCHANGED medium
              \/ \E u \in Units : \E d \in {None, mounted + 1} : medium' = [medium EXCEPT ![u] = d]
<1>1. CASE Start
  <2>1. ~Up /\ UNCHANGED disk
    BY <1>1 DEF Start, Configure, Version, Clock, Up
  <2> QED
    BY <2>1 DEF Entered, disk, driver, fujinet
<1>2. CASE Up /\ Program /\ UNCHANGED start
  BY <1>2 DEF Program, driver, fujinet, InDriver
<1>3. CASE Up /\ Elsewhere /\ UNCHANGED start
  <2>1. CASE \E u \in Units : Eject(u) \/ \E m \in {"r", "rw"} : Mount(u, m)
    BY <1>3, <2>1 DEF Eject, Mount, Change, bus, driver, start
  <2>2. CASE Arrives /\ UNCHANGED <<bus, disk>>
    BY <1>3, <2>2 DEF bus, disk, driver, fujinet, start
  <2>3. CASE PrinterTick /\ UNCHANGED <<disk, transfer>>
    BY <2>3 DEF PrinterTick, disk, driver, fujinet, Entered
  <2> QED
    BY <1>3, <2>1, <2>2, <2>3 DEF Elsewhere
<1>4. CASE Up /\ Keyboard /\ UNCHANGED start
  <2>1. UNCHANGED <<medium, mountStatus, slots, request, dos, doubt, written>>
    BY <1>4 DEF Keyboard, driver, fujinet
  <2>2. InDriver => UNCHANGED <<line, call, boot>>
    BY <1>4 DEF Keyboard, Typing, Waits, bus, start
  <2> QED
    BY <2>1, <2>2
<1>5. CASE UNCHANGED vars
  BY <1>5 DEF vars, bus, disk, driver, fujinet, start
<1> QED
  BY <1>1, <1>2, <1>3, <1>4, <1>5 DEF Next, DriverStep

(* The driver's commands leave the call of INT F5h alone.                  *)
LEMMA DriverKeepsCall == ASSUME Disk PROVE call' = call
BY DEF Disk, Dos, Strategy, Interrupt, MediaTimes, MediaSlots, BuildBpb, LoopEnds, InputSector, OutputSector,
       Transfers, bus

(* Entered is an invariant.                                                *)
LEMMA EnteredHolds == (Init => Entered) /\ (Entered /\ [Next]_vars => Entered')
<1>1. Init => Entered
  BY DEF Init, NoRequest, Entered, InDriver
<1>2. ASSUME Entered, [Next]_vars PROVE Entered'
  <2>1. CASE DriverStep
    <3>1. Up /\ boot' = boot
      BY <2>1 DEF DriverStep, start
    <3>2. Idle /\ call' = call
      BY <2>1, DriverKeepsCall DEF DriverStep, Disk
    <3> QED
      BY <3>1, <3>2 DEF Entered, Up, Idle
  <2>2. CASE ~DriverStep
    BY <1>2, <2>2, OutsideDriver DEF Entered, InDriver, Up, Idle
  <2> QED
    BY <2>1, <2>2
<1> QED
  BY <1>1, <1>2

-----------------------------------------------------------------------------
(* Transfers.  The invariant: while no answer to an earlier call was about, *)
(* nothing is on the line when the next sector is asked for, and what was   *)
(* read or written so far is what was asked for so far.                     *)

ReadSoFar(r) == Len(r.got) = r.idx /\ \A i \in 1..r.idx : r.got[i].sector = r.start + i - 1
WrittenSoFar(r) == {r.start + i - 1 : i \in 1..r.idx}

\* Of a request r, the line l, and the sectors w written for it.
Undisturbed(r, l, w) ==
    r.pc \in {"interrupt", "transfer"} /\ ~r.rough =>
        l = << >> /\ (r.fn = "input" => ReadSoFar(r)) /\ (r.fn = "output" => w = WrittenSoFar(r))
Truthful(r, w) ==
    r.pc = "done" /\ r.status = "ok" /\ ~r.rough =>
        /\ r.fn = "input" => /\ Len(r.got) = r.count
                             /\ \A i \in DOMAIN r.got : r.got[i].sector = r.start + i - 1
        /\ r.fn = "output" =>
               LET asked == {r.start + i - 1 : i \in 1..r.count}
               IN asked \subseteq w /\ w \subseteq asked \cup {r.start + r.count}
TransferInv == Undisturbed(request, line, written) /\ Truthful(request, written)

(* The invariant gives the property.                                       *)
LEMMA TruthfulIsTransferTrue == Truthful(request, written) => TransferTrue
BY DEF Truthful, TransferTrue, At

(* A transfer that stops keeps what it has.                                *)
LEMMA StoppedTrue ==
    ASSUME request \in Requests, request.pc = "transfer", Stopped, Undisturbed(request, line, written),
           NEW w, ~request.rough /\ request.fn = "output" => written \subseteq w /\ w \subseteq written \cup {sector}
    PROVE  Truthful(request', w) /\ request'.pc = "done"
<1>1. CASE request.idx = 0
  <2>1. request' = [request EXCEPT !.pc = "done", !.status = "general_fail"]
    BY <1>1 DEF Stopped
  <2>2. request'.pc = "done" /\ request'.status = "general_fail"
    BY <2>1 DEF Requests
  <2> QED
    BY <2>2 DEF Truthful
<1>2. CASE request.idx # 0
  <2>1. request' = [request EXCEPT !.pc = "done", !.status = "ok", !.count = request.idx]
    BY <1>2 DEF Stopped
  <2>2. /\ request'.pc = "done" /\ request'.count = request.idx /\ request'.start = request.start
        /\ request'.got = request.got /\ request'.fn = request.fn /\ request'.rough = request.rough
    BY <2>1 DEF Requests
  <2>3. request.got \in Seq(SectorsRead)
    BY DEF Requests
  <2>4. ASSUME ~request.rough, request.fn = "input"
        PROVE  Len(request.got) = request.idx /\ \A i \in DOMAIN request.got : request.got[i].sector = request.start + i - 1
    BY <2>3, <2>4 DEF Undisturbed, ReadSoFar
  <2>5. ASSUME ~request.rough, request.fn = "output"
        PROVE  WrittenSoFar(request) \subseteq w /\ w \subseteq WrittenSoFar(request) \cup {request.start + request.idx}
    BY <2>5 DEF Undisturbed, sector
  <2> QED
    BY <2>2, <2>4, <2>5 DEF Truthful, WrittenSoFar
<1> QED
  BY <1>1, <1>2

(* One more sector, if none of another answer is about.                    *)
LEMMA SectorClean ==
    ASSUME line = << >>, NEW u, NEW n, NEW kind, NEW data, NEW o \in SectorExchange(u, n, kind, data), o.ok
    PROVE  o.got = Answer(DiskOf(u), TRUE, data) /\ o.done /\ o.left = << >>
<1> DEFINE ans == Answer(DiskOf(u), TRUE, data)
<1>1. PICK able : o \in Exchange(DiskOf(u), kind, ans, able)
  BY DEF SectorExchange
<1>2. [ans EXCEPT !.ok = FALSE, !.data = Ack].ok = FALSE
  BY DEF Answer
<1>3. MaxLine \in Nat
  BY BusCallAssumption
<1> HIDE DEF ans
<1>4. o.got = ans /\ o.done /\ o.left = << >>
  BY <1>1, <1>2, <1>3, CleanExchange
<1> QED
  BY <1>4 DEF ans

(* A turn of Input_cmd's loop.                                             *)
LEMMA InputTrue ==
    ASSUME request \in Requests, Undisturbed(request, line, written), InputSector
    PROVE  Undisturbed(request', line', written') /\ Truthful(request', written')
<1> DEFINE d(o) == Decoded(o.got, "sector", Data("sector", NoSector)).val
           asked == Data("sector", Sector(medium[request.unit], sector))
<1>1. PICK o \in SectorExchange(request.unit, sector, "sector", asked) :
        Takes(o) /\ NextSector(o, Append(request.got, d(o)))
  BY DEF InputSector
<1>2. request.pc = "transfer" /\ request.fn = "input" /\ written' = written
  BY DEF InputSector, At
<1>3. CASE ~o.ok
  <2>1. Stopped
    BY <1>1, <1>3 DEF NextSector
  <2>2. Truthful(request', written') /\ request'.pc = "done"
    BY <1>2, <2>1, StoppedTrue
  <2> QED
    BY <2>2 DEF Undisturbed
<1>4. CASE o.ok
  <2> DEFINE got == Append(request.got, d(o))
             rough_ == request.rough \/ o.left # << >>
  <2>1. request' = [request EXCEPT !.idx = @ + 1, !.got = got, !.rough = rough_]
    BY <1>1, <1>4 DEF NextSector
  <2> HIDE DEF got, rough_
  <2>2. /\ request'.pc = "transfer" /\ request'.fn = "input" /\ request'.idx = request.idx + 1
        /\ request'.got = got /\ request'.rough = rough_ /\ request'.start = request.start
    BY <1>2, <2>1 DEF Requests
  <2>3. ASSUME ~rough_ PROVE line' = << >> /\ ReadSoFar(request')
    <3>1. ~request.rough /\ o.left = << >>
      BY <2>3 DEF rough_
    <3>2. line = << >> /\ ReadSoFar(request)
      BY <1>2, <3>1 DEF Undisturbed
    <3>3. o.got = Answer(DiskOf(request.unit), TRUE, asked)
      <4> DEFINE u == request.unit
                 n == sector
      <4>1. o \in SectorExchange(u, n, "sector", asked)
        BY <1>1
      <4> HIDE DEF u, n, asked
      <4>2. o.got = Answer(DiskOf(u), TRUE, asked)
        BY <1>4, <3>2, <4>1, SectorClean
      <4> QED
        BY <4>2 DEF u
    <3>4. d(o).sector = request.start + request.idx
      BY <3>3 DEF Answer, Decoded, Data, Sector, sector, asked
    <3>5. request.got \in Seq(SectorsRead) /\ request.idx \in Nat /\ request.start \in Nat
      BY DEF Requests
    <3>6. /\ Len(got) = request.idx + 1 /\ got[request.idx + 1] = d(o)
          /\ \A i \in 1..request.idx : got[i] = request.got[i]
      BY <3>2, <3>5 DEF got, ReadSoFar
    <3> HIDE DEF d
    <3>7. ASSUME NEW i \in 1..(request.idx + 1) PROVE got[i].sector = request.start + i - 1
      <4>1. CASE i = request.idx + 1
        BY <3>4, <3>5, <3>6, <4>1
      <4>2. CASE i # request.idx + 1
        <5>1. i \in 1..request.idx
          BY <3>5, <4>2
        <5> QED
          BY <3>2, <3>6, <5>1 DEF ReadSoFar
      <4> QED
        BY <4>1, <4>2
    <3> QED
      BY <1>1, <2>2, <3>1, <3>6, <3>7 DEF ReadSoFar, Takes
  <2> QED
    BY <2>2, <2>3 DEF Undisturbed, Truthful
<1> QED
  BY <1>3, <1>4

(* A turn of Output_cmd's loop.                                            *)
LEMMA OutputTrue ==
    ASSUME request \in Requests, Undisturbed(request, line, written), OutputSector
    PROVE  Undisturbed(request', line', written') /\ Truthful(request', written')
<1>1. PICK o \in SectorExchange(request.unit, sector, "ack", Ack) :
        /\ Takes(o) /\ NextSector(o, << >>)
        /\ written' = IF o.done THEN written \cup {sector} ELSE written
  BY DEF OutputSector
<1>2. request.pc = "transfer" /\ request.fn = "output"
  BY DEF OutputSector, At
<1>3. CASE ~o.ok
  <2>1. Stopped /\ written \subseteq written' /\ written' \subseteq written \cup {sector}
    BY <1>1, <1>3 DEF NextSector
  <2> DEFINE w == written'
  <2>2. written \subseteq w /\ w \subseteq written \cup {sector}
    BY <2>1
  <2> HIDE DEF w
  <2>3. Truthful(request', w) /\ request'.pc = "done"
    BY <1>2, <2>1, <2>2, StoppedTrue
  <2> QED
    BY <2>3 DEF Undisturbed, w
<1>4. CASE o.ok
  <2> DEFINE rough_ == request.rough \/ o.left # << >>
  <2>1. request' = [request EXCEPT !.idx = @ + 1, !.got = << >>, !.rough = rough_]
    BY <1>1, <1>4 DEF NextSector
  <2> HIDE DEF rough_
  <2>2. /\ request'.pc = "transfer" /\ request'.fn = "output" /\ request'.idx = request.idx + 1
        /\ request'.rough = rough_ /\ request'.start = request.start
    BY <1>2, <2>1 DEF Requests
  <2>3. ASSUME ~rough_ PROVE line' = << >> /\ written' = WrittenSoFar(request')
    <3>1. ~request.rough /\ o.left = << >>
      BY <2>3 DEF rough_
    <3>2. line = << >> /\ written = WrittenSoFar(request)
      BY <1>2, <3>1 DEF Undisturbed
    <3>3. o.done
      BY <1>4, <3>2, SectorClean
    <3>4. request.idx \in Nat /\ request.start \in Nat
      BY DEF Requests
    <3>5. 1..(request.idx + 1) = (1..request.idx) \cup {request.idx + 1}
      BY <3>4
    <3>6. sector = request.start + (request.idx + 1) - 1
      BY <3>4 DEF sector
    <3>7. WrittenSoFar(request') = WrittenSoFar(request) \cup {sector}
      BY <2>2, <3>5, <3>6 DEF WrittenSoFar
    <3> QED
      BY <1>1, <3>1, <3>2, <3>3, <3>7 DEF Takes
  <2> QED
    BY <2>2, <2>3 DEF Undisturbed, Truthful
<1> QED
  BY <1>3, <1>4

(* Every command of the driver. *)
LEMMA DriverTransfers ==
    ASSUME request \in Requests, TransferInv, DriverStep
    PROVE  TransferInv'
<1> SUFFICES Undisturbed(request', line', written') /\ Truthful(request', written')
  BY DEF TransferInv
<1>1. Undisturbed(request, line, written)
  BY DEF TransferInv
<1>2. CASE InputSector \/ OutputSector
  BY <1>1, <1>2, InputTrue, OutputTrue
<1>3. CASE Dos
  <2>1. PICK fn, u, s, n : Strategy(fn, u, s, n)
    BY <1>3 DEF Dos
  <2>2. /\ request' = [NoRequest EXCEPT !.fn = fn, !.unit = u, !.start = s, !.count = n,
                                        !.pc = "interrupt", !.rough = line # << >>]
        /\ written' = {} /\ line' = line
    BY <2>1 DEF Strategy, bus
  <2>3. /\ request'.pc = "interrupt" /\ request'.idx = 0 /\ request'.got = << >>
        /\ request'.rough = (line # << >>)
    BY <2>2 DEF NoRequest
  <2>4. ReadSoFar(request') /\ WrittenSoFar(request') = {}
    BY <2>3 DEF ReadSoFar, WrittenSoFar
  <2> QED
    BY <2>2, <2>3, <2>4 DEF Undisturbed, Truthful
<1>4. CASE Interrupt
  <2>1. UNCHANGED <<line, written>> /\ request.pc = "interrupt"
    BY <1>4 DEF Interrupt, bus
  <2>2. CASE \E pc \in {"times", "boot", "transfer"} : Goes(pc)
    <3>1. PICK pc \in {"times", "boot", "transfer"} : Goes(pc)
      BY <2>2
    <3>2. request' = [request EXCEPT !.pc = pc, !.old = mountStatus[request.unit]]
      BY <3>1 DEF Goes
    <3>3. /\ request'.pc = pc /\ request'.idx = request.idx /\ request'.got = request.got /\ request'.fn = request.fn
          /\ request'.rough = request.rough /\ request'.start = request.start
      BY <3>2 DEF Requests
    <3> QED
      BY <1>1, <2>1, <3>3 DEF Undisturbed, Truthful, ReadSoFar, WrittenSoFar
  <2>3. CASE \E st \in {"general_fail", "unmarked", "unknown_command", "write_protect"} : Done(st)
    <3>1. PICK st \in {"general_fail", "unmarked", "unknown_command", "write_protect"} : Done(st)
      BY <2>3
    <3>2. request'.pc = "done" /\ request'.status = st
      BY <3>1 DEF Done, Requests
    <3> QED
      BY <3>2 DEF Undisturbed, Truthful
  <2> QED
    BY <1>4, <2>2, <2>3 DEF Interrupt, Refusals
<1>5. CASE MediaTimes \/ MediaSlots \/ BuildBpb
  <2>1. request'.pc \in {"slots", "done"} /\ request'.fn \in {"media", "bpb"}
    BY <1>5 DEF MediaTimes, MediaSlots, BuildBpb, At, Done, Told, Requests
  <2> QED
    BY <2>1 DEF Undisturbed, Truthful
<1>6. CASE LoopEnds
  <2>1. CASE Stopped
    <3>1. request.pc = "transfer" /\ written' = written
      BY <1>6 DEF LoopEnds, Transfers
    <3>2. Truthful(request', written) /\ request'.pc = "done"
      BY <1>1, <2>1, <3>1, StoppedTrue
    <3> QED
      BY <3>1, <3>2 DEF Undisturbed
  <2>2. CASE Done("not_found")
    <3>1. request'.pc = "done" /\ request'.status = "not_found"
      BY <2>2 DEF Done, Requests
    <3> QED
      BY <3>1 DEF Undisturbed, Truthful
  <2> QED
    BY <1>6, <2>1, <2>2 DEF LoopEnds
<1> QED
  BY <1>2, <1>3, <1>4, <1>5, <1>6 DEF DriverStep, Disk

(* Every step.                                                             *)
LEMMA TransferHolds == Typed /\ Entered /\ TransferInv /\ [Next]_vars => TransferInv'
<1> SUFFICES ASSUME Typed, Entered, TransferInv, [Next]_vars PROVE TransferInv'
  OBVIOUS
<1>1. CASE DriverStep
  BY <1>1, DriverTransfers DEF Typed, DiskTyped, RequestTyped
<1>2. CASE ~DriverStep
  <2>1. UNCHANGED <<request, written>> /\ (InDriver => line' = line)
    BY <1>2, OutsideDriver
  <2> QED
    BY <2>1 DEF TransferInv, Undisturbed, InDriver
<1> QED
  BY <1>1, <1>2

(* A read or write in which no answer to an earlier call was about is of    *)
(* the sectors asked for, in order, as many as it claims (TransferTrue),    *)
(* whatever disks come and go meanwhile and whatever the line loses.        *)
THEOREM TransfersTrue == Spec => []TransferTrue
<1>1. Init => TransferInv
  BY DEF Init, NoRequest, TransferInv, Undisturbed, Truthful
<1>2. TransferInv => TransferTrue
  BY TruthfulIsTransferTrue DEF TransferInv
<1> QED
  BY <1>1, <1>2, TypesHold, EnteredHolds, TransferHolds, PTL DEF Spec

-----------------------------------------------------------------------------
(* The change of a disk.  The invariant: what the driver keeps as a unit's *)
(* mount time is that of the disk whose BPB DOS uses, or DOS is to be told  *)
(* (the time is of no disk, or no longer that of the disk in the slot, or   *)
(* the check under way has seen another one before), or the time changed   *)
(* where DOS did not learn of it.                                          *)

Settled(u) ==
    \/ u \in doubt \/ dos[u] \in {Unread, mountStatus[u]}
    \/ mountStatus[u] \in {None, Unread} \/ mountStatus[u] # medium[u]
Checks(u) ==
    \/ u \in doubt \/ dos[u] \in {Unread, mountStatus[u]}
    \/ mountStatus[u] = None \/ mountStatus[u] # request.old
SeenInv ==
    /\ \A u \in Units : Settled(u) \/ (At("media", "slots") /\ u = request.unit)
    /\ At("media", "times") => request.old = mountStatus[request.unit]
    /\ At("media", "slots") => Checks(request.unit)
    /\ ~At("media", "transfer")
    /\ ChangeSeen

(* A frame that is disowned, or refuses, is that.                          *)
LEMMA FrameParts ==
    ASSUME NEW m, NEW f \in Frames(m)
    PROVE  /\ [f EXCEPT !.own = FALSE].own = FALSE
           /\ [f EXCEPT !.ok = FALSE, !.data = Ack].ok = FALSE /\ [f EXCEPT !.ok = FALSE, !.data = Ack].own = f.own
<1> SUFFICES ASSUME NEW D, NEW X, f \in FramesOf(D, X)
             PROVE  /\ [f EXCEPT !.own = FALSE].own = FALSE
                    /\ [f EXCEPT !.ok = FALSE, !.data = Ack].ok = FALSE
                    /\ [f EXCEPT !.ok = FALSE, !.data = Ack].own = f.own
  BY DEF Frames, FujiFrames, DiskFrames, NetFrames, PrinterFrames
<1> QED
  BY DEF FramesOf

(* An answer that is accepted and belongs to the request is the answer to   *)
(* it, whatever else is on the line.                                       *)
LEMMA OwnExchange ==
    ASSUME BusTyped, Up, NEW ans \in Frames(mounted), NEW dev, NEW kind, NEW able,
           NEW o \in Exchange(dev, kind, ans, able), o.ok, ~Late(o)
    PROVE  o.got = ans
<1> DEFINE F == Frames(mounted)
           S == {f \in F : f.own /\ f.ok => f = ans}
           no == [ans EXCEPT !.ok = FALSE, !.data = Ack]
<1>1. line \in Seq(F) /\ Len(line) <= MaxLine /\ MaxLine \in Nat
  BY BusCallAssumption DEF BusTyped
<1>2. ans \in S /\ no \in S
  BY FrameParts, FramesKeep DEF Closed
<1>3. Disowned(line) \in Seq(F) /\ Len(Disowned(line)) = Len(line)
  <2>1. Closed(F)
    BY FramesKeep
  <2> HIDE DEF F
  <2> QED
    BY <1>1, <2>1, DisownedKeeps
<1>4. Disowned(line) \in Seq(S)
  <2>1. ASSUME NEW i \in DOMAIN Disowned(line) PROVE Disowned(line)[i] \in S
    <3>1. i \in DOMAIN line /\ Disowned(line)[i] = [line[i] EXCEPT !.own = FALSE]
      BY DEF Disowned
    <3>2. line[i] \in F
      BY <1>1, <3>1, ElementOf
    <3>3. Disowned(line)[i].own = FALSE /\ Disowned(line)[i] \in F
      <4>1. [line[i] EXCEPT !.own = FALSE].own = FALSE
        BY <3>2, FrameParts
      <4>2. [line[i] EXCEPT !.own = FALSE] \in F
        BY <3>2, FramesKeep DEF Closed
      <4> QED
        BY <3>1, <4>1, <4>2
    <3> QED
      BY <3>3
  <2> HIDE DEF F, S
  <2> QED
    BY <1>3, <2>1, SeqOver
<1>5. o.got \in S \cup {Nothing, Damaged} /\ Accepts(o.got, dev, kind)
  <2>1. AnswersOf(S, ans)
    BY <1>1, <1>2, <1>3, <1>4 DEF AnswersOf
  <2> HIDE DEF S
  <2> QED
    BY <2>1, ExchangedOf DEF OutcomeOf
<1>6. o.got.whole /\ o.got.ok /\ ~Nothing.whole /\ ~Damaged.whole
  BY <1>5 DEF Accepts, Nothing, Damaged
<1>7. o.got \in S /\ o.got # Nothing
  BY <1>5, <1>6
<1> QED
  BY <1>6, <1>7 DEF Late

(* Only the mount times, what DOS uses, the doubts and the request say      *)
(* whether a check told the truth; a disk of which DOS knows nothing may go *)
(* and another one come.                                                   *)
LEMMA SeenElsewhere ==
    ASSUME DiskTyped, SeenInv, UNCHANGED <<mountStatus, request, dos, doubt>>,
           \/ UNCHANGED medium
           \/ \E u \in Units : \E d \in {None, mounted + 1} : medium' = [medium EXCEPT ![u] = d]
    PROVE  SeenInv'
<1>1. ASSUME NEW v \in Units, Settled(v) PROVE Settled(v)'
  <2>1. CASE UNCHANGED medium
    BY <1>1, <2>1 DEF Settled
  <2>2. ASSUME NEW u \in Units, NEW d \in {None, mounted + 1}, medium' = [medium EXCEPT ![u] = d]
        PROVE  Settled(v)'
    <3>1. medium'[v] = medium[v] \/ medium'[v] = None \/ medium'[v] = mounted + 1
      BY <2>2 DEF DiskTyped
    <3>2. mountStatus[v] \in -1..mounted /\ mounted \in Nat
      BY FirmwareDiskAssumption DEF DiskTyped
    <3>3. mountStatus[v] # mounted + 1
      BY <3>2
    <3> QED
      BY <1>1, <3>1, <3>3 DEF Settled
  <2> QED
    BY <2>1, <2>2
<1>2. UNCHANGED <<ChangeSeen, At("media", "slots"), At("media", "times"), At("media", "transfer"), Checks(request.unit)>>
  BY DEF ChangeSeen, At, Checks
<1> QED
  BY <1>1, <1>2 DEF SeenInv

(* A request begins, ends otherwise than well, or is not a media check.     *)
LEMMA SeenUntold ==
    ASSUME SeenInv, ~At("media", "slots"), UNCHANGED <<mountStatus, dos, doubt, medium>>,
           ~At("media", "slots")', At("media", "times")' => request'.old = mountStatus[request'.unit],
           At("media", "done")' => request'.status # "ok", ~At("media", "transfer")'
    PROVE  SeenInv'
<1>1. \A v \in Units : Settled(v)'
  BY DEF SeenInv, Settled
<1>2. ChangeSeen'
  BY DEF ChangeSeen
<1> QED
  BY <1>1, <1>2 DEF SeenInv

(* The first exchange of a media check replaces all mount times.           *)
LEMMA TimesSeen ==
    ASSUME BusTyped, DiskTyped, Up, SeenInv, MediaTimes
    PROVE  SeenInv'
<1>0. PICK u \in Units : u = request.unit
  BY DEF MediaTimes, At, DiskTyped, RequestTyped, Asked
<1> DEFINE ans == Answer(Device("fuji"), TRUE, Data("times", medium))
<1>1. PICK o \in Exchange(Device("fuji"), "times", ans, TRUE) :
        /\ mountStatus' = Times(o)
        /\ doubt' = doubt \cup {v \in Units \ {u} : mountStatus'[v] # mountStatus[v]}
                          \cup (IF Late(o) \/ (~o.ok /\ mountStatus' # mountStatus) THEN {u} ELSE {})
        /\ IF o.ok THEN request' = [request EXCEPT !.pc = "slots"] ELSE Done("not_ready")
  BY <1>0 DEF MediaTimes
<1>2. /\ request.pc = "times" /\ request.fn = "media" /\ request \in Requests
      /\ medium' = medium /\ dos' = dos
  BY DEF MediaTimes, At, DiskTyped, RequestTyped, fujinet
<1>3. /\ request'.unit = u /\ request'.fn = "media" /\ request'.old = request.old
      /\ o.ok => request'.pc = "slots"
      /\ ~o.ok => request'.pc = "done" /\ request'.status = "not_ready"
  BY <1>0, <1>1, <1>2 DEF Done, Requests
<1>4. Settled(u) /\ request.old = mountStatus[u] /\ \A v \in Units : Settled(v)
  BY <1>0, <1>2 DEF SeenInv, At
<1>5. ASSUME NEW v \in Units, mountStatus'[v] = mountStatus[v] PROVE Settled(v)'
  BY <1>1, <1>2, <1>4, <1>5 DEF Settled
<1>6. ASSUME NEW v \in Units \ {u} PROVE Settled(v)'
  BY <1>1, <1>5, <1>6 DEF Settled
<1>7. CASE ~o.ok
  <2>1. Settled(u)'
    BY <1>1, <1>2, <1>5, <1>7 DEF Settled
  <2> QED
    BY <1>2, <1>3, <1>6, <1>7, <2>1 DEF SeenInv, At, ChangeSeen
<1>8. CASE o.ok
  <2>1. ASSUME ~Late(o) PROVE mountStatus' = medium
    <3>1. ans \in Frames(mounted)
      BY AnswersAreFrames DEF DiskTyped
    <3> HIDE DEF ans
    <3>2. o.got = ans
      BY <1>8, <2>1, <3>1, OwnExchange
    <3>3. o.got.data.kind = "times" /\ o.got.data.val = medium
      BY <3>2 DEF ans, Answer, Data
    <3>4. o.got.data # Junk
      BY <3>3 DEF Junk, Data
    <3> QED
      BY <1>1, <3>3, <3>4 DEF Times, Decoded
  <2>2. Checks(u)'
    <3>1. CASE Late(o) \/ u \in doubt
      BY <1>1, <3>1 DEF Checks
    <3>2. CASE ~Late(o) /\ u \notin doubt
      <4>1. mountStatus' = medium /\ medium[u] # Unread
        BY <1>2, <2>1, <3>2, FirmwareDiskAssumption DEF DiskTyped, Unread
      <4> QED
        BY <1>2, <1>3, <1>4, <3>2, <4>1 DEF Settled, Checks
    <3> QED
      BY <3>1, <3>2
  <2> QED
    BY <1>3, <1>6, <1>8, <2>2 DEF SeenInv, At, ChangeSeen
<1> QED
  BY <1>7, <1>8

(* The second exchange, after which DOS is told.                           *)
LEMMA SlotsSeen ==
    ASSUME DiskTyped, SeenInv, MediaSlots
    PROVE  SeenInv'
<1>0. PICK u \in Units : u = request.unit
  BY DEF MediaSlots, At, DiskTyped, RequestTyped, Asked
<1>1. PICK o : IF o.ok THEN Told(MediaInfo) /\ doubt' = doubt
               ELSE /\ Done("not_ready") /\ dos' = dos
                    /\ doubt' = IF mountStatus[u] # request.old THEN doubt \cup {u} ELSE doubt
  BY <1>0 DEF MediaSlots
<1>2. /\ request.pc = "slots" /\ request.fn = "media" /\ request \in Requests
      /\ medium' = medium /\ mountStatus' = mountStatus /\ dos \in [Units -> -1..Len(Sectors)]
  BY DEF MediaSlots, At, DiskTyped, RequestTyped, fujinet
<1>3. Checks(u) /\ \A v \in Units \ {u} : Settled(v)
  BY <1>0, <1>2 DEF SeenInv, At
<1>4. CASE o.ok
  <2>1. /\ request'.pc = "done" /\ request'.info = MediaInfo /\ request'.unit = u
        /\ dos' = IF MediaInfo = 1 THEN dos ELSE [dos EXCEPT ![u] = Unread]
    BY <1>0, <1>1, <1>2, <1>4 DEF Told, Requests
  <2>2. MediaInfo = 1 => mountStatus[u] # None /\ mountStatus[u] = request.old
    BY <1>0 DEF MediaInfo
  <2>3. u \in doubt' \/ dos'[u] \in {Unread, mountStatus'[u]}
    BY <1>1, <1>2, <1>3, <1>4, <2>1, <2>2 DEF Checks
  <2>4. \A v \in Units \ {u} : dos'[v] = dos[v]
    BY <1>2, <2>1
  <2>5. \A v \in Units : Settled(v)'
    BY <1>1, <1>2, <1>3, <1>4, <2>3, <2>4 DEF Settled
  <2> QED
    BY <2>1, <2>3, <2>5 DEF SeenInv, At, ChangeSeen
<1>5. CASE ~o.ok
  <2>1. request'.pc = "done" /\ request'.status = "not_ready"
    BY <1>1, <1>2, <1>5 DEF Done, Requests
  <2>2. \A v \in Units : Settled(v)'
    BY <1>1, <1>2, <1>3, <1>5 DEF Settled, Checks
  <2> QED
    BY <2>1, <2>2 DEF SeenInv, At, ChangeSeen
<1> QED
  BY <1>4, <1>5

(* DOS uses the BPB of the disk whose boot sector was read.                *)
LEMMA BpbSeen ==
    ASSUME BusTyped, DiskTyped, Up, SeenInv, BuildBpb
    PROVE  SeenInv'
<1>0. PICK u \in Units : u = request.unit
  BY DEF BuildBpb, At, DiskTyped, RequestTyped, Asked
<1> DEFINE asked == Data("sector", Sector(medium[u], 0))
           d(o) == Decoded(o.got, "sector", Data("sector", NoSector))
<1>1. PICK o \in SectorExchange(u, 0, "sector", asked) :
        IF ~o.ok THEN Done("read_fault") /\ UNCHANGED <<dos, doubt>>
        ELSE /\ Done("ok")
             /\ dos' = [dos EXCEPT ![u] = d(o).val.disk]
             /\ doubt' = IF Late(o) THEN doubt \cup {u} ELSE doubt \ {u}
  BY <1>0 DEF BuildBpb
<1>2. /\ request.pc = "boot" /\ request.fn = "bpb" /\ request \in Requests
      /\ medium' = medium /\ mountStatus' = mountStatus /\ dos \in [Units -> -1..Len(Sectors)]
  BY DEF BuildBpb, At, DiskTyped, RequestTyped, fujinet
<1>3. request'.pc = "done" /\ request'.fn = "bpb"
  BY <1>1, <1>2 DEF Done, Requests
<1>4. CASE ~o.ok
  BY <1>1, <1>2, <1>3, <1>4, SeenUntold DEF At
<1>5. CASE o.ok
  <2>1. /\ \A v \in Units \ {u} : dos'[v] = dos[v] /\ (v \in doubt' <=> v \in doubt)
        /\ dos'[u] = d(o).val.disk
    BY <1>1, <1>2, <1>5
  <2>2. Settled(u)'
    <3>1. CASE Late(o)
      BY <1>1, <1>5, <3>1 DEF Settled
    <3>2. CASE ~Late(o)
      <4> DEFINE ans == Answer(DiskOf(u), TRUE, asked)
      <4>1. PICK able : o \in Exchange(DiskOf(u), "sector", ans, able)
        BY DEF SectorExchange
      <4>2. ans \in Frames(mounted)
        <5>1. Sector(medium[u], 0) \in SectorsRead
          BY <1>2, FirmwareDiskAssumption DEF DiskTyped, SectorsRead, Sector
        <5> QED
          BY <1>2, <5>1, AnswersAreFrames
      <4> HIDE DEF ans
      <4>3. o.got = ans
        BY <1>5, <3>2, <4>1, <4>2, OwnExchange
      <4>4. d(o).val.disk = medium[u]
        BY <4>3 DEF ans, Answer, Decoded, Data, Sector
      <4> QED
        BY <1>2, <2>1, <4>4 DEF Settled
    <3> QED
      BY <3>1, <3>2
  <2>3. \A v \in Units : Settled(v)'
    BY <1>2, <2>1, <2>2 DEF Settled, SeenInv, At
  <2> QED
    BY <1>3, <2>3 DEF SeenInv, At, ChangeSeen
<1> QED
  BY <1>4, <1>5

(* The driver's steps.                                                     *)
LEMMA DriverSees ==
    ASSUME BusTyped, DiskTyped, SeenInv, DriverStep
    PROVE  SeenInv'
<1>1. CASE Dos
  <2>1. PICK fn, u, s, n : Strategy(fn, u, s, n)
    BY <1>1 DEF Dos
  <2>2. request.pc = "done" /\ request'.pc = "interrupt" /\ UNCHANGED <<mountStatus, dos, doubt, medium>>
    BY <2>1 DEF Strategy, NoRequest, fujinet, driver
  <2> QED
    BY <2>2, SeenUntold DEF At
<1>2. CASE Interrupt
  <2>1. request.pc = "interrupt" /\ UNCHANGED <<mountStatus, dos, doubt, medium>> /\ request \in Requests
    BY <1>2 DEF Interrupt, fujinet, driver, DiskTyped, RequestTyped
  <2>2. \/ \E pc \in {"times", "boot", "transfer"} : Goes(pc) /\ (request.fn = "media" => pc = "times")
        \/ \E st \in {"general_fail", "unmarked", "unknown_command", "write_protect"} : Done(st)
    BY <1>2 DEF Interrupt, Refusals
  <2>3. ASSUME NEW pc \in {"times", "boot", "transfer"}, Goes(pc), request.fn = "media" => pc = "times"
        PROVE  SeenInv'
    <3>1. request'.pc = pc /\ request'.old = mountStatus[request'.unit] /\ request'.fn = request.fn
      BY <2>1, <2>3 DEF Goes, Requests
    <3> QED
      BY <2>1, <2>3, <3>1, SeenUntold DEF At
  <2>4. ASSUME NEW st \in {"general_fail", "unmarked", "unknown_command", "write_protect"}, Done(st)
        PROVE  SeenInv'
    <3>1. request'.pc = "done" /\ request'.status # "ok"
      BY <2>1, <2>4 DEF Done, Requests
    <3> QED
      BY <2>1, <3>1, SeenUntold DEF At
  <2> QED
    BY <2>2, <2>3, <2>4
<1>3. CASE MediaTimes
  BY <1>3, TimesSeen DEF DriverStep
<1>4. CASE MediaSlots
  BY <1>4, SlotsSeen
<1>5. CASE BuildBpb
  BY <1>5, BpbSeen DEF DriverStep
<1>6. CASE LoopEnds \/ InputSector \/ OutputSector
  <2>1. /\ request.pc = "transfer" /\ UNCHANGED <<mountStatus, dos, doubt, medium>> /\ request \in Requests
        /\ request.fn # "media"
    BY <1>6 DEF LoopEnds, InputSector, OutputSector, Transfers, fujinet, driver, DiskTyped, RequestTyped, SeenInv, At
  <2>2. request'.pc \in {"transfer", "done"} /\ request'.fn # "media"
    BY <1>6, <2>1 DEF LoopEnds, InputSector, OutputSector, NextSector, Stopped, Done, Requests
  <2> QED
    BY <2>1, <2>2, SeenUntold DEF At
<1> QED
  BY <1>1, <1>2, <1>3, <1>4, <1>5, <1>6 DEF DriverStep, Disk

(* Every step.                                                             *)
LEMMA SeenHolds == Typed /\ Entered /\ SeenInv /\ [Next]_vars => SeenInv'
<1> SUFFICES ASSUME Typed, Entered, SeenInv, [Next]_vars PROVE SeenInv'
  OBVIOUS
<1>1. CASE DriverStep
  BY <1>1, DriverSees DEF Typed
<1>2. CASE ~DriverStep
  BY <1>2, OutsideDriver, SeenElsewhere DEF Typed
<1> QED
  BY <1>1, <1>2

(* DOS is told that a disk did not change only while it uses the BPB of     *)
(* that disk, or where the driver replaced the mount time unseen            *)
(* (ChangeSeen), whatever disks come and go between the calls.             *)
THEOREM ChangesSeen == Spec => []ChangeSeen
<1>1. Init => SeenInv
  <2> SUFFICES ASSUME Init PROVE SeenInv
    OBVIOUS
  <2>1. request = NoRequest /\ dos = [u \in Units |-> Unread]
    BY DEF Init
  <2> QED
    BY <2>1 DEF SeenInv, Settled, At, ChangeSeen, NoRequest
<1>2. SeenInv => ChangeSeen
  BY DEF SeenInv
<1> QED
  BY <1>1, <1>2, EnteredHolds, SeenHolds, TypesHold, PTL DEF Spec

-----------------------------------------------------------------------------
(* The pieces of a file.  The invariant follows NGET's call: while nothing  *)
(* went wrong unseen, an answer on the line that is its own and well says   *)
(* what the stream is, counted from what the file already holds, and once  *)
(* it is received the tool's variables hold what it says.                  *)

Calm == tool.name = "nget" /\ rough = {}

\* The answer f of a stream s to step pc, when n pieces are written and w are
\* asked for.
TrueFrame(f, pc, s, n, w) ==
    f.own /\ f.ok =>
        /\ pc = "open" => s.of = "file" /\ s.read = 0
        /\ pc \in {"first", "status"} =>
              /\ f.data.kind = "status" /\ f.data.val.bw <= s.come - s.read
              /\ f.data.val.bw = 0 => (f.data.val.error = EndOfFile <=> s.read = Pieces)
        /\ pc = "read" =>
              /\ f.data.kind = "chunk" /\ Len(f.data.val) = w /\ s.read = n + w
              /\ \A i \in 1..w : f.data.val[i] = n + i
Heard(f, pc, st, b, w) ==
    f.own /\ f.ok =>
        /\ pc \in {"first", "status"} => st = f.data.val
        /\ pc = "read" => \A i \in 1..w : b[i] = f.data.val[i]

ToolStands ==
    /\ Prefix(file)
    /\ tool.pc = "done" /\ tool.result = 0 => Len(file) = Pieces
    /\ tool.pc = "spin" => Len(file) < Pieces
    /\ tool.pc = "open" => file = << >>
    /\ tool.pc \in {"first", "status", "read"} => stream.of = "file"
    /\ tool.pc \in {"first", "status"} => stream.read = Len(file)
    /\ tool.pc = "read" => bw > 0
    /\ tool.pc = "close" => Len(file) = Pieces
BeforeRead == tool.pc = "read" => stream.read = Len(file) /\ bw <= Waiting
CallStands ==
    /\ ~Idle => call.fresh
    /\ call.phase \in {"none", "built"} => BeforeRead
    /\ call.phase = "built" => \A i \in DOMAIN line : ~line[i].own
    /\ call.phase = "sent" => \A i \in DOMAIN line : TrueFrame(line[i], tool.pc, stream, Len(file), bw)
    /\ call.phase = "received" => /\ TrueFrame(call.got, tool.pc, stream, Len(file), bw)
                                  /\ Heard(call.got, tool.pc, status, buf, bw)
FileInv == Calm => ToolStands /\ CallStands

(* The invariant gives the property.                                       *)
LEMMA FileInvGivesFileTrue == FileInv => FileTrue
BY DEF FileInv, Calm, ToolStands, FileTrue

(* What does not touch the tool, nor its call.                             *)
LEMMA FileUntouched ==
    ASSUME FileInv, UNCHANGED <<transfer, call>>, Idle \/ UNCHANGED line
    PROVE  FileInv'
<1>1. UNCHANGED <<Calm, ToolStands, Idle, BeforeRead, bw>>
  BY DEF transfer, Calm, ToolStands, Idle, BeforeRead, bw, Waiting
<1>2. Calm /\ CallStands => CallStands'
  <2>1. CASE Idle
    BY <1>1, <2>1 DEF CallStands, Idle
  <2>2. CASE UNCHANGED line
    BY <1>1, <2>2 DEF CallStands, transfer
  <2> QED
    BY <2>1, <2>2
<1> QED
  BY <1>1, <1>2 DEF FileInv

(* More of the stream comes.                                               *)
LEMMA ArrivesTrue ==
    ASSUME Typed, FileInv, Arrives, UNCHANGED bus
    PROVE  FileInv'
<1>1. /\ UNCHANGED <<tool, status, buf, file, rough, line, call>>
      /\ stream'.of = stream.of /\ stream'.read = stream.read /\ stream'.come = stream.come + 1
      /\ stream.come \in Nat /\ stream.read \in Nat
  BY DEF Arrives, bus, Typed, ToolTyped
<1>2. UNCHANGED <<Calm, Idle, bw>> /\ bw \in Nat /\ Waiting \in Nat /\ Waiting' = Waiting + 1
  BY <1>1, LengthFits, TransferAssumption DEF Calm, Idle, bw, Waiting, Typed
<1>3. ASSUME NEW f, f.own /\ f.ok /\ f.data.kind = "status" => f.data.val.bw \in Nat,
             TrueFrame(f, tool.pc, stream, Len(file), bw)
      PROVE  TrueFrame(f, tool.pc, stream', Len(file), bw)
  BY <1>1, <1>3 DEF TrueFrame
<1>4. ASSUME NEW f \in Frames(mounted) \cup {Nothing, Damaged}
      PROVE  f.own /\ f.ok /\ f.data.kind = "status" => f.data.val.bw \in Nat
  <2>1. CASE f \in Frames(mounted)
    BY <2>1, FrameHolds DEF Statuses
  <2>2. CASE f \in {Nothing, Damaged}
    BY <2>2 DEF Nothing, Damaged
  <2> QED
    BY <2>1, <2>2
<1>5. ToolStands => ToolStands'
  BY <1>1, <1>2 DEF ToolStands
<1>6. ASSUME Calm, CallStands PROVE CallStands'
  <2>1. BeforeRead => BeforeRead'
    BY <1>1, <1>2 DEF BeforeRead
  <2>2. ASSUME call.phase = "sent", NEW i \in DOMAIN line PROVE TrueFrame(line[i], tool.pc, stream', Len(file), bw)
    <3>1. ~(boot # "up") \/ Idle
      BY DEF Typed, BusTyped, Up
    <3>2. line[i] \in Frames(mounted)
      BY <2>2, <3>1, ElementOf DEF Typed, BusTyped, Up, Idle
    <3> QED
      BY <1>3, <1>4, <1>6, <2>2, <3>2 DEF CallStands
  <2>3. ASSUME call.phase = "received" PROVE TrueFrame(call.got, tool.pc, stream', Len(file), bw)
    <3>1. call.got \in Frames(mounted) \cup {Nothing, Damaged}
      BY DEF Typed, BusTyped, Calls
    <3> QED
      BY <1>3, <1>4, <1>6, <2>3, <3>1 DEF CallStands
  <2> QED
    BY <1>1, <1>2, <1>6, <2>1, <2>2, <2>3 DEF CallStands
<1> QED
  BY <1>1, <1>2, <1>5, <1>6 DEF FileInv

(* A set of frames of which those that are own and well have a property is  *)
(* closed, whatever the property.                                          *)
LEMMA FramesThatClose ==
    ASSUME NEW m, NEW X, \A f \in Frames(m) : f \in X \/ (f.own /\ f.ok)
    PROVE  Closed(Frames(m) \cap X)
<1>1. Closed(Frames(m))
  BY FramesKeep
<1>2. ASSUME NEW f \in Frames(m)
      PROVE  [f EXCEPT !.own = FALSE] \in Frames(m) \cap X /\ [f EXCEPT !.ok = FALSE, !.data = Ack] \in Frames(m) \cap X
  <2>1. [f EXCEPT !.own = FALSE].own = FALSE /\ [f EXCEPT !.ok = FALSE, !.data = Ack].ok = FALSE
    BY FrameParts
  <2>2. [f EXCEPT !.own = FALSE] \in Frames(m) /\ [f EXCEPT !.ok = FALSE, !.data = Ack] \in Frames(m)
    BY <1>1 DEF Closed
  <2> QED
    BY <2>1, <2>2
<1> QED
  BY <1>2 DEF Closed

(* The printer's exchange takes answers away, or leaves some of its own.   *)
LEMMA TickTrue ==
    ASSUME Typed, Up, FileInv, PrinterTick, UNCHANGED transfer
    PROVE  FileInv'
<1> DEFINE F == Frames(mounted)
           Foreign == {f \in F : ~f.own}
           Trues == {f \in F : TrueFrame(f, tool.pc, stream, Len(file), bw)}
<1>1. UNCHANGED <<Calm, ToolStands, BeforeRead, bw, tool, stream, status, buf, file>>
  BY DEF transfer, Calm, ToolStands, BeforeRead, bw, Waiting
<1>2. call' = [call EXCEPT !.alone = FALSE] /\ call \in Calls(mounted)
  BY DEF PrinterTick, Typed, BusTyped
<1>3. call'.phase = call.phase /\ call'.fresh = call.fresh /\ call'.got = call.got
  BY <1>2 DEF Calls
<1>4. /\ line \in Seq(F) /\ Len(line) <= MaxLine /\ MaxLine \in Nat /\ PrinterAnswer \in F
  BY BusCallAssumption, AnswersAreFrames DEF Typed, BusTyped
<1>5. PrinterAnswer \in Foreign /\ PrinterAnswer \in Trues
  BY <1>4, AnswersHaveFields DEF PrinterAnswer, Answer, TrueFrame
<1>6. Closed(Foreign)
  BY FrameParts, FramesKeep DEF Closed
<1>7. Closed(Trues)
  <2>1. \A f \in F : f \in Trues \/ (f.own /\ f.ok)
    BY DEF TrueFrame
  <2>2. F \cap Trues = Trues
    OBVIOUS
  <2> HIDE DEF Trues
  <2> QED
    BY <2>1, <2>2, FramesThatClose
<1>8. ASSUME Calm, CallStands, call.phase = "built" PROVE \A i \in DOMAIN line' : ~line'[i].own
  <2>1. \A i \in DOMAIN line : line[i] \in Foreign
    BY <1>4, <1>8, ElementOf DEF CallStands
  <2> HIDE DEF F, Foreign
  <2>2. line \in Seq(Foreign)
    BY <1>4, <2>1, SeqOver
  <2>3. line' \in Seq(Foreign)
    BY <1>4, <1>5, <1>6, <2>2, TickKeeps
  <2>4. \A i \in DOMAIN line' : line'[i] \in Foreign
    BY <2>3, ElementOf
  <2> QED
    BY <2>4 DEF Foreign
<1>9. ASSUME Calm, CallStands, call.phase = "sent"
      PROVE  \A i \in DOMAIN line' : TrueFrame(line'[i], tool.pc, stream, Len(file), bw)
  <2>1. \A i \in DOMAIN line : line[i] \in Trues
    BY <1>4, <1>9, ElementOf DEF CallStands
  <2> HIDE DEF F, Trues
  <2>2. line \in Seq(Trues)
    BY <1>4, <2>1, SeqOver
  <2>3. line' \in Seq(Trues)
    BY <1>4, <1>5, <1>7, <2>2, TickKeeps
  <2>4. \A i \in DOMAIN line' : line'[i] \in Trues
    BY <2>3, ElementOf
  <2> QED
    BY <2>4 DEF Trues
<1>10. Calm /\ CallStands => CallStands'
  BY <1>1, <1>3, <1>8, <1>9 DEF CallStands, Idle
<1> QED
  BY <1>1, <1>10 DEF FileInv

(* What a new call of INT F5h changes: the line has only answers to earlier *)
(* calls, of which there are none if nothing goes wrong unseen.            *)
LEMMA AsksTrue ==
    ASSUME Typed, Up, FileInv, NgetAsks
    PROVE  FileInv'
<1>1. SUFFICES ASSUME Calm' PROVE (ToolStands /\ CallStands)'
  BY DEF FileInv
<1>2. /\ UNCHANGED <<tool, status, buf, file, stream>> /\ Idle /\ line' = Disowned(line)
      /\ call' = [NoCall EXCEPT !.phase = "built", !.dev = Device("net"), !.kind = Kind(tool.pc),
                               !.fresh = line = << >>]
      /\ rough' = IF line # << >> THEN rough \cup {"late"} ELSE rough
  BY DEF NgetAsks, BuildFrame
<1>3. line = << >> /\ rough = {} /\ tool.name = "nget"
  BY <1>1, <1>2 DEF Calm
<1>4. call'.phase = "built" /\ call'.fresh = TRUE
  <2> DEFINE fresh == line = << >>
  <2>1. fresh = TRUE
    BY <1>3
  <2>2. call' = [NoCall EXCEPT !.phase = "built", !.dev = Device("net"), !.kind = Kind(tool.pc), !.fresh = fresh]
    BY <1>2
  <2> HIDE DEF fresh
  <2> QED
    BY <2>1, <2>2 DEF NoCall
<1>5. ToolStands /\ BeforeRead
  BY <1>2, <1>3 DEF FileInv, Calm, CallStands, Idle
<1>6. ToolStands' /\ BeforeRead'
  BY <1>2, <1>5 DEF ToolStands, BeforeRead, bw, Waiting
<1>7. DOMAIN line' = {}
  BY <1>2, <1>3 DEF Disowned
<1> QED
  BY <1>4, <1>6, <1>7 DEF CallStands, Idle

(* The answer the FujiNet gives to what NGET asks for is true of the stream *)
(* that the request leaves.                                                *)
LEMMA AnswerTrue ==
    ASSUME ToolTyped, ToolStands, BeforeRead, tool.pc \in Steps
    PROVE  TrueFrame(Reply(tool.pc), tool.pc, Effect(tool.pc), Len(file), bw)
<1>1. /\ stream.come \in Nat /\ stream.read \in Nat /\ stream.read <= stream.come
      /\ bw \in Nat /\ Length \in Nat /\ Pieces \in Nat /\ Len(file) \in Nat
  BY LengthFits, TransferAssumption DEF ToolTyped
<1>2. CASE tool.pc = "open"
  BY <1>2 DEF TrueFrame, Effect
<1>3. CASE tool.pc \in {"first", "status"}
  <2>1. /\ Reply(tool.pc).data.kind = "status" /\ Reply(tool.pc).data.val = StatusOf
        /\ Effect(tool.pc) = stream
    BY <1>3 DEF Reply, Answer, Data, Effect
  <2>2. stream.of = "file"
    BY <1>3 DEF ToolStands
  <2>3. StatusOf.bw = Waiting /\ Waiting = stream.come - stream.read
    BY <2>2 DEF StatusOf, Waiting
  <2>4. StatusOf.error = IF Waiting = 0 /\ stream.come = Pieces THEN EndOfFile ELSE 1
    BY <2>2 DEF StatusOf, Ended
  <2>5. Waiting = 0 => (StatusOf.error = EndOfFile <=> stream.read = Pieces)
    BY <1>1, <2>3, <2>4 DEF EndOfFile
  <2> QED
    BY <1>1, <1>3, <2>1, <2>3, <2>5 DEF TrueFrame
<1>4. CASE tool.pc = "read"
  <2>1. Length = bw /\ stream.read = Len(file) /\ stream.of = "file"
    BY <1>1, <1>4 DEF BeforeRead, ToolStands, Length, FewerOf, Waiting
  <2> DEFINE val == [i \in 1..Length |-> Content(stream.read + i)]
             d == Data("chunk", val)
             r == Reply(tool.pc)
  <2>2. r.data = d
    <3> HIDE DEF d
    <3> QED
      BY <1>4 DEF Reply, Answer, d
  <2>3. d.kind = "chunk" /\ d.val = val
    BY DEF Data
  <2>4. Len(val) = bw /\ \A i \in 1..bw : val[i] = Len(file) + i
    BY <1>1, <2>1 DEF Content
  <2>5. Effect(tool.pc).read = Len(file) + bw
    BY <1>4, <2>1 DEF Effect, ToolTyped
  <2> HIDE DEF val, d, r
  <2>6. TrueFrame(r, tool.pc, Effect(tool.pc), Len(file), bw)
    BY <1>4, <2>2, <2>3, <2>4, <2>5 DEF TrueFrame
  <2> QED
    BY <2>6 DEF r
<1>5. CASE tool.pc = "close"
  BY <1>5 DEF TrueFrame
<1> QED
  BY <1>2, <1>3, <1>4, <1>5 DEF Steps

(* The request goes out; the stream moves on if it is handled.             *)
LEMMA SendsTrue ==
    ASSUME Typed, Up, FileInv, NgetSends
    PROVE  FileInv'
<1>1. SUFFICES ASSUME Calm' PROVE (ToolStands /\ CallStands)'
  BY DEF FileInv
<1> DEFINE F == Frames(mounted)
           s == stream'
           Trues == {f \in F : TrueFrame(f, tool.pc, s, Len(file), bw)}
           ans == Reply(tool.pc)
           no == [ans EXCEPT !.ok = FALSE, !.data = Ack]
<1>2. PICK h \in Handlings(Reply(tool.pc)) :
        SendFrame(h) /\ stream' = IF h.done THEN Effect(tool.pc) ELSE stream
  BY DEF NgetSends
<1>3. /\ UNCHANGED <<tool, status, buf, file, rough, Calm, bw>> /\ call.phase = "built"
      /\ call' = [call EXCEPT !.phase = "sent"] /\ call \in Calls(mounted)
  BY <1>2 DEF NgetSends, SendFrame, Calm, bw, Typed, BusTyped
<1>4. call'.phase = "sent" /\ call'.fresh = call.fresh
  BY <1>3 DEF Calls
<1>5. ToolStands /\ BeforeRead /\ call.fresh /\ \A i \in DOMAIN line : ~line[i].own
  BY <1>1, <1>3 DEF FileInv, CallStands, Idle
<1>6. ToolTyped /\ tool.pc \in Steps
  BY <1>1, <1>3 DEF Typed, ToolTyped, Calm, Idle
<1>7. /\ stream'.of = "file" \/ tool.pc \notin {"first", "status", "read"}
      /\ stream'.read = stream.read \/ tool.pc \notin {"first", "status"}
  BY <1>2, <1>5, <1>6 DEF Effect, ToolStands, ToolTyped
<1>8. ToolStands'
  BY <1>3, <1>5, <1>7 DEF ToolStands
<1>9. line \in Seq(F) /\ ans \in F /\ Closed(F)
  BY <1>6, ReplyTyped, FramesKeep DEF Typed, BusTyped
<1>10. /\ h.sent \in {<< >>, <<ans>>, <<no>>}
       /\ h.sent = <<ans>> => h.done \/ ans = no
  <2> HIDE DEF F, ans
  <2> QED
    BY <1>2, <1>9, SentKeeps DEF ans
<1>11. no \in Trues
  <2>1. no \in F /\ no.ok = FALSE
    BY <1>9, FrameParts DEF Closed
  <2> QED
    BY <2>1 DEF TrueFrame
<1>12. h.sent = <<ans>> => ans \in Trues
  <2>1. CASE h.done
    <3>1. TrueFrame(ans, tool.pc, s, Len(file), bw)
      BY <1>2, <1>5, <1>6, <2>1, AnswerTrue
    <3> QED
      BY <1>9, <3>1
  <2>2. CASE h.sent = <<ans>> /\ ~h.done
    <3>1. ans = no
      BY <1>10, <2>2
    <3> HIDE DEF ans, no, Trues
    <3> QED
      BY <1>11, <3>1
  <2> QED
    BY <2>1, <2>2
<1>13. \A i \in DOMAIN line' : TrueFrame(line'[i], tool.pc, s, Len(file), bw)
  <2>1. \A i \in DOMAIN line : line[i] \in Trues
    BY <1>5, <1>9, ElementOf DEF TrueFrame
  <2>2. PICK l \in Flushed(line) : line' = l \o h.sent
    BY <1>2 DEF SendFrame
  <2> HIDE DEF F, Trues, ans, no
  <2>3. line \in Seq(Trues)
    BY <1>9, <2>1, SeqOver
  <2>4. l \in Seq(Trues)
    BY <2>3, FlushedKeeps
  <2>5. h.sent \in Seq(Trues)
    <3>1. << >> \in Seq(Trues) /\ <<no>> \in Seq(Trues) /\ (ans \in Trues => <<ans>> \in Seq(Trues))
      BY <1>11
    <3> QED
      BY <1>10, <1>12, <3>1
  <2>6. line' \in Seq(Trues)
    BY <2>2, <2>4, <2>5
  <2>7. \A i \in DOMAIN line' : line'[i] \in Trues
    BY <2>6, ElementOf
  <2> QED
    BY <2>7 DEF Trues
<1> QED
  BY <1>3, <1>4, <1>5, <1>8, <1>13 DEF CallStands, Idle

(* What comes in lies in the tool's variables.                             *)
LEMMA ReceivesTrue ==
    ASSUME Typed, Up, FileInv, NgetReceives
    PROVE  FileInv'
<1>1. SUFFICES ASSUME Calm' PROVE (ToolStands /\ CallStands)'
  BY DEF FileInv
<1> DEFINE F == Frames(mounted)
           Trues == {f \in F : TrueFrame(f, tool.pc, stream, Len(file), bw)}
<1>2. UNCHANGED <<tool, file, stream, rough, Calm>> /\ Receive /\ call.phase = "sent"
  BY DEF NgetReceives, Receive, Calm
<1>3. /\ line \in Seq(F) /\ Len(line) <= MaxLine /\ MaxLine \in Nat /\ call \in Calls(mounted) /\ ToolTyped
  BY BusCallAssumption DEF Typed, BusTyped
<1>4. ToolStands /\ call.fresh /\ \A i \in DOMAIN line : line[i] \in Trues
  BY <1>1, <1>2, <1>3, ElementOf DEF FileInv, CallStands, Idle
<1>5. PICK g \in Trues \cup {Nothing, Damaged} : call' = [call EXCEPT !.phase = "received", !.got = g]
  <2> HIDE DEF F, Trues
  <2>1. line \in Seq(Trues)
    BY <1>3, <1>4, SeqOver
  <2> QED
    BY <1>2, <1>3, <2>1, ReceiveKeeps
<1>6. call'.phase = "received" /\ call'.got = g /\ call'.fresh = call.fresh
  BY <1>3, <1>5 DEF Calls
<1>7. TrueFrame(g, tool.pc, stream, Len(file), bw)
  BY <1>5 DEF TrueFrame, Nothing, Damaged
<1>8. tool.pc = "read" => status' = status /\ bw' = bw
  BY <1>6 DEF NgetReceives, bw
<1>9. ToolStands'
  BY <1>2, <1>4, <1>8 DEF ToolStands
<1>10. TrueFrame(g, tool.pc, stream, Len(file), bw')
  BY <1>7, <1>8 DEF TrueFrame
<1>11. Heard(g, tool.pc, status', buf', bw')
  <2>1. CASE tool.pc \in {"first", "status"} /\ g.own /\ g.ok
    <3>1. g.data.kind = "status"
      BY <1>7, <2>1 DEF TrueFrame
    <3>2. status' = g.data.val
      BY <1>6, <2>1, <3>1 DEF NgetReceives
    <3> QED
      BY <2>1, <3>2 DEF Heard
  <2>2. CASE tool.pc = "read" /\ g.own /\ g.ok
    <3>1. g.data.kind = "chunk" /\ Len(g.data.val) = bw
      BY <1>7, <2>2 DEF TrueFrame
    <3>2. buf' = [i \in 1..Chunk |-> IF i <= Len(g.data.val) THEN g.data.val[i] ELSE buf[i]]
      BY <1>6, <2>2, <3>1 DEF NgetReceives
    <3>3. bw \in 0..Chunk /\ Chunk \in Nat
      BY <1>3, LengthFits, TransferAssumption
    <3>4. \A i \in 1..bw : buf'[i] = g.data.val[i]
      BY <3>1, <3>2, <3>3
    <3> QED
      BY <1>8, <2>2, <3>4 DEF Heard
  <2> QED
    BY <2>1, <2>2 DEF Heard
<1> QED
  BY <1>2, <1>4, <1>6, <1>9, <1>10, <1>11 DEF CallStands, Idle

(* A call that succeeds is the answer to NGET's own request, and true.     *)
LEMMA SuccessTrue ==
    ASSUME Typed, AnswerOwn, CallStands, CallSucceeds
    PROVE  LET f == call.got IN
           /\ f.own /\ f.ok
           /\ TrueFrame(f, tool.pc, stream, Len(file), bw) /\ Heard(f, tool.pc, status, buf, bw)
BY DEF AnswerOwn, CallStands, CallSucceeds, Idle, Accepts

(* After a status that was heard: NGET reads what waits, closes at the end, *)
(* or waits for ever for what has not come.                                *)
LEMMA LoopTrue ==
    ASSUME ToolTyped, ToolStands, tool.name = "nget", tool.pc \in {"first", "status"}, UNCHANGED <<status, file, stream>>,
           status.bw <= Waiting, status.bw = 0 => (status.error = EndOfFile <=> stream.read = Pieces), Loop
    PROVE  ToolStands' /\ BeforeRead'
<1> DEFINE pc == IF bw > 0 THEN "read" ELSE IF status.error = EndOfFile THEN "close" ELSE "spin"
<1>1. tool'.pc = pc
  <2>1. tool' = [tool EXCEPT !.pc = pc]
    BY DEF Loop, Go
  <2> HIDE DEF pc
  <2> QED
    BY <2>1 DEF ToolTyped
<1>2. /\ bw \in Nat /\ Waiting \in Nat /\ status.bw \in Nat /\ Chunk \in Nat \ {0} /\ Pieces \in Nat
      /\ Len(file) \in Nat /\ stream.read \in Nat /\ stream.come \in Nat
  BY LengthFits, TransferAssumption DEF ToolTyped, Statuses
<1>3. bw <= status.bw /\ (bw = 0 => status.bw = 0)
  BY <1>2 DEF bw, FewerOf
<1>4. UNCHANGED <<bw, Waiting>>
  BY DEF bw, Waiting
<1>5. stream.read = Len(file) /\ stream.of = "file" /\ stream.read <= stream.come /\ stream.come <= Pieces
      /\ Prefix(file)
  BY DEF ToolStands, ToolTyped
<1>6. CASE bw > 0
  BY <1>1, <1>2, <1>3, <1>4, <1>5, <1>6 DEF ToolStands, BeforeRead
<1>7. CASE bw = 0 /\ status.error = EndOfFile
  <2>1. tool'.pc = "close" /\ stream.read = Pieces
    BY <1>1, <1>3, <1>7
  <2> QED
    BY <1>5, <2>1 DEF ToolStands, BeforeRead
<1>8. CASE bw = 0 /\ status.error # EndOfFile
  <2>1. tool'.pc = "spin" /\ stream.read # Pieces
    BY <1>1, <1>3, <1>8
  <2> QED
    BY <1>2, <1>5, <2>1 DEF ToolStands, BeforeRead
<1> QED
  BY <1>2, <1>6, <1>7, <1>8

(* The length of two sequences joined.                                     *)
LEMMA JoinedLen ==
    ASSUME NEW T, NEW l \in Seq(T), NEW m \in Seq(T)
    PROVE  Len(l \o m) = Len(l) + Len(m)
OBVIOUS

(* What a read brought goes to the file.                                   *)
LEMMA CopiedTrue ==
    ASSUME ToolTyped, Prefix(file), NEW v, Len(v) = bw, \A i \in 1..bw : v[i] = Len(file) + i,
           \A i \in 1..bw : buf[i] = v[i]
    PROVE  LET new == file \o SubSeq(buf, 1, bw) IN Prefix(new) /\ Len(new) = Len(file) + bw
<1>1. bw \in 0..Chunk /\ Chunk \in Nat /\ Len(file) \in Nat /\ file \in Seq(0..Pieces)
  BY LengthFits, TransferAssumption DEF ToolTyped
<1>2. buf \in Seq(0..Pieces) /\ Len(buf) = Chunk
  <2> DEFINE T == 0..Pieces
  <2>1. buf \in [1..Chunk -> T] /\ Chunk \in Nat
    BY <1>1 DEF ToolTyped
  <2> HIDE DEF T
  <2>2. buf \in Seq(T) /\ Len(buf) = Chunk
    BY <2>1, FunctionSeq
  <2> QED
    BY <2>2 DEF T
<1> DEFINE new == SubSeq(buf, 1, bw)
<1>3. new \in Seq(0..Pieces) /\ Len(new) = bw /\ \A i \in 1..bw : new[i] = Len(file) + i
  BY <1>1, <1>2, FirstOf
<1> HIDE DEF new
<1>4. Len(file \o new) = Len(file) + bw
  <2> DEFINE T == 0..Pieces
  <2>1. file \in Seq(T) /\ new \in Seq(T)
    BY <1>1, <1>3
  <2> HIDE DEF T
  <2>2. Len(file \o new) = Len(file) + Len(new)
    BY <2>1, JoinedLen
  <2> QED
    BY <1>3, <2>2
<1>5. ASSUME NEW i \in DOMAIN (file \o new) PROVE (file \o new)[i] = i
  <2>1. CASE i <= Len(file)
    <3>1. i \in DOMAIN file /\ (file \o new)[i] = file[i]
      BY <1>1, <1>3, <2>1
    <3> QED
      BY <3>1 DEF Prefix
  <2>2. CASE ~(i <= Len(file))
    <3>1. i - Len(file) \in 1..bw /\ (file \o new)[i] = new[i - Len(file)]
      BY <1>1, <1>3, <1>4, <2>2
    <3> QED
      BY <1>1, <1>3, <3>1
  <2> QED
    BY <2>1, <2>2
<1> QED
  BY <1>4, <1>5 DEF Prefix, new

(* The call returns, and NGET goes on to its next step.                    *)
LEMMA ReturnsTrue ==
    ASSUME Typed, Up, AnswerOwn, FileInv, NgetReturns
    PROVE  FileInv'
<1>1. SUFFICES ASSUME Calm' PROVE (ToolStands /\ CallStands)'
  BY DEF FileInv
<1>2. /\ UNCHANGED <<status, buf, stream>> /\ call.phase = "received" /\ call' = NoCall
      /\ rough' = IF CallSucceeds \/ tool.pc \in {"read", "close"} THEN rough ELSE rough \cup {tool.pc}
      /\ tool.name = "nget"
  BY DEF NgetReturns, CallReturns
<1>3. Calm /\ (CallSucceeds \/ tool.pc \in {"read", "close"})
  BY <1>1, <1>2 DEF Calm
<1>4. ToolStands /\ CallStands /\ ToolTyped /\ tool.pc \in Steps
  BY <1>2, <1>3 DEF FileInv, Typed, ToolTyped, Idle
<1>5. call'.phase = "none"
  BY <1>2 DEF NoCall
<1>6. SUFFICES (ToolStands /\ BeforeRead)'
  BY <1>5 DEF CallStands, Idle
<1>7. /\ stream.read \in Nat /\ stream.come \in Nat /\ Len(file) \in Nat
  BY <1>4 DEF ToolTyped
<1>8. CASE tool.pc = "open"
  <2>1. tool'.pc = "first" /\ file' = file
    BY <1>4, <1>8 DEF NgetReturns, Go, ToolTyped
  <2>2. stream.of = "file" /\ stream.read = 0 /\ file = << >>
    BY <1>3, <1>4, <1>8, SuccessTrue DEF TrueFrame, ToolStands
  <2> QED
    BY <1>2, <2>1, <2>2 DEF ToolStands, BeforeRead, Prefix
<1>9. CASE tool.pc \in {"first", "status"}
  <2>1. /\ status.bw <= Waiting
        /\ status.bw = 0 => (status.error = EndOfFile <=> stream.read = Pieces)
    BY <1>3, <1>4, <1>9, SuccessTrue DEF TrueFrame, Heard, Waiting
  <2>2. file' = file /\ (Loop \/ (status.error > 1 /\ Exit(status.error)))
    BY <1>9 DEF NgetReturns
  <2>3. CASE Loop
    BY <1>2, <1>4, <1>9, <2>1, <2>2, <2>3, LoopTrue
  <2>4. CASE status.error > 1 /\ Exit(status.error)
    <3>1. tool'.pc = "done" /\ tool'.result # 0
      BY <1>4, <2>4 DEF Exit, ToolTyped
    <3> QED
      BY <1>4, <2>2, <3>1 DEF ToolStands, BeforeRead
  <2> QED
    BY <2>2, <2>3, <2>4
<1>10. CASE tool.pc = "read" /\ CallSucceeds
  <2> DEFINE v == call.got.data.val
  <2>1. /\ Len(v) = bw /\ stream.read = Len(file) + bw
        /\ \A i \in 1..bw : v[i] = Len(file) + i
        /\ \A i \in 1..bw : buf[i] = v[i]
    BY <1>4, <1>10, SuccessTrue DEF TrueFrame, Heard
  <2>2. tool'.pc = "status" /\ file' = file \o SubSeq(buf, 1, bw)
    BY <1>4, <1>10 DEF NgetReturns, AfterRead, Go, ToolTyped
  <2> HIDE DEF v
  <2>3. Prefix(file') /\ Len(file') = Len(file) + bw
    BY <1>4, <2>1, <2>2, CopiedTrue DEF ToolStands
  <2>4. stream'.of = "file" /\ stream'.read = Len(file')
    BY <1>2, <1>4, <1>10, <2>1, <2>3 DEF ToolStands
  <2> QED
    BY <2>2, <2>3, <2>4 DEF ToolStands, BeforeRead
<1>11. CASE tool.pc = "read" /\ ~CallSucceeds
  <2>1. tool'.pc = "done" /\ tool'.result = 144 /\ file' = file
    BY <1>4, <1>11 DEF NgetReturns, AfterRead, Exit, ToolTyped
  <2> QED
    BY <1>4, <2>1 DEF ToolStands, BeforeRead
<1>12. CASE tool.pc = "close"
  <2>1. tool'.pc = "done" /\ file' = file
    BY <1>4, <1>12 DEF NgetReturns, Exit, ToolTyped
  <2> QED
    BY <1>4, <1>12, <2>1 DEF ToolStands, BeforeRead
<1> QED
  BY <1>4, <1>8, <1>9, <1>10, <1>11, <1>12 DEF Steps

(* A program's step: NGET's, another tool's, or a new run.                 *)
LEMMA ProgramTrue ==
    ASSUME Typed, Up, AnswerOwn, FileInv, Program
    PROVE  FileInv'
<1>1. CASE NgetAsks \/ NgetSends \/ NgetReceives \/ NgetReturns
  BY <1>1, AsksTrue, SendsTrue, ReceivesTrue, ReturnsTrue
<1>2. CASE NputCalls \/ NputSends \/ NputReceives \/ NputReturns
               \/ \E ok \in BOOLEAN : NputOpens(ok) \/ NputCallsNowhere(ok)
  <2>1. tool.name = "nput" /\ tool'.name = tool.name
    BY <1>2 DEF NputCalls, NputSends, NputReceives, NputReturns, NputOpens, NputCallsNowhere, NputGoesOn, ChunkWritten,
                Go, Exit, In, transfer, Typed, ToolTyped
  <2> QED
    BY <2>1 DEF FileInv, Calm
<1>3. ASSUME NEW name \in Names, Run(name), UNCHANGED bus
      PROVE  FileInv'
  <2>1. /\ tool'.pc = "open" /\ file' = << >> /\ Idle /\ Idle' /\ call'.phase = "none"
    BY <1>3 DEF Run, bus, Idle
  <2> QED
    BY <2>1 DEF FileInv, ToolStands, CallStands, BeforeRead, Prefix
<1> QED
  BY <1>1, <1>2, <1>3 DEF Program, Tools

(* Every step.                                                             *)
LEMMA FileHolds == Typed /\ AnswerOwn /\ FileInv /\ [Next]_vars => FileInv'
<1> SUFFICES ASSUME Typed, AnswerOwn, FileInv, [Next]_vars PROVE FileInv'
  OBVIOUS
<1>1. CASE Start
  <2>1. ~Up /\ UNCHANGED <<transfer, call>>
    BY <1>1 DEF Start, Configure, Version, Clock, Up, bus
  <2> QED
    BY <2>1, FileUntouched DEF Typed, BusTyped
<1>2. CASE Up /\ Disk
  <2>1. Idle /\ UNCHANGED <<transfer, call>>
    BY <1>2, DriverKeepsCall DEF Disk
  <2> QED
    BY <2>1, FileUntouched
<1>3. CASE Up /\ Program
  BY <1>3, ProgramTrue
<1>4. CASE Up /\ Elsewhere
  <2>1. CASE (\E u \in Units : Eject(u) \/ \E m \in {"r", "rw"} : Mount(u, m)) /\ UNCHANGED transfer
    BY <2>1, FileUntouched DEF Eject, Mount, Change, bus
  <2>2. CASE Arrives /\ UNCHANGED <<bus, disk>>
    BY <2>2, ArrivesTrue
  <2>3. CASE PrinterTick /\ UNCHANGED <<disk, transfer>>
    BY <1>4, <2>3, TickTrue
  <2> QED
    BY <1>4, <2>1, <2>2, <2>3 DEF Elsewhere
<1>5. CASE Up /\ Keyboard
  <2>1. UNCHANGED <<transfer, call>> /\ (Idle \/ UNCHANGED line)
    BY <1>5 DEF Keyboard, Typing, Waits, Menu, BootMode, Takes, Loading, bus
  <2> QED
    BY <2>1, FileUntouched
<1>6. CASE UNCHANGED vars
  BY <1>6, FileUntouched DEF vars, bus
<1> QED
  BY <1>1, <1>2, <1>3, <1>4, <1>5, <1>6 DEF Next

(* The file that NGET writes is the file it was told to copy, piece by      *)
(* piece, whole when it says so (FileTrue), whatever the printer's timer    *)
(* does to its calls, and however little of the stream has come when it    *)
(* asks; but for the calls whose outcome it does not look at.              *)
THEOREM FilesTrue == Spec => []FileTrue
<1>1. Init => FileInv
  BY DEF Init, NoTool, FileInv, Calm
<1> QED
  BY <1>1, FileInvGivesFileTrue, FileHolds, TypesHold, AnswersOwn, PTL DEF Spec
=============================================================================
