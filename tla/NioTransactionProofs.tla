------------------------ MODULE NioTransactionProofs ------------------------
(***************************************************************************)
(* The safety of an exchange for any set of commands, any retry and stale  *)
(* budget, any buffer sizes, any device answers and a line of any length.  *)
(* Everything follows from one inductive invariant, IInv.                  *)
(***************************************************************************)
EXTENDS NioTransaction, FiniteSetTheorems, TLAPS

(* While an exchange runs it has no result, has not seen a clean answer and *)
(* has an attempt left; what the device did is paid for by an attempt, and *)
(* what was waited for by an attempt or by the stale budget.               *)
InProgress ==
    /\ attempt < MaxAttempts(cmd)
    /\ stale <= StaleBudget(cmd)
    /\ pc # "idle" => result = "none" /\ ~answered
    /\ runs <= attempt + 1
    /\ pc = "send" => /\ runs <= attempt
                      /\ reads <= attempt * (StaleBudget(cmd) + 1)
    /\ pc = "read" => reads <= attempt * (StaleBudget(cmd) + 1) + stale
    /\ pc = "idle" => reads <= attempt * (StaleBudget(cmd) + 1) + stale + 1

(* Unless earlier answers were under way when it began, every frame on the *)
(* line answers this exchange, and there is one only if the device ran it. *)
LineIsOwn ==
    ~overdue => \A i \in DOMAIN wire : wire[i].own /\ runs > 0

IInv == TypeOK /\ InProgress /\ LineIsOwn /\ FailureIsExhausted /\ ReplyIsGenuine


USE TransactionAssumption DEF TransactionAssumption

-----------------------------------------------------------------------------
(* Facts about the operators of the model.                                 *)

(* Every exchange has at least one attempt.                                *)
LEMMA BudgetType ==
    ASSUME NEW k \in Keys
    PROVE  MaxAttempts(k) \in Nat \ {0} /\ StaleBudget(k) \in Nat
BY DEF MaxAttempts, StaleBudget, TransportAttempts

(* One more attempt pays for one more budget of reads.                     *)
LEMMA AttemptPays ==
    ASSUME NEW a \in Nat, NEW m \in Nat, NEW b \in Nat, a < m
    PROVE  (a + 1) * b = a * b + b /\ a * b \in Nat /\ m * b \in Nat /\ a * b + b <= m * b
<1>1. (a + 1) * b = a * b + b /\ a * b \in Nat
  OBVIOUS
<1>2. PICK d \in Nat : m = a + 1 + d
  <2>1. m - (a + 1) \in Nat /\ m = a + 1 + (m - (a + 1))
    OBVIOUS
  <2> QED BY <2>1
<1>3. m * b = a * b + b + d * b /\ d * b \in Nat
  BY <1>2
<1> QED BY <1>1, <1>3

(* What the port makes of the frame at the head of the line: the numbers   *)
(* are naturals, the key and the origin are the frame's, and a clean answer *)
(* is never cut inside the header.                                         *)
LEMMA FrameReceived ==
    ASSUME NEW f \in Frames, cmd \in Keys, NEW rx \in Whole(f) \cup Damaged(f)
    PROVE  /\ rx \in Receptions(Keys)
           /\ rx.own = f.own
           /\ CleanAnswer(rx) => rx.len >= HeaderSize
<1>1. f.payload \in Nat /\ f.key \in Keys /\ f.fields \in BOOLEAN /\ f.own \in BOOLEAN
  BY DEF Frames
<1>2. RxSpace[cmd] \in Nat \ {0}
  OBVIOUS
<1>3. \A p \in Reports : p.reason \in Reasons /\ p.lsr \in BOOLEAN
  <2> SUFFICES ASSUME NEW p \in Reports PROVE p.reason \in Reasons /\ p.lsr \in BOOLEAN
    OBVIOUS
  <2>1. CASE p = [reason |-> "NONE", lsr |-> FALSE]
    BY <2>1 DEF Reasons
  <2>2. CASE p = [reason |-> "LINE_STATUS", lsr |-> TRUE]
    BY <2>2 DEF Reasons
  <2>3. CASE p = [reason |-> "TIMEOUT", lsr |-> FALSE]
    BY <2>3 DEF Reasons
  <2>4. CASE p = [reason |-> "TIMEOUT", lsr |-> TRUE]
    BY <2>4 DEF Reasons
  <2> QED BY <2>1, <2>2, <2>3, <2>4 DEF Reports
<1>4. ASSUME NEW size \in Nat, NEW length \in Nat, NEW sumOk \in BOOLEAN,
             rx \in Decoded(f, size, length, sumOk)
      PROVE  /\ rx \in Receptions(Keys) /\ rx.own = f.own
             /\ rx.sumOk = sumOk
             /\ size >= HeaderSize => rx.len >= HeaderSize
  BY <1>1, <1>2, <1>3, <1>4 DEF Decoded, Receptions, Reasons, HeaderSize
<1>5. CASE rx \in Whole(f)
  <2>1. HeaderSize + f.payload \in Nat /\ HeaderSize + f.payload >= HeaderSize
    BY <1>1 DEF HeaderSize
  <2> QED BY <1>4, <1>5, <2>1 DEF Whole
<1>6. CASE rx \in Damaged(f)
  <2>1. /\ HeaderSize + f.payload \in Nat /\ HeaderSize - 1 \in Nat
        /\ HeaderSize + f.payload + 1 \in Nat
    BY <1>1 DEF HeaderSize
  <2> QED BY <1>4, <1>6, <2>1 DEF Damaged, CleanAnswer
<1> QED BY <1>5, <1>6

(* Silence is taken for a short frame.                                     *)
LEMMA SilenceReceived ==
    ASSUME cmd \in Keys, NEW rx \in Silence
    PROVE  /\ rx \in Receptions(Keys) /\ ~CleanAnswer(rx)
           /\ ValidateResponse(rx, cmd, Capacity[cmd]) = "SHORT_FRAME"
<1>1. PICK e \in BOOLEAN :
        rx = [len |-> 0, length |-> 0, sumOk |-> FALSE, key |-> cmd, fields |-> FALSE,
              own |-> FALSE, reason |-> "TIMEOUT", lsr |-> e]
  BY DEF Silence
<1>2. rx \in Receptions(Keys)
  BY <1>1 DEF Receptions, Reasons
<1>3. rx.reason = "TIMEOUT" /\ rx.len = 0
  BY <1>1
<1> QED BY <1>2, <1>3 DEF CleanAnswer, ValidateResponse, HeaderSize

(* A frame that passes the check is for the command asked, is as long as it *)
(* says and fits the caller's buffer.                                      *)
LEMMA AcceptedFrame ==
    ASSUME NEW key \in Keys, NEW rx \in Receptions(Keys), NEW capacity \in Nat,
           ValidateResponse(rx, key, capacity) = "OK"
    PROVE  /\ rx.key = key /\ rx.len = rx.length
           /\ rx.len - HeaderSize \in 1..(capacity + 1)
BY DEF ValidateResponse, Receptions, HeaderSize

(* The three ways on from a received frame.  A clean answer never counts   *)
(* as a failure worth another attempt, nor as a stale one.                 *)
LEMMA HandleCases ==
    ASSUME cmd \in Keys, NEW rx \in Receptions(Keys), Handle(rx),
           CleanAnswer(rx) => rx.len >= HeaderSize
    PROVE  \/ ValidateResponse(rx, cmd, Capacity[cmd]) = "OK" /\ Accept(rx)
           \/ ~CleanAnswer(rx) /\ RejectStale(rx)
           \/ \E err \in NioErrors \ {"NONE"} :
                Fail(err) /\ (CleanAnswer(rx) => ~ShouldRetry(err))
<1> DEFINE verdict == ValidateResponse(rx, cmd, Capacity[cmd])
<1>1. verdict \in FrameErrors \cup {"OK"}
  BY DEF ValidateResponse, FrameErrors
<1>2. CASE verdict = "OK"
  BY <1>2 DEF Handle
<1>3. CASE verdict = "DEVICE_COMMAND"
  <2>1. RejectStale(rx)
    BY <1>3 DEF Handle
  <2>2. ~CleanAnswer(rx)
    BY <1>3 DEF ValidateResponse, CleanAnswer
  <2> QED BY <2>1, <2>2
<1>4. CASE verdict \notin {"OK", "DEVICE_COMMAND"}
  <2> DEFINE err == PortError(rx, verdict)
  <2>1. Fail(err)
    BY <1>4 DEF Handle
  <2>2. err \in NioErrors \ {"NONE"}
    BY <1>1, <1>4 DEF PortError, NioErrors, FrameErrors
  <2>3. CleanAnswer(rx) => ~ShouldRetry(err)
    <3> SUFFICES ASSUME CleanAnswer(rx) PROVE ~ShouldRetry(err)
      OBVIOUS
    <3>1. err = verdict
      BY DEF PortError, CleanAnswer
    <3>2. verdict \notin {"SHORT_FRAME", "LENGTH_MISMATCH", "CHECKSUM"}
      BY DEF ValidateResponse, CleanAnswer, Receptions, HeaderSize
    <3> QED BY <1>1, <1>4, <3>1, <3>2 DEF ShouldRetry, FrameErrors
  <2> QED BY <2>1, <2>2, <2>3
<1> QED BY <1>2, <1>3, <1>4

-----------------------------------------------------------------------------
(* The line.                                                               *)

(* Taking the oldest frame off a line leaves a line of later frames.       *)
LEMMA LineTail ==
    ASSUME NEW w \in Seq(Frames), w # << >>
    PROVE  /\ Head(w) \in Frames /\ Head(w) = w[1] /\ 1 \in DOMAIN w
           /\ Tail(w) \in Seq(Frames)
           /\ \A i \in DOMAIN Tail(w) : i + 1 \in DOMAIN w /\ Tail(w)[i] = w[i + 1]
OBVIOUS

(* So does clearing the n oldest, as flush_rx may.                         *)
LEMMA LineFlush ==
    ASSUME NEW w \in Seq(Frames), NEW n \in 0..Len(w)
    PROVE  /\ SubSeq(w, n + 1, Len(w)) \in Seq(Frames)
           /\ \A i \in DOMAIN SubSeq(w, n + 1, Len(w)) :
                i + n \in DOMAIN w /\ SubSeq(w, n + 1, Len(w))[i] = w[i + n]
OBVIOUS

(* The answer to a request joins the line last.                            *)
LEMMA LineAnswer ==
    ASSUME NEW w \in Seq(Frames), NEW f \in Frames
    PROVE  /\ Append(w, f) \in Seq(Frames)
           /\ \A i \in DOMAIN Append(w, f) :
                Append(w, f)[i] = f \/ (i \in DOMAIN w /\ Append(w, f)[i] = w[i])
OBVIOUS

-----------------------------------------------------------------------------
(* Type correctness.                                                       *)

(* Handling a frame keeps the types of what it changes.                    *)
LEMMA HandleType ==
    ASSUME TypeOK, NEW rx \in Receptions(Keys), Handle(rx),
           CleanAnswer(rx) => rx.len >= HeaderSize
    PROVE  /\ pc' \in {"idle", "send", "read"} /\ cmd' \in Keys
           /\ attempt' \in Nat /\ stale' \in Nat
           /\ error' \in NioErrors /\ lastError' \in NioErrors
           /\ result' \in {"none", "ok", "failed"}
           /\ response' \in Receptions(Keys) \cup {NoResponse}
<1> USE DEF TypeOK
<1>1. "NONE" \in NioErrors /\ "DEVICE_COMMAND" \in NioErrors
  BY DEF NioErrors, FrameErrors
<1>2. CASE Accept(rx)
  BY <1>1, <1>2 DEF Accept, Return
<1>3. CASE RejectStale(rx)
  BY <1>1, <1>3 DEF RejectStale, Return
<1>4. ASSUME NEW err \in NioErrors, Fail(err)
      PROVE  /\ pc' \in {"idle", "send", "read"} /\ cmd' \in Keys
             /\ attempt' \in Nat /\ stale' \in Nat
             /\ error' \in NioErrors /\ lastError' \in NioErrors
             /\ result' \in {"none", "ok", "failed"}
             /\ response' \in Receptions(Keys) \cup {NoResponse}
  BY <1>4 DEF Fail, Return
<1> QED BY <1>2, <1>3, <1>4, HandleCases

(* Every action keeps the types.                                           *)
LEMMA TypeStep == TypeOK /\ [Next]_vars => TypeOK'
<1> SUFFICES ASSUME TypeOK, [Next]_vars PROVE TypeOK'
  OBVIOUS
<1> USE DEF TypeOK
<1>1. ASSUME NEW k \in Keys, Call(k) PROVE TypeOK'
  <2>1. wire' \in Seq(Frames)
    <3>1. ASSUME NEW i \in DOMAIN wire PROVE [wire[i] EXCEPT !.own = FALSE] \in Frames
      <4>1. wire[i] \in Frames
        OBVIOUS
      <4> QED BY <4>1 DEF Frames
    <3> QED BY <1>1, <3>1 DEF Call
  <2>2. (overdue' \in BOOLEAN) /\ (answered' \in BOOLEAN)
    BY <1>1 DEF Call
  <2>3. /\ pc' = "send" /\ cmd' = k /\ attempt' = 0 /\ stale' = 0
        /\ error' = error /\ lastError' = lastError
        /\ result' = "none" /\ response' = NoResponse /\ runs' = 0 /\ reads' = 0
    BY <1>1 DEF Call
  <2> QED BY <2>1, <2>2, <2>3
<1>2. CASE Transmit
  <2>1. wire' \in Seq(Frames) /\ runs' \in Nat
    <3>1. PICK n \in 0..Len(wire) :
            \/ wire' = SubSeq(wire, n + 1, Len(wire)) /\ runs' = runs
            \/ wire' = SubSeq(wire, n + 1, Len(wire)) /\ runs' = runs + 1
            \/ /\ runs' = runs + 1
               /\ \E s \in Shapes :
                    wire' = Append(SubSeq(wire, n + 1, Len(wire)),
                                   [key |-> cmd, fields |-> s.fields,
                                    payload |-> s.payload, own |-> TRUE])
      BY <1>2 DEF Transmit
    <3> DEFINE left == SubSeq(wire, n + 1, Len(wire))
    <3>2. left \in Seq(Frames)
      BY LineFlush
    <3>3. CASE wire' = left /\ runs' \in {runs, runs + 1}
      BY <3>2, <3>3
    <3>4. ASSUME runs' = runs + 1, NEW s \in Shapes,
                 wire' = Append(left, [key |-> cmd, fields |-> s.fields,
                                       payload |-> s.payload, own |-> TRUE])
          PROVE  wire' \in Seq(Frames) /\ runs' \in Nat
      <4>1. [key |-> cmd, fields |-> s.fields, payload |-> s.payload, own |-> TRUE] \in Frames
        BY DEF Frames
      <4> QED BY <3>2, <3>4, <4>1
    <3> QED BY <3>1, <3>3, <3>4
  <2>2. "NONE" \in NioErrors
    BY DEF NioErrors
  <2>3. error' \in NioErrors /\ response' = NoResponse /\ pc' = "read" /\ stale' = 0
    BY <1>2, <2>2 DEF Transmit
  <2>4. UNCHANGED <<cmd, attempt, lastError, result, reads, answered, overdue>>
    BY <1>2 DEF Transmit
  <2> QED BY <2>1, <2>3, <2>4
<1>3. CASE ReceiveNothing
  <2>1. PICK rx \in Silence : Handle(rx)
    BY <1>3 DEF ReceiveNothing
  <2>2. rx \in Receptions(Keys) /\ ~CleanAnswer(rx)
    BY SilenceReceived
  <2>3. reads' \in Nat /\ UNCHANGED <<wire, runs, answered, overdue>>
    BY <1>3 DEF ReceiveNothing
  <2> QED BY <2>1, <2>2, <2>3, HandleType
<1>4. CASE Receive
  <2>1. PICK rx \in Whole(Head(wire)) \cup Damaged(Head(wire)) :
          Handle(rx) /\ answered' = (answered \/ CleanAnswer(rx))
    BY <1>4 DEF Receive
  <2>2. Head(wire) \in Frames /\ Tail(wire) \in Seq(Frames)
    BY <1>4, LineTail DEF Receive
  <2>3. rx \in Receptions(Keys) /\ (CleanAnswer(rx) => rx.len >= HeaderSize)
    BY <2>2, FrameReceived
  <2>4. answered' \in BOOLEAN
    BY <2>1 DEF CleanAnswer
  <2>5. wire' \in Seq(Frames) /\ reads' \in Nat /\ UNCHANGED <<runs, overdue>>
    BY <1>4, <2>2 DEF Receive
  <2> QED BY <2>1, <2>3, <2>4, <2>5, HandleType
<1>5. CASE UNCHANGED vars
  BY <1>5 DEF vars, protocol, history
<1> QED BY <1>1, <1>2, <1>3, <1>4, <1>5 DEF Next

(* The program's variables and the line keep their types: in particular no *)
(* error is stored that include/nio.h does not define.                     *)
THEOREM TypeCorrect == Spec => []TypeOK
<1>1. Init => TypeOK
  <2> SUFFICES ASSUME Init PROVE TypeOK
    OBVIOUS
  <2>1. wire \in Seq(Frames)
    BY DEF Init
  <2>2. (answered \in BOOLEAN) /\ (overdue \in BOOLEAN)
    BY DEF Init
  <2>3. error \in NioErrors /\ lastError \in NioErrors
    BY DEF Init, NioErrors
  <2> QED BY <2>1, <2>2, <2>3 DEF Init, TypeOK
<1> QED BY <1>1, TypeStep, PTL DEF Spec

-----------------------------------------------------------------------------
(* The budgets: InProgress is kept.                                        *)

(* A frame that was waited for is paid for: by the stale budget if it is   *)
(* read over, by the attempt if it ends it.                                *)
LEMMA HandleProgress ==
    ASSUME TypeOK, InProgress, pc = "read", NEW rx \in Receptions(Keys), Handle(rx),
           CleanAnswer(rx) => rx.len >= HeaderSize,
           answered' = (answered \/ CleanAnswer(rx)), reads' = reads + 1, runs' = runs
    PROVE  InProgress'
<1> USE DEF TypeOK
<1> DEFINE B == StaleBudget(cmd)
           M == MaxAttempts(cmd)
<1>1. M \in Nat \ {0} /\ B \in Nat
  BY BudgetType
<1>2. /\ attempt < M /\ stale <= B /\ result = "none" /\ ~answered
      /\ runs <= attempt + 1 /\ reads <= attempt * (B + 1) + stale
  BY DEF InProgress
<1>3. /\ (attempt + 1) * (B + 1) = attempt * (B + 1) + (B + 1)
      /\ attempt * (B + 1) \in Nat
  <2>1. attempt \in Nat /\ B + 1 \in Nat
    BY <1>1
  <2> HIDE DEF B, M
  <2> QED BY <1>1, <1>2, <2>1, AttemptPays
<1> HIDE DEF B, M
<1>4. CASE pc' = "idle" /\ UNCHANGED <<cmd, attempt, stale>>
  <2>1. B' = B /\ M' = M
    BY <1>4 DEF B, M, StaleBudget, MaxAttempts
  <2>2. /\ attempt' < M' /\ stale' <= B' /\ runs' <= attempt' + 1
        /\ reads' <= attempt' * (B' + 1) + stale' + 1
    BY <1>1, <1>2, <1>3, <1>4, <2>1
  <2> QED BY <1>4, <2>2 DEF InProgress, B, M
<1>5. CASE Accept(rx)
  BY <1>4, <1>5 DEF Accept, Return
<1>6. CASE RejectStale(rx) /\ ~CleanAnswer(rx)
  <2>1. CASE stale + 1 <= B
    <3>1. UNCHANGED <<pc, cmd, attempt, result>> /\ stale' = stale + 1
      BY <1>6, <2>1 DEF RejectStale, B
    <3>2. B' = B /\ M' = M
      BY <3>1 DEF B, M, StaleBudget, MaxAttempts
    <3>3. /\ attempt' < M' /\ stale' <= B' /\ runs' <= attempt' + 1
          /\ reads' <= attempt' * (B' + 1) + stale'
      BY <1>1, <1>2, <1>3, <2>1, <3>1, <3>2
    <3> QED BY <1>2, <1>6, <3>1, <3>3 DEF InProgress, B, M
  <2>2. CASE ~(stale + 1 <= B)
    BY <1>4, <1>6, <2>2 DEF RejectStale, Return, B
  <2> QED BY <2>1, <2>2
<1>7. ASSUME NEW err \in NioErrors \ {"NONE"}, Fail(err),
             CleanAnswer(rx) => ~ShouldRetry(err)
      PROVE  InProgress'
  <2>1. CASE ShouldRetry(err) /\ attempt + 1 < M
    <3>1. pc' = "send" /\ attempt' = attempt + 1 /\ UNCHANGED <<cmd, stale, result>>
      BY <1>7, <2>1 DEF Fail, M
    <3>2. B' = B /\ M' = M
      BY <3>1 DEF B, M, StaleBudget, MaxAttempts
    <3>3. /\ attempt' < M' /\ stale' <= B' /\ runs' <= attempt'
          /\ reads' <= attempt' * (B' + 1)
      BY <1>1, <1>2, <1>3, <2>1, <3>1, <3>2
    <3>4. ~answered'
      BY <1>2, <1>7, <2>1
    <3> QED BY <1>2, <3>1, <3>3, <3>4 DEF InProgress, B, M
  <2>2. CASE ~(ShouldRetry(err) /\ attempt + 1 < M)
    BY <1>4, <1>7, <2>2 DEF Fail, Return, M
  <2> QED BY <2>1, <2>2
<1> QED BY <1>5, <1>6, <1>7, HandleCases

(* No action spends more of the two budgets than an exchange has.          *)
LEMMA ProgressStep == TypeOK /\ InProgress /\ [Next]_vars => InProgress'
<1> SUFFICES ASSUME TypeOK, InProgress, [Next]_vars PROVE InProgress'
  OBVIOUS
<1> USE DEF TypeOK
<1>1. ASSUME NEW k \in Keys, Call(k) PROVE InProgress'
  <2>1. MaxAttempts(k) \in Nat \ {0} /\ StaleBudget(k) \in Nat
    BY BudgetType
  <2>2. /\ pc' = "send" /\ cmd' = k /\ attempt' = 0 /\ stale' = 0
        /\ result' = "none" /\ runs' = 0 /\ reads' = 0 /\ ~answered'
    BY <1>1 DEF Call
  <2>3. MaxAttempts(cmd)' = MaxAttempts(k) /\ StaleBudget(cmd)' = StaleBudget(k)
    BY <2>2 DEF MaxAttempts, StaleBudget
  <2>4. 0 * (StaleBudget(k) + 1) = 0
    BY <2>1
  <2> QED BY <2>1, <2>2, <2>3, <2>4 DEF InProgress
<1>2. CASE Transmit
  <2>1. /\ pc = "send" /\ pc' = "read" /\ stale' = 0 /\ runs' \in {runs, runs + 1}
        /\ UNCHANGED <<cmd, attempt, result, reads, answered>>
    BY <1>2 DEF Transmit
  <2>2. MaxAttempts(cmd)' = MaxAttempts(cmd) /\ StaleBudget(cmd)' = StaleBudget(cmd)
    BY <2>1 DEF MaxAttempts, StaleBudget
  <2>3. StaleBudget(cmd) \in Nat
    BY BudgetType
  <2> QED BY <2>1, <2>2, <2>3 DEF InProgress
<1>3. CASE ReceiveNothing
  <2>1. PICK rx \in Silence : Handle(rx)
    BY <1>3 DEF ReceiveNothing
  <2>2. rx \in Receptions(Keys) /\ ~CleanAnswer(rx)
    BY SilenceReceived
  <2>3. answered' = (answered \/ CleanAnswer(rx)) /\ reads' = reads + 1 /\ runs' = runs
    BY <1>3, <2>2 DEF ReceiveNothing
  <2> QED BY <1>3, <2>1, <2>2, <2>3, HandleProgress DEF ReceiveNothing
<1>4. CASE Receive
  <2>1. PICK rx \in Whole(Head(wire)) \cup Damaged(Head(wire)) :
          Handle(rx) /\ answered' = (answered \/ CleanAnswer(rx))
    BY <1>4 DEF Receive
  <2>2. Head(wire) \in Frames
    BY <1>4, LineTail DEF Receive
  <2>3. rx \in Receptions(Keys) /\ (CleanAnswer(rx) => rx.len >= HeaderSize)
    BY <2>2, FrameReceived
  <2>4. reads' = reads + 1 /\ runs' = runs /\ pc = "read"
    BY <1>4 DEF Receive
  <2> QED BY <2>1, <2>3, <2>4, HandleProgress
<1>5. CASE UNCHANGED vars
  BY <1>5 DEF vars, protocol, history, InProgress, MaxAttempts, StaleBudget
<1> QED BY <1>1, <1>2, <1>3, <1>4, <1>5 DEF Next

-----------------------------------------------------------------------------
(* The line carries this exchange's own answers only, if none was overdue. *)

(* Each action keeps to that: only Transmit puts an answer on the line, and *)
(* a new exchange disowns what it finds there.                             *)
LEMMA LineStep == TypeOK /\ LineIsOwn /\ [Next]_vars => LineIsOwn'
<1> SUFFICES ASSUME TypeOK, LineIsOwn, [Next]_vars PROVE LineIsOwn'
  OBVIOUS
<1> USE DEF TypeOK
<1>1. ASSUME NEW k \in Keys, Call(k) PROVE LineIsOwn'
  <2>1. DOMAIN wire' = DOMAIN wire
    BY <1>1 DEF Call
  <2>2. ~overdue' => wire = << >>
    BY <1>1, Zenon DEF Call
  <2>3. wire = << >> => DOMAIN wire = {}
    OBVIOUS
  <2> QED BY <2>1, <2>2, <2>3 DEF LineIsOwn
<1>2. CASE Transmit
  <2> SUFFICES ASSUME ~overdue PROVE \A i \in DOMAIN wire' : wire'[i].own /\ runs' > 0
    BY <1>2 DEF Transmit, LineIsOwn
  <2>1. PICK n \in 0..Len(wire) :
          \/ wire' = SubSeq(wire, n + 1, Len(wire)) /\ runs' = runs
          \/ wire' = SubSeq(wire, n + 1, Len(wire)) /\ runs' = runs + 1
          \/ /\ runs' = runs + 1
             /\ \E s \in Shapes :
                  wire' = Append(SubSeq(wire, n + 1, Len(wire)),
                                 [key |-> cmd, fields |-> s.fields,
                                  payload |-> s.payload, own |-> TRUE])
    BY <1>2 DEF Transmit
  <2> DEFINE left == SubSeq(wire, n + 1, Len(wire))
  <2>2. left \in Seq(Frames) /\ \A i \in DOMAIN left : left[i].own /\ runs > 0
    BY LineFlush DEF LineIsOwn
  <2> HIDE DEF left
  <2>3. CASE wire' = left /\ runs' \in {runs, runs + 1}
    BY <2>2, <2>3
  <2>4. ASSUME runs' = runs + 1, NEW s \in Shapes,
               wire' = Append(left, [key |-> cmd, fields |-> s.fields,
                                     payload |-> s.payload, own |-> TRUE])
        PROVE  \A i \in DOMAIN wire' : wire'[i].own /\ runs' > 0
    <3> DEFINE f == [key |-> cmd, fields |-> s.fields, payload |-> s.payload, own |-> TRUE]
    <3>1. f \in Frames /\ f.own
      BY DEF Frames
    <3> HIDE DEF f
    <3>2. \A i \in DOMAIN wire' : wire'[i] = f \/ (i \in DOMAIN left /\ wire'[i] = left[i])
      BY <2>2, <2>4, <3>1, LineAnswer DEF f
    <3> QED BY <2>2, <2>4, <3>1, <3>2
  <2> QED BY <2>1, <2>3, <2>4 DEF left
<1>3. CASE ReceiveNothing
  BY <1>3 DEF ReceiveNothing, LineIsOwn
<1>4. CASE Receive
  <2>1. wire # << >> /\ wire' = Tail(wire) /\ runs' = runs /\ overdue' = overdue
    BY <1>4 DEF Receive
  <2> QED BY <2>1, LineTail DEF LineIsOwn
<1>5. CASE UNCHANGED vars
  BY <1>5 DEF vars, history, LineIsOwn
<1> QED BY <1>1, <1>2, <1>3, <1>4, <1>5 DEF Next

-----------------------------------------------------------------------------
(* The report: what the exchange returns.                                  *)

(* Once a frame is handled, nio_last_error tells how the exchange ended.   *)
LEMMA HandleReport ==
    ASSUME TypeOK, InProgress, FailureIsExhausted, pc = "read",
           NEW rx \in Receptions(Keys), Handle(rx),
           CleanAnswer(rx) => rx.len >= HeaderSize
    PROVE  FailureIsExhausted'
<1> USE DEF TypeOK
<1>1. /\ attempt < MaxAttempts(cmd) /\ MaxAttempts(cmd) \in Nat \ {0}
      /\ result = "none"
  BY BudgetType DEF InProgress
<1>2. CASE Accept(rx)
  BY <1>2 DEF Accept, Return, FailureIsExhausted, ShouldRetry
<1>3. CASE RejectStale(rx)
  BY <1>1, <1>3 DEF RejectStale, Return, FailureIsExhausted, ShouldRetry
<1>4. ASSUME NEW err \in NioErrors \ {"NONE"}, Fail(err) PROVE FailureIsExhausted'
  <2>1. CASE pc' = "send"
    BY <2>1 DEF FailureIsExhausted
  <2>2. CASE ~(ShouldRetry(err) /\ attempt + 1 < MaxAttempts(cmd))
    <3>1. /\ result' = "failed" /\ UNCHANGED <<cmd, attempt>>
          /\ lastError' = IF cmd \in WriteKeys THEN lastError ELSE err
      BY <1>4, <2>2 DEF Fail, Return
    <3>2. MaxAttempts(cmd)' = MaxAttempts(cmd)
      BY <3>1 DEF MaxAttempts
    <3>3. ShouldRetry(err) => attempt + 1 = MaxAttempts(cmd)
      BY <1>1, <2>2
    <3> QED BY <3>1, <3>2, <3>3 DEF FailureIsExhausted
  <2> QED BY <1>4, <2>1, <2>2 DEF Fail
<1> QED BY <1>2, <1>3, <1>4, HandleCases

(* Nothing changes that report until the next exchange returns.            *)
LEMMA ReportStep ==
    TypeOK /\ InProgress /\ FailureIsExhausted /\ [Next]_vars => FailureIsExhausted'
<1> SUFFICES ASSUME TypeOK, InProgress, FailureIsExhausted, [Next]_vars
             PROVE  FailureIsExhausted'
  OBVIOUS
<1>1. ASSUME NEW k \in Keys, Call(k) PROVE FailureIsExhausted'
  BY <1>1 DEF Call, FailureIsExhausted
<1>2. CASE Transmit
  BY <1>2 DEF Transmit, FailureIsExhausted
<1>3. CASE ReceiveNothing
  <2>1. PICK rx \in Silence : Handle(rx)
    BY <1>3 DEF ReceiveNothing
  <2>2. rx \in Receptions(Keys) /\ ~CleanAnswer(rx)
    BY SilenceReceived DEF TypeOK
  <2> QED BY <1>3, <2>1, <2>2, HandleReport DEF ReceiveNothing
<1>4. CASE Receive
  <2>1. PICK rx \in Whole(Head(wire)) \cup Damaged(Head(wire)) : Handle(rx)
    BY <1>4 DEF Receive
  <2>2. Head(wire) \in Frames
    BY <1>4, LineTail DEF Receive, TypeOK
  <2>3. rx \in Receptions(Keys) /\ (CleanAnswer(rx) => rx.len >= HeaderSize)
    BY <2>2, FrameReceived DEF TypeOK
  <2> QED BY <1>4, <2>1, <2>3, HandleReport DEF Receive
<1>5. CASE UNCHANGED vars
  BY <1>5 DEF vars, protocol, FailureIsExhausted, MaxAttempts
<1> QED BY <1>1, <1>2, <1>3, <1>4, <1>5 DEF Next

(* Only a frame that passed the check becomes a reply, and the reply stays  *)
(* what it was until the next attempt.                                     *)
LEMMA GenuineStep ==
    TypeOK /\ InProgress /\ LineIsOwn /\ ReplyIsGenuine /\ [Next]_vars => ReplyIsGenuine'
<1> SUFFICES ASSUME TypeOK, InProgress, LineIsOwn, ReplyIsGenuine, [Next]_vars
             PROVE  ReplyIsGenuine'
  OBVIOUS
<1> USE DEF TypeOK
<1>1. ASSUME NEW k \in Keys, Call(k) PROVE ReplyIsGenuine'
  BY <1>1 DEF Call, ReplyIsGenuine
<1>2. CASE Transmit
  BY <1>2 DEF Transmit, InProgress, ReplyIsGenuine
<1>3. ASSUME pc = "read", NEW rx \in Receptions(Keys), Handle(rx),
             CleanAnswer(rx) => rx.len >= HeaderSize,
             overdue' = overdue, runs' = runs,
             ValidateResponse(rx, cmd, Capacity[cmd]) = "OK" =>
                 (~overdue => rx.own /\ runs > 0)
      PROVE  ReplyIsGenuine'
  <2>1. CASE ValidateResponse(rx, cmd, Capacity[cmd]) = "OK" /\ Accept(rx)
    <3>1. /\ rx.key = cmd /\ rx.len = rx.length
          /\ rx.len - HeaderSize \in 1..(Capacity[cmd] + 1)
      BY <2>1, AcceptedFrame
    <3> QED BY <1>3, <2>1, <3>1 DEF Accept, Return, ReplyIsGenuine
  <2>2. result' # "ok" => ReplyIsGenuine'
    BY DEF ReplyIsGenuine
  <2>3. result = "none"
    BY <1>3 DEF InProgress
  <2>4. CASE RejectStale(rx)
    BY <2>2, <2>3, <2>4 DEF RejectStale, Return
  <2>5. ASSUME NEW err \in NioErrors, Fail(err) PROVE ReplyIsGenuine'
    BY <2>2, <2>3, <2>5 DEF Fail, Return
  <2> QED BY <1>3, <2>1, <2>4, <2>5, HandleCases
<1>4. CASE ReceiveNothing
  <2>1. PICK rx \in Silence : Handle(rx)
    BY <1>4 DEF ReceiveNothing
  <2>2. /\ rx \in Receptions(Keys) /\ ~CleanAnswer(rx)
        /\ ValidateResponse(rx, cmd, Capacity[cmd]) # "OK"
    BY SilenceReceived
  <2>3. pc = "read" /\ overdue' = overdue /\ runs' = runs
    BY <1>4 DEF ReceiveNothing
  <2> QED BY <1>3, <2>1, <2>2, <2>3
<1>5. CASE Receive
  <2>1. PICK rx \in Whole(Head(wire)) \cup Damaged(Head(wire)) : Handle(rx)
    BY <1>5 DEF Receive
  <2>2. Head(wire) \in Frames /\ (~overdue => Head(wire).own /\ runs > 0)
    BY <1>5, LineTail DEF Receive, LineIsOwn
  <2>3. /\ rx \in Receptions(Keys) /\ rx.own = Head(wire).own
        /\ CleanAnswer(rx) => rx.len >= HeaderSize
    BY <2>2, FrameReceived
  <2>4. pc = "read" /\ overdue' = overdue /\ runs' = runs
    BY <1>5 DEF Receive
  <2> QED BY <1>3, <2>1, <2>2, <2>3, <2>4
<1>6. CASE UNCHANGED vars
  BY <1>6 DEF vars, protocol, history, ReplyIsGenuine
<1> QED BY <1>1, <1>2, <1>4, <1>5, <1>6 DEF Next

-----------------------------------------------------------------------------
(* The inductive invariant, and what it gives.                             *)

(* The invariant all others follow from: types, budgets, the origin of what *)
(* is on the line, the report and the reply, each kept by every action of  *)
(* nio_transaction_call with the help of the types.                        *)
THEOREM Inductive == Spec => []IInv
<1>1. Init => IInv
  <2> SUFFICES ASSUME Init PROVE IInv
    OBVIOUS
  <2>1. TypeOK
    <3>1. wire \in Seq(Frames)
      BY DEF Init
    <3>2. (answered \in BOOLEAN) /\ (overdue \in BOOLEAN)
      BY DEF Init
    <3>3. error \in NioErrors /\ lastError \in NioErrors
      BY DEF Init, NioErrors
    <3> QED BY <3>1, <3>2, <3>3 DEF Init, TypeOK
  <2>2. InProgress
    <3>1. MaxAttempts(cmd) \in Nat \ {0} /\ StaleBudget(cmd) \in Nat
      BY <2>1, BudgetType DEF TypeOK
    <3>2. 0 * (StaleBudget(cmd) + 1) = 0
      BY <3>1
    <3> QED BY <3>1, <3>2 DEF Init, InProgress
  <2> QED BY <2>1, <2>2 DEF Init, IInv, LineIsOwn, FailureIsExhausted, ReplyIsGenuine
<1>2. IInv /\ [Next]_vars => IInv'
  BY TypeStep, ProgressStep, LineStep, ReportStep, GenuineStep DEF IInv
<1> QED BY <1>1, <1>2, PTL DEF Spec

(* A reply that is handed to the caller is for the device and command      *)
(* asked, whole and no larger than the caller's buffer; with nothing       *)
(* overdue on the line it answers this request, which the device ran.      *)
THEOREM RepliesAreGenuine == Spec => []ReplyIsGenuine
<1>1. IInv => ReplyIsGenuine
  BY DEF IInv
<1> QED BY <1>1, Inductive, PTL

(* The device runs a request at most once per attempt; a sector write once. *)
THEOREM RunsAreBounded == Spec => []RunsBounded
<1>1. IInv => RunsBounded
  <2> SUFFICES ASSUME IInv PROVE RunsBounded
    OBVIOUS
  <2>1. cmd \in Keys /\ runs \in Nat /\ attempt \in Nat
    BY DEF IInv, TypeOK
  <2>2. runs <= attempt + 1 /\ attempt < MaxAttempts(cmd)
    BY DEF IInv, InProgress
  <2>3. MaxAttempts(cmd) \in Nat
    BY <2>1, BudgetType
  <2>4. cmd \in WriteKeys => MaxAttempts(cmd) = 1
    BY DEF MaxAttempts
  <2> QED BY <2>1, <2>2, <2>3, <2>4 DEF RunsBounded
<1> QED BY <1>1, Inductive, PTL

(* A request whose answer came in whole over a clean line is not repeated. *)
THEOREM AnswersEndTheExchange == Spec => []NoResendAfterAnswer
<1>1. IInv => NoResendAfterAnswer
  BY DEF IInv, InProgress, NoResendAfterAnswer
<1> QED BY <1>1, Inductive, PTL

(* nio_call gives up on an error worth a retry only when its attempts are  *)
(* used up, and reports an error exactly when it failed.                   *)
THEOREM FailuresAreExhausted == Spec => []FailureIsExhausted
<1>1. IInv => FailureIsExhausted
  BY DEF IInv
<1> QED BY <1>1, Inductive, PTL

(* An exchange never waits for more frames than its two budgets allow.     *)
THEOREM WaitsAreBounded == Spec => []WaitsBounded
<1>1. IInv => WaitsBounded
  <2> SUFFICES ASSUME IInv PROVE WaitsBounded
    OBVIOUS
  <2> DEFINE B == StaleBudget(cmd)
             M == MaxAttempts(cmd)
  <2>1. cmd \in Keys /\ attempt \in Nat /\ stale \in Nat /\ reads \in Nat
    BY DEF IInv, TypeOK
  <2>2. M \in Nat /\ B \in Nat /\ B + 1 \in Nat
    BY <2>1, BudgetType
  <2>3. attempt < M /\ stale <= B
    BY DEF IInv, InProgress
  <2>4. \/ reads <= attempt * (B + 1)
        \/ reads <= attempt * (B + 1) + stale
        \/ reads <= attempt * (B + 1) + stale + 1
    BY DEF IInv, InProgress, TypeOK
  <2> HIDE DEF B, M
  <2>5. /\ attempt * (B + 1) \in Nat /\ M * (B + 1) \in Nat
        /\ attempt * (B + 1) + (B + 1) <= M * (B + 1)
    BY <2>1, <2>2, <2>3, AttemptPays
  <2>6. reads <= M * (B + 1)
    BY <2>1, <2>2, <2>3, <2>4, <2>5
  <2> QED BY <2>6 DEF WaitsBounded, B, M
<1> QED BY <1>1, Inductive, PTL
-----------------------------------------------------------------------------
(* The exchange keeps the promise of NioRpc.  Its answers are the frames   *)
(* on the line, counted per device and command.                            *)

Places(w, k) == {i \in DOMAIN w : w[i].key = k}

(* A line holds finitely many answers to a request.                        *)
LEMMA PlacesFinite ==
    ASSUME NEW w \in Seq(Frames), NEW k
    PROVE  IsFiniteSet(Places(w, k)) /\ Cardinality(Places(w, k)) \in Nat
<1>1. IsFiniteSet(1..Len(w))
  BY FS_Interval
<1>2. Places(w, k) \in SUBSET (1..Len(w))
  BY DEF Places
<1> QED BY <1>1, <1>2, FS_Subset, FS_CardinalityType

(* Clearing the oldest frames adds no answer.                              *)
LEMMA PlacesFlushed ==
    ASSUME NEW w \in Seq(Frames), NEW n \in 0..Len(w), NEW k
    PROVE  Cardinality(Places(SubSeq(w, n + 1, Len(w)), k)) <= Cardinality(Places(w, k))
<1> DEFINE v == SubSeq(w, n + 1, Len(w))
           S == Places(v, k)
           T == Places(w, k)
           f == [i \in S |-> i + n]
<1>1. v \in Seq(Frames) /\ \A i \in DOMAIN v : i + n \in DOMAIN w /\ v[i] = w[i + n]
  BY LineFlush
<1>2. \A i \in S : i \in Nat /\ i + n \in T
  BY <1>1 DEF Places
<1>3. \A i, j \in S : i + n = j + n => i = j
  BY <1>2
<1> HIDE DEF S, T
<1>4. f \in Injection(S, T)
  BY <1>2, <1>3 DEF Injection, IsInjective
<1>5. IsFiniteSet(T)
  BY PlacesFinite DEF T
<1>6. Cardinality(S) <= Cardinality(T)
  BY <1>4, <1>5, FS_Injection
<1> QED BY <1>6 DEF S, T

(* Taking the oldest frame takes one answer to its request and no other.   *)
LEMMA PlacesTail ==
    ASSUME NEW w \in Seq(Frames), w # << >>, NEW k
    PROVE  Cardinality(Places(Tail(w), k)) =
               Cardinality(Places(w, k)) - (IF Head(w).key = k THEN 1 ELSE 0)
<1> DEFINE S == Places(Tail(w), k)
           T == Places(w, k)
           f == [i \in S |-> i + 1]
<1>1. /\ Tail(w) \in Seq(Frames) /\ Head(w) = w[1] /\ 1 \in DOMAIN w /\ Len(Tail(w)) = Len(w) - 1
      /\ \A i \in DOMAIN Tail(w) : i + 1 \in DOMAIN w /\ Tail(w)[i] = w[i + 1]
  BY LineTail
<1>2. \A i \in S : i \in Nat \ {0} /\ i + 1 \in T \ {1}
  BY <1>1 DEF Places
<1>3. \A j \in T \ {1} : j - 1 \in S /\ j \in Nat
  BY <1>1 DEF Places
<1>4. 1 \in T <=> Head(w).key = k
  BY <1>1 DEF Places
<1>5. IsFiniteSet(T) /\ Cardinality(T) \in Nat
  BY PlacesFinite
<1> HIDE DEF S, T
<1>6. IsFiniteSet(S)
  BY <1>1, PlacesFinite DEF S
<1>7. f \in Bijection(S, T \ {1})
  <2>1. f \in [S -> T \ {1}]
    BY <1>2
  <2>2. \A i, j \in S : f[i] = f[j] => i = j
    BY <1>2
  <2>3. \A j \in T \ {1} : f[j - 1] = j
    BY <1>3
  <2> QED BY <1>3, <2>1, <2>2, <2>3 DEF Bijection, Injection, Surjection, IsInjective
<1>8. ExistsBijection(S, T \ {1})
  BY <1>7 DEF ExistsBijection
<1>9. Cardinality(S) = Cardinality(T \ {1})
  BY <1>6, <1>8, FS_Bijection
<1>10. Cardinality(T \ {1}) = IF 1 \in T THEN Cardinality(T) - 1 ELSE Cardinality(T)
  BY <1>5, FS_RemoveElement
<1>11. Cardinality(S) = Cardinality(T) - (IF Head(w).key = k THEN 1 ELSE 0)
  BY <1>4, <1>5, <1>9, <1>10
<1> QED BY <1>11 DEF S, T

(* A frame that joins the line is one answer to its request.               *)
LEMMA PlacesJoined ==
    ASSUME NEW w \in Seq(Frames), NEW f \in Frames, NEW k
    PROVE  Cardinality(Places(Append(w, f), k)) =
               Cardinality(Places(w, k)) + (IF f.key = k THEN 1 ELSE 0)
<1> DEFINE n == Len(w) + 1
           S == Places(w, k)
<1>1. /\ Append(w, f) \in Seq(Frames) /\ Len(Append(w, f)) = n /\ Append(w, f)[n] = f
      /\ DOMAIN w = 1..Len(w) /\ Len(w) \in Nat
      /\ \A i \in DOMAIN w : Append(w, f)[i] = w[i]
  OBVIOUS
<1>2. DOMAIN Append(w, f) = DOMAIN w \cup {n} /\ n \notin DOMAIN w
  BY <1>1
<1>3. Places(Append(w, f), k) = IF f.key = k THEN S \cup {n} ELSE S
  BY <1>1, <1>2 DEF Places
<1>4. n \notin S
  BY <1>2 DEF Places
<1>5. IsFiniteSet(S) /\ Cardinality(S) \in Nat
  BY PlacesFinite
<1> HIDE DEF S
<1>6. Cardinality(S \cup {n}) = Cardinality(S) + 1
  BY <1>4, <1>5, FS_AddElement
<1> QED BY <1>3, <1>5, <1>6 DEF S

(* The abstract variables, seen from a line of frames. *)
Answers(w) == [k \in Keys |-> Cardinality(Places(w, k))]
Phase == IF pc = "idle" THEN "idle" ELSE "busy"

(* The counts are naturals.                                                *)
LEMMA AnswersType == ASSUME NEW w \in Seq(Frames) PROVE Answers(w) \in [Keys -> Nat]
BY PlacesFinite DEF Answers

(* The refinement mapping in these terms. *)
LEMMA Mapped ==
    /\ \A k \in Keys : /\ Phase = "idle" /\ Phase' = "busy" /\ cmd' = k
                        /\ result' = "none" /\ Answers(wire)' = Answers(wire)
                        => Rpc!Ask(k)
    /\ /\ Phase = "busy" /\ Answers(wire)' \in [Keys -> Nat]
       /\ \A k \in Keys : Answers(wire)'[k] <= Answers(wire)[k] + (IF k = cmd THEN 1 ELSE 0)
       /\ Phase' = Phase /\ cmd' = cmd /\ result' = result
       => Rpc!Proceed
    /\ /\ Phase = "busy" /\ Answers(wire)[cmd] > 0
       /\ Answers(wire)' = [Answers(wire) EXCEPT ![cmd] = @ - 1]
       /\ Phase' = "idle" /\ result' = "ok" /\ cmd' = cmd
       => Rpc!Succeed
    /\ /\ Phase = "busy" /\ Answers(wire)' \in [Keys -> Nat]
       /\ \A k \in Keys : Answers(wire)'[k] <= Answers(wire)[k]
       /\ Phase' = "idle" /\ result' = "failed" /\ cmd' = cmd
       => Rpc!GiveUp
    /\ Phase' = Phase /\ cmd' = cmd /\ result' = result /\ Answers(wire)' = Answers(wire)
       => UNCHANGED Rpc!rpcVars
<1> USE DEF Phase, Answers, Places
<1>1. ASSUME NEW k \in Keys, Phase = "idle", Phase' = "busy", cmd' = k,
             result' = "none", Answers(wire)' = Answers(wire)
      PROVE  Rpc!Ask(k)
  BY <1>1 DEF Rpc!Ask
<1>2. ASSUME Phase = "busy", Answers(wire)' \in [Keys -> Nat],
             \A k \in Keys : Answers(wire)'[k] <= Answers(wire)[k] + (IF k = cmd THEN 1 ELSE 0),
             Phase' = Phase, cmd' = cmd, result' = result
      PROVE  Rpc!Proceed
  BY <1>2 DEF Rpc!Proceed
<1>3. ASSUME Phase = "busy", Answers(wire)[cmd] > 0,
             Answers(wire)' = [Answers(wire) EXCEPT ![cmd] = @ - 1],
             Phase' = "idle", result' = "ok", cmd' = cmd
      PROVE  Rpc!Succeed
  BY <1>3 DEF Rpc!Succeed
<1>4. ASSUME Phase = "busy", Answers(wire)' \in [Keys -> Nat],
             \A k \in Keys : Answers(wire)'[k] <= Answers(wire)[k],
             Phase' = "idle", result' = "failed", cmd' = cmd
      PROVE  Rpc!GiveUp
  BY <1>4 DEF Rpc!GiveUp
<1>5. ASSUME Phase' = Phase, cmd' = cmd, result' = result, Answers(wire)' = Answers(wire)
      PROVE  UNCHANGED Rpc!rpcVars
  BY <1>5 DEF Rpc!rpcVars
<1> HIDE DEF Phase, Answers, Places
<1> QED BY <1>1, <1>2, <1>3, <1>4, <1>5

(* An exchange begins: what is on the line stays there.                    *)
LEMMA CallAsks == ASSUME TypeOK, NEW k \in Keys, Call(k) PROVE Rpc!Ask(k)
<1>1. wire' = [i \in DOMAIN wire |-> [wire[i] EXCEPT !.own = FALSE]]
  BY DEF Call
<1>2. \A i \in DOMAIN wire : wire[i] \in Frames
  BY DEF TypeOK
<1>3. DOMAIN wire' = DOMAIN wire /\ \A i \in DOMAIN wire : wire'[i].key = wire[i].key
  BY <1>1, <1>2 DEF Frames
<1>4. \A j \in Keys : Places(wire', j) = Places(wire, j)
  BY <1>3 DEF Places
<1>5. Answers(wire') = Answers(wire)
  BY <1>4 DEF Answers
<1>6. Answers(wire)' = Answers(wire)
  BY <1>5 DEF Answers, Places
<1>7. Phase = "idle" /\ Phase' = "busy" /\ cmd' = k /\ result' = "none"
  BY DEF Call, Phase
<1> QED BY <1>6, <1>7, Mapped

(* Sending loses answers and earns at most one to the request sent.        *)
LEMMA TransmitProceeds == ASSUME TypeOK, Transmit PROVE Rpc!Proceed
<1>1. wire \in Seq(Frames) /\ cmd \in Keys
  BY DEF TypeOK
<1>2. PICK n \in 0..Len(wire) :
        \/ wire' = SubSeq(wire, n + 1, Len(wire))
        \/ \E f \in Frames : f.key = cmd /\ wire' = Append(SubSeq(wire, n + 1, Len(wire)), f)
  <2>1. \A s \in Shapes : [key |-> cmd, fields |-> s.fields, payload |-> s.payload, own |-> TRUE] \in Frames
    BY <1>1 DEF Frames
  <2> QED BY <2>1 DEF Transmit
<1> DEFINE left == SubSeq(wire, n + 1, Len(wire))
<1>3. left \in Seq(Frames)
  BY <1>1, LineFlush
<1>4. \A k \in Keys : Cardinality(Places(left, k)) <= Cardinality(Places(wire, k))
  BY <1>1, PlacesFlushed
<1>5. \A k \in Keys : Cardinality(Places(left, k)) \in Nat /\ Cardinality(Places(wire, k)) \in Nat
  BY <1>1, <1>3, PlacesFinite
<1> HIDE DEF left
<1>6. wire' \in Seq(Frames)
      /\ \A k \in Keys : Cardinality(Places(wire', k))
                            <= Cardinality(Places(wire, k)) + (IF k = cmd THEN 1 ELSE 0)
  <2>1. CASE wire' = left
    BY <1>3, <1>4, <1>5, <2>1
  <2>2. ASSUME NEW f \in Frames, f.key = cmd, wire' = Append(left, f)
        PROVE  wire' \in Seq(Frames)
               /\ \A k \in Keys : Cardinality(Places(wire', k))
                                     <= Cardinality(Places(wire, k)) + (IF k = cmd THEN 1 ELSE 0)
    <3>1. \A k \in Keys : Cardinality(Places(wire', k))
                               = Cardinality(Places(left, k)) + (IF k = cmd THEN 1 ELSE 0)
      BY <1>3, <2>2, PlacesJoined
    <3>2. wire' \in Seq(Frames)
      BY <1>3, <2>2, LineAnswer
    <3> QED BY <1>4, <1>5, <3>1, <3>2
  <2> QED BY <1>2, <2>1, <2>2 DEF left
<1>7. Answers(wire') \in [Keys -> Nat]
  BY <1>6, AnswersType
<1>8. Answers(wire)' = Answers(wire')
  BY DEF Answers, Places
<1>9. Phase = "busy" /\ Phase' = Phase /\ cmd' = cmd /\ result' = result
  BY DEF Transmit, Phase
<1> QED BY <1>6, <1>7, <1>8, <1>9, Mapped DEF Answers

(* The frame handled is for the device and command in its header.          *)
LEMMA KeyReceived ==
    ASSUME NEW f, NEW rx \in Whole(f) \cup Damaged(f)
    PROVE  rx.key = f.key
BY DEF Whole, Damaged, Decoded

(* What the driver does with a frame, when at most the oldest has left the *)
(* line: it succeeds only with one that answers the request, and then that *)
(* one has left.                                                           *)
LEMMA HandleImplements ==
    ASSUME TypeOK, InProgress, pc = "read", NEW rx \in Receptions(Keys), Handle(rx),
           CleanAnswer(rx) => rx.len >= HeaderSize,
           wire' \in Seq(Frames),
           \/ wire' = wire /\ ValidateResponse(rx, cmd, Capacity[cmd]) # "OK"
           \/ wire # << >> /\ wire' = Tail(wire) /\ rx.key = Head(wire).key
    PROVE  Rpc!Proceed \/ Rpc!Succeed \/ Rpc!GiveUp
<1>1. wire \in Seq(Frames) /\ cmd \in Keys /\ result = "none" /\ Phase = "busy"
  BY DEF TypeOK, InProgress, Phase
<1>2. /\ Answers(wire)' = Answers(wire')
      /\ Answers(wire') \in [Keys -> Nat] /\ Answers(wire) \in [Keys -> Nat]
  <2>1. Answers(wire)' = Answers(wire')
    BY DEF Answers, Places
  <2> QED BY <1>1, <2>1, AnswersType
<1>3. \A k \in Keys : Answers(wire')[k] <= Answers(wire)[k]
  <2>1. CASE wire' = wire
    BY <1>2, <2>1
  <2>2. CASE wire # << >> /\ wire' = Tail(wire)
    <3>1. \A k \in Keys : Answers(wire')[k] = Answers(wire)[k] - (IF Head(wire).key = k THEN 1 ELSE 0)
      BY <1>1, <2>2, PlacesTail DEF Answers
    <3>2. \A k \in Keys : Answers(wire')[k] \in Nat /\ Answers(wire)[k] \in Nat
      BY <1>2
    <3> QED BY <3>1, <3>2
  <2> QED BY <2>1, <2>2
<1>4. CASE ValidateResponse(rx, cmd, Capacity[cmd]) = "OK" /\ Accept(rx)
  <2>1. rx.key = cmd
    BY <1>1, <1>4, AcceptedFrame
  <2>2. wire # << >> /\ wire' = Tail(wire) /\ Head(wire).key = cmd
    BY <1>4, <2>1
  <2>3. \A k \in Keys : Answers(wire')[k] = Answers(wire)[k] - (IF cmd = k THEN 1 ELSE 0)
    BY <1>1, <2>2, PlacesTail DEF Answers
  <2>4. Answers(wire)[cmd] > 0
    BY <1>1, <1>2, <2>3
  <2>5. Answers(wire') = [Answers(wire) EXCEPT ![cmd] = @ - 1]
    BY <1>1, <1>2, <2>3
  <2>6. Phase' = "idle" /\ result' = "ok" /\ cmd' = cmd
    BY <1>4 DEF Accept, Return, Phase
  <2> QED BY <1>1, <1>2, <2>4, <2>5, <2>6, Mapped
<1>5. CASE cmd' = cmd /\ pc' \in {"read", "send"} /\ result' = result
  <2>1. Phase' = Phase
    BY <1>1, <1>5 DEF Phase
  <2>2. \A k \in Keys : Answers(wire')[k] <= Answers(wire)[k] + (IF k = cmd THEN 1 ELSE 0)
    BY <1>2, <1>3
  <2> QED BY <1>1, <1>2, <1>5, <2>1, <2>2, Mapped
<1>6. CASE cmd' = cmd /\ pc' = "idle" /\ result' = "failed"
  <2>1. Phase' = "idle"
    BY <1>6 DEF Phase
  <2> QED BY <1>1, <1>2, <1>3, <1>6, <2>1, Mapped
<1>7. CASE RejectStale(rx)
  BY <1>5, <1>6, <1>7 DEF RejectStale, Return
<1>8. ASSUME NEW err, Fail(err)
      PROVE  Rpc!Proceed \/ Rpc!Succeed \/ Rpc!GiveUp
  BY <1>5, <1>6, <1>8 DEF Fail, Return
<1> QED BY <1>1, <1>4, <1>7, <1>8, HandleCases

(* Every step of an exchange is a step of the promise, or none.            *)
LEMMA StepImplements == TypeOK /\ TypeOK' /\ InProgress /\ [Next]_vars => [Rpc!Next]_(Rpc!rpcVars)
<1> SUFFICES ASSUME TypeOK, TypeOK', InProgress, [Next]_vars
             PROVE  Rpc!Next \/ UNCHANGED Rpc!rpcVars
  OBVIOUS
<1>1. ASSUME NEW k \in Keys, Call(k) PROVE Rpc!Next
  BY <1>1, CallAsks DEF Rpc!Next
<1>2. CASE Transmit
  BY <1>2, TransmitProceeds DEF Rpc!Next
<1>3. CASE ReceiveNothing
  <2>1. PICK rx \in Silence : Handle(rx)
    BY <1>3 DEF ReceiveNothing
  <2>2. rx \in Receptions(Keys) /\ ~CleanAnswer(rx)
        /\ ValidateResponse(rx, cmd, Capacity[cmd]) = "SHORT_FRAME"
    BY SilenceReceived DEF TypeOK
  <2>3. pc = "read" /\ wire' = wire /\ wire' \in Seq(Frames)
    BY <1>3 DEF ReceiveNothing, TypeOK
  <2> QED BY <2>1, <2>2, <2>3, HandleImplements DEF Rpc!Next
<1>4. CASE Receive
  <2>1. PICK rx \in Whole(Head(wire)) \cup Damaged(Head(wire)) : Handle(rx)
    BY <1>4 DEF Receive
  <2>2. pc = "read" /\ wire # << >> /\ wire' = Tail(wire) /\ wire \in Seq(Frames) /\ wire' \in Seq(Frames)
    BY <1>4 DEF Receive, TypeOK
  <2>3. Head(wire) \in Frames /\ cmd \in Keys
    BY <2>2, LineTail DEF TypeOK
  <2>4. rx \in Receptions(Keys) /\ (CleanAnswer(rx) => rx.len >= HeaderSize)
    BY <2>3, FrameReceived
  <2>5. rx.key = Head(wire).key
    BY KeyReceived
  <2> QED BY <2>1, <2>2, <2>4, <2>5, HandleImplements DEF Rpc!Next
<1>5. CASE UNCHANGED vars
  <2>1. Phase' = Phase /\ cmd' = cmd /\ result' = result /\ Answers(wire)' = Answers(wire)
    BY <1>5 DEF vars, protocol, Phase, Answers, Places
  <2> QED BY <2>1, Mapped
<1> QED BY <1>1, <1>2, <1>3, <1>4, <1>5 DEF Next

(* nio_call and the single exchanges of the writes keep the promise: an    *)
(* exchange succeeds only by using up an answer that the device gave to a  *)
(* request of the same device and command, whatever the line does.         *)
THEOREM ImplementsRpc == Spec => RpcSpec
<1>1. Init => Rpc!Init
  <2> SUFFICES ASSUME Init PROVE Rpc!Init
    OBVIOUS
  <2>1. wire = << >> /\ pc = "idle" /\ cmd \in Keys /\ result = "none"
    BY DEF Init
  <2>2. \A k \in Keys : {i \in DOMAIN wire : wire[i].key = k} = {}
    BY <2>1
  <2>3. \A k \in Keys : Cardinality({i \in DOMAIN wire : wire[i].key = k}) = 0
    BY <2>2, FS_EmptySet
  <2> QED BY <2>1, <2>3 DEF Rpc!Init
<1>2. IInv /\ IInv' /\ [Next]_vars => [Rpc!Next]_(Rpc!rpcVars)
  BY StepImplements DEF IInv
<1> QED BY <1>1, <1>2, Inductive, PTL DEF Spec, RpcSpec, Rpc!Spec
=============================================================================
