--------------------------- MODULE NioTransaction ---------------------------
(***************************************************************************)
(* One host exchanging request and response frames with the FujiNet over a *)
(* serial line: nio_transaction_call and nio_call (retries, stale frames), *)
(* the hand-built single exchanges of nio_disk_write_sector(s), and the    *)
(* line between the UART and the device.                                   *)
(*                                                                         *)
(* The line carries answers in order.  It may lose a request, answer late, *)
(* answer with any frame shape, damage a frame, or stay silent past the    *)
(* timeout.  Requests and answers have no sequence number.                 *)
(***************************************************************************)
EXTENDS NioProtocol, Sequences, FiniteSets

CONSTANTS
    Keys,       \* (device, command) pairs
    WriteKeys,  \* those sent by nio_disk_write_sector(s), outside nio_call
    Retries,    \* nio_transport_retries (FUJI_NIO_RETRIES)
    MaxStale,   \* NIO_MAX_STALE_RESPONSES
    Capacity,   \* [Keys -> Nat]: reply_capacity of the caller
    RxSpace,    \* [Keys -> Nat]: room for the payload in the receive buffer
    Shapes,     \* the answers a device gives: fields good or bad, payload size
    MaxWire     \* bound: answers under way at once

ASSUME TransactionAssumption ==
    /\ WriteKeys \subseteq Keys
    /\ Retries \in 0..255               \* a uint8_t
    /\ MaxStale \in 0..254             \* stale_count, a uint8_t, must be able to pass it
    /\ Capacity \in [Keys -> Nat]
    /\ RxSpace \in [Keys -> Nat \ {0}]
    /\ Shapes \subseteq [fields: BOOLEAN, payload: Nat]
    /\ MaxWire \in Nat \ {0}

VARIABLES
    pc,         \* "idle", "send" (top of the attempt loop), "read" (read_response)
    cmd,        \* the device and command of the exchange
    attempt,    \* attempts begun before this one
    stale,      \* stale_count
    error,      \* nio_diag.error
    lastError,  \* nio_last_error
    result,     \* what the last exchange returned: "none" while it runs
    response,   \* the frame whose reply and status were handed to the caller
    wire,       \* answers between the device and the UART, oldest first
    \* History, read by no action of the program:
    runs,       \* times the device carried out the request of this exchange
    reads,      \* frames this exchange has waited for
    answered,   \* a whole answer with the right key came in over a clean line
    overdue     \* answers to earlier requests were under way when it began

protocol == <<pc, cmd, attempt, stale, error, lastError, result, response>>
history == <<runs, reads, answered, overdue>>
vars == <<protocol, wire, history>>

Frames == [key: Keys, fields: BOOLEAN, payload: Nat, own: BOOLEAN]

NoResponse == [none |-> TRUE]

-----------------------------------------------------------------------------
(* The retry budget as a uint8_t; a wrap to zero still makes one attempt. *)
TransportAttempts == IF (Retries + 1) % 256 = 0 THEN 1 ELSE (Retries + 1) % 256

(* A write that went through the retrying transport. *)
AttemptsAlike(k) == TransportAttempts

(* nio_disk_write_sector(s) tries once and never rereads. *)
MaxAttempts(k) == IF k \in WriteKeys THEN 1 ELSE TransportAttempts

StaleBudget(k) == IF k \in WriteKeys THEN 0 ELSE MaxStale

Init ==
    /\ pc = "idle"
    /\ cmd \in Keys
    /\ attempt = 0 /\ stale = 0
    /\ error = "NONE" /\ lastError = "NONE"
    /\ result = "none" /\ response = NoResponse
    /\ wire = << >>
    /\ runs = 0 /\ reads = 0 /\ answered = FALSE /\ overdue = FALSE

(* A caller starts an exchange.  What is still on the wire is now late. *)
Call(k) ==
    /\ pc = "idle"
    /\ pc' = "send" /\ cmd' = k
    /\ attempt' = 0 /\ stale' = 0
    /\ result' = "none" /\ response' = NoResponse
    /\ wire' = [i \in DOMAIN wire |-> [wire[i] EXCEPT !.own = FALSE]]
    /\ overdue' = (wire # << >>)
    /\ runs' = 0 /\ reads' = 0 /\ answered' = FALSE
    /\ UNCHANGED <<error, lastError>>

(***************************************************************************)
(* One attempt up to port_wait_tx_empty.  diag_reset, then flush_rx drops  *)
(* what had reached the UART (the first n answers), then the frame goes    *)
(* out.  It is lost, or the device carries it out and its answer, of some  *)
(* shape, is under way.                                                    *)
(***************************************************************************)
Transmit ==
    /\ pc = "send"
    /\ pc' = "read" /\ stale' = 0
    /\ response' = NoResponse
    /\ error' = IF cmd \in WriteKeys THEN error ELSE "NONE"
    /\ \E n \in 0..Len(wire) :
        LET left == SubSeq(wire, n + 1, Len(wire)) IN
        \/ wire' = left /\ runs' = runs                 \* request lost
        \/ wire' = left /\ runs' = runs + 1             \* carried out, answer lost
        \/ /\ Len(left) < MaxWire
           /\ runs' = runs + 1
           /\ \E s \in Shapes :
                wire' = Append(left, [key |-> cmd, fields |-> s.fields,
                                      payload |-> s.payload, own |-> TRUE])
    /\ UNCHANGED <<cmd, attempt, lastError, result, reads, answered, overdue>>

-----------------------------------------------------------------------------
(* port_getbuf_slip_dual, seen from its caller.                            *)

(* What the port reports at the end of a frame: line errors stick in lsr,  *)
(* a missing closing END overwrites the reason.                            *)
Reports ==
    {[reason |-> "NONE", lsr |-> FALSE], [reason |-> "LINE_STATUS", lsr |-> TRUE],
     [reason |-> "TIMEOUT", lsr |-> FALSE], [reason |-> "TIMEOUT", lsr |-> TRUE]}

(* Nothing came for the whole timeout. *)
Silence ==
    {[len |-> 0, length |-> 0, sumOk |-> FALSE, key |-> cmd, fields |-> FALSE,
      own |-> FALSE, reason |-> "TIMEOUT", lsr |-> e] : e \in BOOLEAN}

(* Frame f as it is decoded: no more bytes than there is room for, and a   *)
(* buffer filled to the brim ends the read whatever the line reported.     *)
Decoded(f, size, length, sumOk) ==
    LET room == HeaderSize + RxSpace[cmd]
        full == size >= room
    IN  {[len |-> IF full THEN room ELSE size, length |-> length, sumOk |-> sumOk,
          key |-> f.key, fields |-> f.fields, own |-> f.own,
          reason |-> IF full THEN "BUFFER_FULL" ELSE p.reason, lsr |-> p.lsr] : p \in Reports}

Whole(f) == Decoded(f, HeaderSize + f.payload, HeaderSize + f.payload, TRUE)

(* Frame f with bytes lost or altered: cut inside the header, a length     *)
(* that disagrees, or a checksum that does.  (A change that leaves the     *)
(* one-byte checksum right is not modelled.)                               *)
Damaged(f) ==
    LET size == HeaderSize + f.payload
    IN  Decoded(f, HeaderSize - 1, size, FALSE)
          \cup Decoded(f, size, size + 1, FALSE)
          \cup Decoded(f, size, size, FALSE)

-----------------------------------------------------------------------------
(* The exchange returns; nio_call copies the diagnostics, a write does not. *)
Return(ok, err) ==
    /\ pc' = "idle"
    /\ result' = IF ok THEN "ok" ELSE "failed"
    /\ lastError' = IF cmd \in WriteKeys THEN lastError ELSE err
    /\ UNCHANGED <<cmd, attempt, stale>>

Accept(rx) ==
    /\ response' = rx
    /\ error' = IF cmd \in WriteKeys THEN error ELSE "NONE"
    /\ Return(TRUE, "NONE")

(* Give the frame back to read_response, without a limit. *)
RereadForever(rx) ==
    /\ stale' = stale
    /\ UNCHANGED <<pc, cmd, attempt, error, lastError, result, response>>

(* A well-formed frame for another device or command: read again without   *)
(* sending again, until the budget is spent.                               *)
RejectStale(rx) ==
    IF stale + 1 <= StaleBudget(cmd)
    THEN /\ stale' = stale + 1
         /\ UNCHANGED <<pc, cmd, attempt, error, lastError, result, response>>
    ELSE /\ error' = IF cmd \in WriteKeys THEN error ELSE "DEVICE_COMMAND"
         /\ UNCHANGED response
         /\ Return(FALSE, "DEVICE_COMMAND")

(* The loop of nio_transaction_call that gives up one attempt early. *)
FailEarly(err) ==
    /\ error' = IF cmd \in WriteKeys THEN error ELSE err
    /\ UNCHANGED response
    /\ IF ShouldRetry(err) /\ attempt + 2 < MaxAttempts(cmd)
       THEN /\ pc' = "send" /\ attempt' = attempt + 1
            /\ UNCHANGED <<cmd, stale, lastError, result>>
       ELSE Return(FALSE, err)

(* Any other failure ends the attempt and, unless it is worth another, the *)
(* exchange.                                                               *)
Fail(err) ==
    /\ error' = IF cmd \in WriteKeys THEN error ELSE err
    /\ UNCHANGED response
    /\ IF ShouldRetry(err) /\ attempt + 1 < MaxAttempts(cmd)
       THEN /\ pc' = "send" /\ attempt' = attempt + 1
            /\ UNCHANGED <<cmd, stale, lastError, result>>
       ELSE Return(FALSE, err)

(* From read_response to the next read, the next attempt or the return. *)
Handle(rx) ==
    LET verdict == ValidateResponse(rx, cmd, Capacity[cmd]) IN
    CASE verdict = "OK"             -> Accept(rx)
      [] verdict = "DEVICE_COMMAND" -> RejectStale(rx)
      [] OTHER                      -> Fail(PortError(rx, verdict))

(* A whole answer to this device and command, nothing wrong with the line. *)
CleanAnswer(rx) ==
    /\ rx.len = rx.length /\ rx.sumOk /\ rx.key = cmd
    /\ rx.reason = "NONE" /\ ~rx.lsr

(* A wait without a timeout. *)
WaitForever == pc = "read" /\ UNCHANGED vars

ReceiveNothing ==
    /\ pc = "read"
    /\ \E rx \in Silence : Handle(rx)
    /\ reads' = reads + 1
    /\ UNCHANGED <<wire, runs, answered, overdue>>

Receive ==
    /\ pc = "read" /\ wire # << >>
    /\ wire' = Tail(wire)
    /\ \E rx \in Whole(Head(wire)) \cup Damaged(Head(wire)) :
        /\ Handle(rx)
        /\ answered' = (answered \/ CleanAnswer(rx))
    /\ reads' = reads + 1
    /\ UNCHANGED <<runs, overdue>>

Next == (\E k \in Keys : Call(k)) \/ Transmit \/ ReceiveNothing \/ Receive

(***************************************************************************)
(* port_getbuf_slip_dual always comes back: each wait for a byte is bounded *)
(* by the BIOS tick count, read with interrupts on.  So a step that is     *)
(* under way is taken; no caller has to start another exchange.            *)
(***************************************************************************)
Spec == Init /\ [][Next]_vars /\ WF_vars(Transmit \/ ReceiveNothing \/ Receive)

-----------------------------------------------------------------------------
TypeOK ==
    /\ pc \in {"idle", "send", "read"}
    /\ cmd \in Keys
    /\ attempt \in Nat /\ stale \in Nat
    /\ error \in NioErrors /\ lastError \in NioErrors
    /\ result \in {"none", "ok", "failed"}
    /\ response \in Receptions(Keys) \cup {NoResponse}
    /\ wire \in Seq(Frames)
    /\ runs \in Nat /\ reads \in Nat
    /\ answered \in BOOLEAN /\ overdue \in BOOLEAN

(* A reply handed to the caller is a whole frame for the device and command *)
(* asked, small enough for the caller's buffer; and if no earlier answer   *)
(* was still under way when the exchange began, it is the answer to this   *)
(* very request, which the device has carried out (nio_transaction_once).  *)
ReplyIsGenuine ==
    result = "ok" =>
        /\ response.key = cmd /\ response.len = response.length
        /\ response.len - HeaderSize \in 1..(Capacity[cmd] + 1)
        /\ ~overdue => response.own /\ runs > 0

(* No sector write is ever carried out twice for one call, and no other    *)
(* request more often than there are attempts (the retry loop of           *)
(* nio_transaction_call against the single exchange of                     *)
(* nio_disk_write_sectors).                                                *)
RunsBounded ==
    /\ runs <= MaxAttempts(cmd)
    /\ cmd \in WriteKeys => runs <= 1

(* Once a whole answer came in over a clean line the request is not sent   *)
(* again: what the device did is never done once more only because its     *)
(* answer was not to the driver's liking (nio_should_retry_error).         *)
NoResendAfterAnswer == pc = "send" => ~answered

(* An exchange of nio_call fails with an error worth a retry only after    *)
(* all its attempts, and nio_last_error tells success from failure: the    *)
(* read path of the block driver picks its reaction from it.               *)
FailureIsExhausted ==
    pc = "idle" /\ result # "none" /\ cmd \notin WriteKeys =>
        /\ (lastError = "NONE") <=> (result = "ok")
        /\ ShouldRetry(lastError) => attempt + 1 = MaxAttempts(cmd)

(* An exchange waits for at most MaxStale + 1 frames per attempt: foreign  *)
(* frames cannot hold the caller (stale_count, max_attempts).              *)
WaitsBounded == reads <= MaxAttempts(cmd) * (StaleBudget(cmd) + 1)

(* Every exchange returns to its caller. *)
ExchangeReturns == pc # "idle" ~> pc = "idle"

-----------------------------------------------------------------------------
(* What the comments and tests say and the code does not do.               *)

(* port_flush_rx.asm promises stale data is cleared before a transaction,  *)
(* and the transport's tests that a stale response is discarded: so a      *)
(* reply that is accepted answers the request just made.                   *)
OwnAnswer == result = "ok" => response.own

(* README.md describes FUJI_NIO_RETRIES as the retry count of the          *)
(* low-level request and response after a timeout: so an exchange, a write *)
(* too, that failed because nothing ever came has made Retries + 1         *)
(* attempts.                                                               *)
WritesRetried ==
    pc = "idle" /\ result = "failed" /\ runs = 0 /\ ~overdue =>
        attempt + 1 = TransportAttempts

-----------------------------------------------------------------------------
(* The promise of an exchange, NioRpc, with the answers under way counted  *)
(* per device and command.                                                 *)
Rpc == INSTANCE NioRpc WITH
    phase   <- IF pc = "idle" THEN "idle" ELSE "busy",
    answers <- [k \in Keys |-> Cardinality({i \in DOMAIN wire : wire[i].key = k})],
    outcome <- result

RpcSpec == Rpc!Spec
=============================================================================
