---------------------------- MODULE NioProtocol ----------------------------
(***************************************************************************)
(* The frame check of the NIO transport (sys/nio_protocol.c) and the       *)
(* classification of a failed exchange (sys/nio_transaction.c).  A received *)
(* frame is reduced to the numbers and verdicts those functions look at.   *)
(***************************************************************************)
EXTENDS Integers

HeaderSize == 6     \* device, command, length (2), checksum, fields

Reasons == {"NONE", "TIMEOUT", "BUFFER_FULL", "LINE_STATUS"}

FrameErrors == {"SHORT_FRAME", "LENGTH_MISMATCH", "CHECKSUM", "DEVICE_COMMAND",
                "FIELDS", "EMPTY_STATUS", "REPLY_TOO_LARGE"}

NioErrors == FrameErrors \cup {"NONE", "TIMEOUT", "BUFFER_FULL", "UART"}

(***************************************************************************)
(* What port_getbuf_slip_dual leaves behind: len bytes decoded; length, key *)
(* (device and command) and fields as the header has them; sumOk, whether  *)
(* the one-byte checksum agrees; reason and lsr, the port's own report.    *)
(* own marks an answer to the request being made.  No such mark travels on *)
(* the wire: no definition of the program may read it.                     *)
(***************************************************************************)
Receptions(Keys) ==
    [len: Nat, length: Nat, sumOk: BOOLEAN, key: Keys, fields: BOOLEAN, own: BOOLEAN,
     reason: Reasons, lsr: BOOLEAN]

(* A reply whose device and command were never compared with the request's. *)
ValidateAnyKey(rx, key, capacity) ==
    IF rx.len < HeaderSize THEN "SHORT_FRAME"
    ELSE IF rx.len # rx.length THEN "LENGTH_MISMATCH"
    ELSE IF ~rx.sumOk THEN "CHECKSUM"
    ELSE IF ~rx.fields THEN "FIELDS"
    ELSE IF rx.len - HeaderSize < 1 THEN "EMPTY_STATUS"
    ELSE IF rx.len - HeaderSize - 1 > capacity THEN "REPLY_TOO_LARGE"
    ELSE "OK"

(* The frame check: the first test that fails names the error. *)
ValidateResponse(rx, key, capacity) ==
    IF rx.len < HeaderSize THEN "SHORT_FRAME"
    ELSE IF rx.len # rx.length THEN "LENGTH_MISMATCH"
    ELSE IF ~rx.sumOk THEN "CHECKSUM"
    ELSE IF rx.key # key THEN "DEVICE_COMMAND"
    ELSE IF ~rx.fields THEN "FIELDS"
    ELSE IF rx.len - HeaderSize < 1 THEN "EMPTY_STATUS"
    ELSE IF rx.len - HeaderSize - 1 > capacity THEN "REPLY_TOO_LARGE"
    ELSE "OK"

(* The port's reason handed on as if it were an error of the exchange. *)
PortReason(rx, fallback) == IF rx.reason = "NONE" THEN fallback ELSE rx.reason

(* What the port noticed takes precedence over what it made of the frame. *)
PortError(rx, fallback) ==
    IF rx.lsr \/ rx.reason = "LINE_STATUS" THEN "UART"
    ELSE IF rx.reason \in {"TIMEOUT", "BUFFER_FULL"} THEN rx.reason
    ELSE fallback

(* A retry of every failure, an answer the device really gave included. *)
RetryAnything(error) == error # "NONE"

(* Only damage on the line and silence are worth another attempt. *)
ShouldRetry(error) ==
    error \in {"UART", "TIMEOUT", "SHORT_FRAME", "LENGTH_MISMATCH", "CHECKSUM"}
=============================================================================
