------------------------------ MODULE Transfer ------------------------------
(***************************************************************************)
(* NGET (nget/nget.c) and NPUT (nput/nput.c): a file copied from or to the *)
(* network device through INT F5h, in chunks of at most Chunk pieces, and  *)
(* the stream behind the device.  The stream an earlier program left open  *)
(* is made of pieces 0; a file is made of pieces 1, 2, ...                 *)
(*                                                                         *)
(* NPUT loads the registers of INT F5h in the order of an earlier version  *)
(* of that service: what it asks for is read as a direction, and what it   *)
(* gives as a direction as the command.                                    *)
(***************************************************************************)
EXTENDS BusCall

CONSTANTS
    Pieces,     \* pieces of the source
    Chunk       \* sizeof(buf)

ASSUME TransferAssumption == Pieces \in Nat /\ Chunk \in Nat \ {0}

VARIABLES
    tool,       \* [name, pc, result]
    status,     \* the static status of NGET
    buf, file,  \* its buffer; the file it writes
    stream,     \* the network device: what it streams, how much has come, been read
    sent,       \* pieces NPUT has read of its file
    rough       \* history: exchanges that went wrong in a way the tool ignores

transfer == <<tool, status, buf, file, stream, sent, rough>>

EndOfFile == 136
Refused == 133
NoTool == [name |-> "none", pc |-> "done", result |-> 0]
ClosedStream == [of |-> "none", come |-> 0, read |-> 0]
LeftOpen == [of |-> "old", come |-> 1, read |-> 0]
FewerOf(a, b) == IF a < b THEN a ELSE b

Steps == {"open", "first", "status", "read", "close"}
In(name, pc) == tool.name = name /\ tool.pc = pc
Go(pc) == tool' = [tool EXCEPT !.pc = pc]
Exit(result) == tool' = [tool EXCEPT !.pc = "done", !.result = result]

-----------------------------------------------------------------------------
(* The network device.                                                     *)

Waiting == stream.come - stream.read
Ended == stream.come = (IF stream.of = "file" THEN Pieces ELSE 1)
Content(k) == IF stream.of = "file" THEN k ELSE 0
StatusOf ==
    [bw |-> IF stream.of = "none" THEN 0 ELSE Waiting,
     error |-> CASE stream.of = "none" -> Refused
                 [] stream.of # "none" /\ Waiting = 0 /\ Ended -> EndOfFile
                 [] OTHER -> 1]

Arrives ==
    /\ stream.of # "none" /\ ~Ended
    /\ stream' = [stream EXCEPT !.come = @ + 1]
    /\ UNCHANGED <<tool, status, buf, file, sent, rough>>

-----------------------------------------------------------------------------
(* NGET.                                                                   *)

bw == FewerOf(status.bw, Chunk)
Length == FewerOf(bw, Waiting)

Kind(pc) == CASE pc \in {"first", "status"} -> "status" [] pc = "read" -> "chunk" [] OTHER -> "ack"
Reply(pc) ==
    CASE pc \in {"first", "status"} -> Answer(Device("net"), TRUE, Data("status", StatusOf))
      [] pc = "read" -> Answer(Device("net"), Length > 0,
                               Data("chunk", [i \in 1..Length |-> Content(stream.read + i)]))
      [] OTHER -> Answer(Device("net"), TRUE, Ack)
Effect(pc) ==
    CASE pc = "open" -> [of |-> "file", come |-> 0, read |-> 0]
      [] pc = "read" -> [stream EXCEPT !.read = @ + Length]
      [] pc = "close" -> ClosedStream
      [] OTHER -> stream

NgetAsks ==
    /\ tool.name = "nget" /\ tool.pc \in Steps
    /\ BuildFrame(Device("net"), Kind(tool.pc))
    /\ rough' = IF line # << >> THEN rough \cup {"late"} ELSE rough
    /\ UNCHANGED <<tool, status, buf, file, stream, sent>>

NgetSends ==
    /\ tool.name = "nget"
    /\ \E h \in Handlings(Reply(tool.pc)) :
        /\ SendFrame(h)
        /\ stream' = IF h.done THEN Effect(tool.pc) ELSE stream
    /\ UNCHANGED <<tool, status, buf, file, sent, rough>>

\* What arrives lies in the tool's own variables, accepted or not.
NgetReceives ==
    /\ tool.name = "nget" /\ Receive
    /\ LET d == call'.got.data IN
       CASE tool.pc \in {"first", "status"} /\ d.kind = "status" ->
              status' = d.val /\ UNCHANGED buf
         [] tool.pc \in {"first", "status"} /\ d.kind \in {"junk", "chunk"} ->
              status' \in {[bw |-> 0, error |-> EndOfFile], [bw |-> Chunk, error |-> 1]} /\ UNCHANGED buf
         [] tool.pc = "read" /\ d.kind = "chunk" ->
              buf' = [i \in 1..Chunk |-> IF i <= Len(d.val) THEN d.val[i] ELSE buf[i]] /\ UNCHANGED status
         [] tool.pc = "read" /\ d.kind \in {"junk", "status"} ->
              buf' = [i \in 1..Chunk |-> 0] /\ UNCHANGED status
         [] OTHER -> UNCHANGED <<status, buf>>
    /\ UNCHANGED <<tool, file, stream, sent, rough>>

\* The loop over what the last status said.
Loop == Go(IF bw > 0 THEN "read" ELSE IF status.error = EndOfFile THEN "close" ELSE "spin")

(* A read that failed taken for one that did not. *)
KeepsReading == file' = file \o SubSeq(buf, 1, bw) /\ Go("status")

\* fujiF5_read's answer is looked at for READ alone.
AfterRead ==
    IF CallSucceeds THEN file' = file \o SubSeq(buf, 1, bw) /\ Go("status")
    ELSE Exit(144) /\ UNCHANGED file

NgetReturns ==
    /\ tool.name = "nget" /\ call.phase = "received" /\ CallReturns
    /\ rough' = IF CallSucceeds \/ tool.pc \in {"read", "close"} THEN rough ELSE rough \cup {tool.pc}
    /\ CASE tool.pc = "open" -> Go("first") /\ UNCHANGED file
         [] tool.pc = "first" ->
              /\ IF status.error > 1 /\ status.bw = 0 THEN Exit(status.error) ELSE Loop
              /\ UNCHANGED file
         [] tool.pc = "status" -> Loop /\ UNCHANGED file
         [] tool.pc = "read" -> AfterRead
         [] OTHER -> Exit(0) /\ UNCHANGED file
    /\ UNCHANGED <<status, buf, stream, sent>>

-----------------------------------------------------------------------------
(* NPUT.  Its length, or what is left of it in DX, is taken for a direction *)
(* that INT F5h knows or does not, and its AH for the command.              *)

WriteCommand == "W"
NputCommand == "80h"

\* intf5 with a direction it does not know returns what it finds.
NputOpens(ok) ==
    /\ In("nput", "open") /\ Idle
    /\ IF ok THEN Go("write") ELSE Exit(2)
    /\ UNCHANGED <<bus, status, buf, file, stream, sent, rough>>

\* A chunk was written, the last one perhaps, or was not: CLOSE follows that.
ChunkWritten(ok) ==
    /\ sent' = FewerOf(Pieces, sent + Chunk)
    /\ CASE ~ok -> tool' = [tool EXCEPT !.pc = "close", !.result = 255]
         [] ok /\ sent' < Pieces -> UNCHANGED tool
         [] OTHER -> Exit(0)
NputGoesOn(ok) == IF tool.pc = "write" THEN ChunkWritten(ok) ELSE Go("done") /\ UNCHANGED sent

NputCallsNowhere(ok) ==
    /\ tool.name = "nput" /\ tool.pc \in {"write", "close"} /\ Idle
    /\ NputGoesOn(ok)
    /\ UNCHANGED <<bus, status, buf, file, stream, rough>>
NputCalls ==
    /\ tool.name = "nput" /\ tool.pc \in {"write", "close"}
    /\ BuildFrame(Device("net"), "ack")
    /\ UNCHANGED transfer
NputSends ==
    /\ tool.name = "nput"
    /\ \E h \in Handlings(Answer(Device("net"), TRUE, Ack)) :
        /\ SendFrame(h)
        /\ stream' = IF h.done /\ tool.pc = "write" /\ NputCommand = WriteCommand
                     THEN [stream EXCEPT !.of = "stored"] ELSE stream
    /\ UNCHANGED <<tool, status, buf, file, sent, rough>>
NputReceives == tool.name = "nput" /\ Receive /\ UNCHANGED transfer
NputReturns ==
    /\ tool.name = "nput" /\ call.phase = "received" /\ CallReturns
    /\ NputGoesOn(CallSucceeds)
    /\ UNCHANGED <<status, buf, file, stream, rough>>

-----------------------------------------------------------------------------
Run(name) ==
    /\ tool.pc \in {"done", "spin"} /\ Idle
    /\ tool' = [name |-> name, pc |-> "open", result |-> 0]
    /\ status' = [bw |-> 0, error |-> 0]
    /\ buf' = [i \in 1..Chunk |-> 0]
    /\ file' = << >> /\ sent' = 0 /\ rough' = {}
    /\ UNCHANGED stream

Tools ==
    \/ NgetAsks \/ NgetSends \/ NgetReceives \/ NgetReturns
    \/ \E ok \in BOOLEAN : NputOpens(ok) \/ NputCallsNowhere(ok)
    \/ NputCalls \/ NputSends \/ NputReceives \/ NputReturns
=============================================================================
