------------------------------ MODULE Firmware ------------------------------
(***************************************************************************)
(* FUJINET.SYS with the bus protocol, from CONFIG.SYS on: start-up         *)
(* (sys/init.c), the block driver under DOS (FirmwareDisk), and, while DOS *)
(* does not call it, programs that copy files through its INT F5h          *)
(* (Transfer), which the printer's timer interrupts, and CFGTSR (Hotkey),  *)
(* while DOS waits for a key.  All share the line and the frame buffer of  *)
(* BusCall.  One exchange, the first, is modelled byte by byte (SlipPort). *)
(***************************************************************************)
EXTENDS FirmwareDisk, Transfer, Startup, SlipPort, Hotkey

CONSTANTS
    Names,          \* the tools that are run
    MaxFile,        \* bound: pieces NGET writes
    VersionRequest, \* what get_fujinet_version sends
    Earlier,        \* earlier answers, of which some may still come
    FujiPort        \* the port and the divisor that reach the FujiNet

\* parse_config reserves two bytes for each option, and two, without a look at
\* the area: DOS hands over a line of 127 characters at most, so 64 options.
ASSUME FirmwareAssumption ==
    /\ MaxFile \in Nat
    /\ VersionRequest \in Seq(Bytes) /\ Earlier \subseteq Seq(Bytes)
    /\ \A s \in Scenarios : s.reply \in Seq(Bytes)
    /\ \A s \in Scenarios : Pointer * (Len(s.options) + 1) <= AreaSize

VARIABLES
    boot,       \* how far Init_cmd has come
    used,       \* bytes of the environment area in use
    uart        \* the port's settings

serial == <<port, wire>>
start == <<boot, used, uart>>
vars == <<bus, disk, transfer, serial, start, hotkey>>

Up == boot = "up"

\* parse_config and what needs no FujiNet.
Configure ==
    /\ boot = "parse"
    /\ used' = ParseConfig(scenario.options)
    /\ IF Divides(scenario.bps)
       THEN uart' = PortInit(scenario.port, scenario.bps, scenario.chip) /\ boot' = "version"
       ELSE uart' = uart /\ boot' = "crashed"
    /\ UNCHANGED <<bus, disk, transfer, serial, hotkey>>

\* get_fujinet_version; without the FujiNet no driver stays.
Leftovers == {<< >>} \cup UNION {{SubSeq(Frame(x), k, Len(Frame(x))) : k \in DOMAIN Frame(x)} : x \in Earlier}
Answers == {Clean(l) \o Clean(Frame(scenario.reply)) : l \in Leftovers}
Reaches == uart.base = FujiPort.base /\ uart.divisor = FujiPort.divisor
VersionSent == PutStarts(VersionRequest) /\ uart' = FlushRx(uart) /\ UNCHANGED <<faults, boot>>
VersionAnswered ==
    /\ \/ ~Reaches /\ PutEnds(<< >>) /\ UNCHANGED faults
       \/ Reaches /\ (\E w \in Answers : PutEnds(w)) /\ UNCHANGED faults
       \/ /\ Reaches /\ faults > 0 /\ faults' = faults - 1
          /\ \E w \in UNION {Faulty(a) : a \in Answers} : PutEnds(w)
    /\ UNCHANGED <<boot, uart>>
\* Length and checksum hold only for the frame as it was sent.
VersionReturns ==
    /\ PortDone
    /\ boot' = IF port.got = scenario.reply THEN "clock" ELSE "failed"
    /\ port' = PortIdle /\ wire' = << >>
    /\ UNCHANGED <<faults, uart>>
Version ==
    /\ boot = "version"
    /\ \/ VersionSent \/ VersionAnswered \/ VersionReturns
       \/ PortMoves /\ UNCHANGED <<faults, boot, uart>>
    /\ UNCHANGED <<line, head, call, disk, transfer, used, hotkey>>

\* get_set_time
Clock ==
    /\ boot = "clock"
    /\ \E o \in Exchange(Device("clock"), "status", Answer(Device("clock"), TRUE, Data("status", 0)), TRUE) :
        Takes(o) /\ boot' = IF o.ok THEN "up" ELSE "failed"
    /\ UNCHANGED <<head, call, disk, transfer, serial, used, uart, hotkey>>

Start == Configure \/ Version \/ Clock

\* One foreground: a program runs when DOS is not in the driver, and DOS is
\* called when no INT F5h call is under way.
InDriver == request.pc # "done"

Dos ==
    \/ \E u \in Units : Strategy("media", u, 0, 0) \/ Strategy("bpb", u, 0, 0)
    \/ \E fn \in DOMAIN Refusals : Strategy(fn, 0, 0, 1)
    \/ \E fn \in {"input", "output"}, u \in Units, s \in Starts, n \in Counts : Strategy(fn, u, s, n)

Disk ==
    /\ Idle /\ ~tsr.menu
    /\ Dos \/ Interrupt \/ MediaTimes \/ MediaSlots \/ BuildBpb \/ LoopEnds \/ InputSector \/ OutputSector
    /\ UNCHANGED transfer

Program ==
    /\ ~InDriver /\ ~tsr.menu
    /\ \/ Tools /\ Len(file') <= MaxFile /\ UNCHANGED scenario
       \/ \E name \in Names : Run(name) /\ scenario.tools > 0 /\ scenario' = [scenario EXCEPT !.tools = @ - 1] /\ UNCHANGED bus
    /\ UNCHANGED <<fujinet, driver, request, dos, doubt, written>>

Elsewhere ==
    \/ (\E u \in Units : Eject(u) \/ \E m \in {"r", "rw"} : Mount(u, m)) /\ UNCHANGED transfer
    \/ Arrives /\ UNCHANGED <<bus, disk>>
    \/ PrinterTick /\ UNCHANGED <<disk, transfer>>

\* CFGTSR.  DOS waits for a key, and calls INT 28h then, in the driver as
\* little as in a program's INT F5h; the timer's exchange with the printer
\* does not begin inside DOS.
FromC == SubSeq(Letters, 3, Len(Letters))
UnitOf == [i \in DOMAIN FromC |-> IoctlUnit(i + 1 - BlockDevices)]
Waits == Idle /\ ~InDriver

Typing == /\ (\E k \in UserKeys : Press(k)) \/ PressHotkey
          /\ scenario.keys > 0 /\ scenario' = [scenario EXCEPT !.keys = @ - 1]
          /\ UNCHANGED bus
Loading == /\ scenario.keys > 0
           /\ Install(FirstDrive(FromC, UnitOf)) \/ Uninstall \/ OtherLoads \/ OtherGoes
           /\ UNCHANGED <<bus, scenario>>
BootMode == \E o \in Exchange(Device("fuji"), "ack", Answer(Device("fuji"), TRUE, Ack), TRUE) : Takes(o)
Menu == /\ Choose
        /\ IF SetsBootMode(Head(keys)) THEN BootMode ELSE UNCHANGED <<line, faults>>
        /\ UNCHANGED <<head, call, scenario>>

Keyboard ==
    /\ \/ Typing
       \/ Waits /\ (DosReads \/ ShowMenu \/ IdleStuffs) /\ UNCHANGED <<bus, scenario>>
       \/ Waits /\ (Loading \/ Menu)
    /\ UNCHANGED <<fujinet, driver, request, dos, doubt, written, transfer>>

Init ==
    /\ scenario \in Scenarios
    /\ line = << >> /\ head = Nothing /\ call = NoCall /\ faults = scenario.faults
    /\ medium = [u \in Units |-> None] /\ mode = [u \in Units |-> "r"] /\ mounted = 0
    /\ mountStatus = [u \in Units |-> None] /\ slots = [u \in Units |-> "none"]
    /\ bpb = [u \in Units |-> Default]
    /\ request = NoRequest /\ dos = [u \in Units |-> Unread]
    /\ doubt = {} /\ written = {}
    /\ tool = NoTool /\ status = [bw |-> 0, error |-> 0] /\ buf = [i \in 1..Chunk |-> 0]
    /\ file = << >> /\ stream = (IF scenario.open THEN LeftOpen ELSE ClosedStream) /\ sent = 0 /\ rough = {}
    /\ port = PortIdle /\ wire = << >>
    /\ boot = "parse" /\ used = 0 /\ uart = NoUart
    /\ keys = << >> /\ tsr = NoTsr /\ programs = << >> /\ vector = 0 /\ typed = NoCommand

Next ==
    \/ Start
    \/ Up /\ (Disk \/ Program \/ Elsewhere) /\ UNCHANGED <<serial, start, hotkey>>
    \/ Up /\ Keyboard /\ UNCHANGED <<serial, start>>

Spec == Init /\ [][Next]_vars
-----------------------------------------------------------------------------
(* Types of the variables. *)
TypeOK ==
    /\ \A i \in DOMAIN line : line[i].data.kind \in DOMAIN Room \ {"junk"} /\ line[i].whole
    /\ Len(line) <= MaxLine
    /\ call.phase \in {"none", "built", "sent", "received"}
    /\ medium \in [Units -> {None} \cup Mounts] /\ mode \in [Units -> {"r", "rw"}] /\ mounted \in 0..Len(Sectors)
    /\ mountStatus \in [Units -> {None, Unread} \cup Mounts] /\ slots \in [Units -> {"none", "r", "rw"}]
    /\ bpb \in [Units -> Nat] /\ dos \in [Units -> {None, Unread} \cup Mounts]
    /\ request.pc \in {"done", "interrupt", "times", "slots", "boot", "transfer"}
    /\ request.idx \in 0..request.count /\ Len(request.got) <= request.idx
    /\ tool.pc \in {"open", "first", "status", "read", "close", "write", "spin", "done"}
    /\ file \in Seq(0..Pieces) /\ Len(file) <= MaxFile /\ stream.read <= stream.come

(* A media check reports "not changed" only for the disk whose BPB DOS     *)
(* uses, unless the mount time of the unit was replaced where DOS did not  *)
(* learn of it: by the check of another unit, by one of which the second   *)
(* call failed, or by the answer to an earlier call (Media_check_cmd).     *)
ChangeSeen ==
    At("media", "done") /\ request.status = "ok" /\ request.info = 1 =>
        dos[request.unit] \in {Unread, mountStatus[request.unit]} \/ request.unit \in doubt

(* A transfer in which no answer to an earlier call was about is that of   *)
(* the sectors asked for, in order, and of as many as it claims; a write   *)
(* that stopped may have written one sector more (Input_cmd, Output_cmd).  *)
TransferTrue ==
    request.pc = "done" /\ request.status = "ok" /\ ~request.rough =>
        /\ At("input", "done") => /\ Len(request.got) = request.count
                                  /\ \A i \in DOMAIN request.got : request.got[i].sector = request.start + i - 1
        /\ At("output", "done") =>
               LET asked == {request.start + i - 1 : i \in 1..request.count}
               IN asked \subseteq written /\ written \subseteq asked \cup {request.start + request.count}

(* A call of INT F5h that succeeds got the answer to its own request,      *)
(* unless one to an earlier call was under way when it began; the printer's *)
(* exchange over the same frame buffer, at whatever moment the timer comes, *)
(* makes it fail but never succeed wrongly (fuji_bus_call, intf5).         *)
AnswerOwn == CallSucceeds /\ call.fresh => call.got.own

Prefix(s) == \A i \in DOMAIN s : s[i] = i

(* NGET, if the calls whose outcome it ignores went well, writes the file  *)
(* piece by piece, all of it when it reports success, and waits for ever   *)
(* only for pieces that had not come when it last asked.                   *)
FileTrue ==
    tool.name = "nget" /\ rough = {} =>
        /\ Prefix(file)
        /\ tool.pc = "done" /\ tool.result = 0 => Len(file) = Pieces
        /\ tool.pc = "spin" => Len(file) < Pieces

\* What was received has the header of l, with its length and its checksum.
SameHeader(got, l) ==
    Len(got) >= HdrLen /\ Len(l) >= HdrLen /\ SubSeq(got, 1, HdrLen) = SubSeq(l, 1, HdrLen)

(* The request goes out as one SLIP frame.  A frame that the port hands up  *)
(* without a remark, if no bit was flipped behind the UART's back, is the   *)
(* answer or a whole earlier one, never the tail of one; or, if the         *)
(* caller's buffer is outside the driver's segment, so that a fault in the  *)
(* data is remarked where nobody looks, it has at least the header of such  *)
(* a one, for its length and checksum to tell                               *)
(* (port_putbuf_slip, port_getbuf_slip_dual).                               *)
FrameTrue ==
    /\ Receiving => port.out = Frame(VersionRequest)
    /\ PortDone /\ port.reason = "none" /\ ~port.silent =>
           \E l \in {scenario.reply} \cup Earlier : port.got = l \/ (~DataNear /\ SameHeader(port.got, l))

(* No byte of a frame is stored beyond the header's and the caller's       *)
(* buffer, whatever arrives (port_getbuf_slip_dual). *)
BuffersKept == Len(port.got) <= HdrLen + DataLen

(* The strings of the environment do not reach beyond the area at the end  *)
(* of the driver, wherever in an option it is full (parse_config).         *)
EnvInArea == used <= AreaSize

(* If nobody touches the keyboard after R is chosen, DOS reads the keys     *)
(* that were waiting and then the whole command, with the drive that       *)
(* start-up announced, however often the BIOS's buffer is full meanwhile   *)
(* (run_stuff_step, find_first_fujinet_drive).                             *)
CommandTyped ==
    typed.calm =>
        /\ typed.read \o keys = typed.before \o SubSeq(Command(FirstLetter), 1, tsr.pos)
        /\ ~tsr.stuffing => tsr.pos = Len(Template)

(* Interrupts never lead into memory that was freed, in whatever order      *)
(* CFGTSR and other programs come and go (do_install, MUX_UNINSTALL).      *)
VectorsLive == \A i \in Chain : programs[i].there

-----------------------------------------------------------------------------
(* nput/nput.c:2 says "Send file to network endpoint", and its error code  *)
(* 0 success. *)
NputStores == tool.name = "nput" /\ tool.pc = "done" /\ tool.result = 0 => stream.of = "stored"
=============================================================================
