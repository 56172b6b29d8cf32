---------------------------- MODULE FirmwareDisk ----------------------------
(***************************************************************************)
(* The block driver of the firmware build (sys/commands.c), from the       *)
(* request DOS hands to Strategy to its answer (sys/dispatch.c), and the   *)
(* FujiNet's slots behind it, whose disks are exchanged at any moment.     *)
(* Each exchange of a command is a step of its own.                        *)
(*                                                                         *)
(* A disk is a number that also is its mount time: every mount is another  *)
(* one.  Each has Sectors[disk] sectors; a sector read is a disk and a     *)
(* number.                                                                 *)
(***************************************************************************)
EXTENDS BusCall

CONSTANTS
    Units,      \* 0..FN_MAX_DEV - 1
    Sectors,    \* [1..n -> Nat]: the disks in the order of their mounting
    Default,    \* sectors in the BPB that Init_cmd makes
    Starts, Counts, \* what DOS asks for
    Scenarios   \* what a behaviour starts from, and its bounds

Mounts == 1..Len(Sectors)
None == 0
Unread == -1    \* a mount time that is no disk's

ASSUME FirmwareDiskAssumption ==
    /\ Sectors \in Seq(Nat) /\ Default \in Nat
    \* options, port, bps: the line in CONFIG.SYS; chip: the UART; open: a
    \* stream was left open; reply: the version, byte by byte; and how many
    \* requests of DOS, runs of a tool, changes of disks, keys and faults.
    /\ \A s \in Scenarios : /\ {s.requests, s.tools, s.changes, s.keys, s.faults} \subseteq Nat
                            /\ s.open \in BOOLEAN /\ s.options \in Seq([length : Nat, value : BOOLEAN])
    /\ Starts \subseteq Nat /\ Counts \subseteq Nat

VARIABLES
    \* The FujiNet.
    medium, mode,   \* [Units -> disks], [Units -> "r" or "rw"]
    mounted,        \* disks mounted so far
    \* The driver.
    mountStatus,    \* mount_status
    slots,          \* disk_slots[].mode
    bpb,            \* fn_bpb_table[].num_sectors
    request,        \* fpRequest, and how far its command has come
    scenario,       \* with what is left of its bounds
    \* DOS: the disk whose BPB it uses, or Unread before it asks for one.
    dos,
    \* History.
    doubt,          \* units whose mount time changed without DOS being told
    written         \* sectors written for this request

fujinet == <<medium, mode, mounted>>
driver == <<mountStatus, slots, bpb>>
disk == <<fujinet, driver, request, scenario, dos, doubt, written>>

NoRequest == [fn |-> "none", unit |-> 0, start |-> 0, count |-> 0, pc |-> "done", idx |-> 0,
              old |-> None, got |-> << >>, status |-> "none", info |-> 0, rough |-> FALSE]
Sector(d, n) == [disk |-> d, sector |-> n]
NoSector == Sector(None, 0)

-----------------------------------------------------------------------------
(* DOS and its requests.                                                   *)

At(fn, pc) == request.pc = pc /\ request.fn = fn

\* Strategy.  rough is history: an answer to an earlier call is under way.
Strategy(fn, u, start, count) ==
    /\ request.pc = "done" /\ scenario.requests > 0
    /\ fn \in {"input", "output", "verify"} => dos[u] # Unread
    /\ request' = [NoRequest EXCEPT !.fn = fn, !.unit = u, !.start = start, !.count = count,
                                    !.pc = "interrupt", !.rough = line # << >>]
    /\ scenario' = [scenario EXCEPT !.requests = @ - 1] /\ written' = {}
    /\ UNCHANGED <<bus, fujinet, driver, dos, doubt>>

Done(status) == request' = [request EXCEPT !.pc = "done", !.status = status]
Goes(pc) == request' = [request EXCEPT !.pc = pc, !.old = mountStatus[request.unit]]

\* The commands the driver only refuses; VERIFY ON makes DOS use "verify" to
\* write.  Most return UNKNOWN_CMD without ERROR_BIT; the dispatcher sets it
\* for a number beyond the last.  And Ioctl_input_cmd, which tells which unit
\* a drive is.
Refusals == [verify |-> "general_fail", flush |-> "general_fail", open |-> "general_fail",
             other |-> "unmarked", beyond |-> "unknown_command"]
NoUnit == -1
IoctlUnit(u) == IF u \in Units THEN u ELSE NoUnit

\* Interrupt: what is decided before the first exchange.
Interrupt ==
    /\ request.pc = "interrupt"
    /\ CASE request.fn = "media" -> Goes("times")
         [] request.fn = "bpb" -> Goes("boot")
         [] request.fn \in DOMAIN Refusals -> Done(Refusals[request.fn])
         [] request.fn = "output" /\ slots[request.unit] # "rw" -> Done("write_protect")
         [] OTHER -> Goes("transfer")
    /\ UNCHANGED <<bus, fujinet, driver, scenario, dos, doubt, written>>

Late(o) == o.got # Nothing /\ ~o.got.own

-----------------------------------------------------------------------------
(* Media_check_cmd.                                                        *)

\* mount_status is the reply buffer: all units, and also when the call fails.
Times(o) ==
    LET d == Decoded(o.got, "times", Data("times", mountStatus)) IN
    IF d = Junk THEN [u \in Units |-> Unread] ELSE d.val

MediaTimes ==
    /\ At("media", "times")
    /\ \E o \in Exchange(Device("fuji"), "times", Answer(Device("fuji"), TRUE, Data("times", medium)), TRUE) :
        /\ Takes(o)
        /\ mountStatus' = Times(o)
        /\ doubt' = doubt \cup {u \in Units \ {request.unit} : mountStatus'[u] # mountStatus[u]}
                          \cup (IF Late(o) \/ (~o.ok /\ mountStatus' # mountStatus) THEN {request.unit} ELSE {})
        /\ IF o.ok THEN request' = [request EXCEPT !.pc = "slots"] ELSE Done("not_ready")
    /\ UNCHANGED <<head, call, fujinet, slots, bpb, scenario, dos, written>>

\* DOS asks for a BPB before it goes on unless the disk is the same.
Told(info) ==
    /\ request' = [request EXCEPT !.pc = "done", !.status = "ok", !.info = info]
    /\ dos' = IF info = 1 THEN dos ELSE [dos EXCEPT ![request.unit] = Unread]

(* The old mount time taken after the call that replaces it. *)
MediaInfoLate == IF mountStatus[request.unit] = None THEN 0 ELSE 1

MediaInfo ==
    LET new == mountStatus[request.unit] IN
    IF new = None THEN 0 ELSE IF new # request.old THEN -1 ELSE 1

MediaSlots ==
    /\ At("media", "slots")
    /\ \E o \in Exchange(Device("fuji"), "slots", Answer(Device("fuji"), TRUE, Data("slots", mode)), TRUE) :
        /\ Takes(o)
        /\ LET d == Decoded(o.got, "slots", Data("slots", slots)) IN
           IF d = Junk THEN slots' \in [Units -> {"r", "rw"}] ELSE slots' = d.val
        /\ IF o.ok THEN Told(MediaInfo) /\ UNCHANGED doubt
           ELSE /\ Done("not_ready") /\ UNCHANGED dos
                /\ doubt' = IF mountStatus[request.unit] # request.old
                            THEN doubt \cup {request.unit} ELSE doubt
    /\ UNCHANGED <<head, call, fujinet, mountStatus, bpb, scenario, written>>

-----------------------------------------------------------------------------
(* Build_bpb_cmd, Input_cmd and Output_cmd.                                *)

DiskOf(u) == <<"disk", u>>

\* The disk in u has that sector and, for a write, may be written.
SectorExchange(u, n, kind, data) ==
    LET there == medium[u] # None /\ n < Sectors[medium[u]] IN
    Exchange(DiskOf(u), kind, Answer(DiskOf(u), TRUE, data), there /\ (kind = "ack" => mode[u] = "rw"))

BuildBpb ==
    /\ At("bpb", "boot")
    /\ LET u == request.unit IN
       \E o \in SectorExchange(u, 0, "sector", Data("sector", Sector(medium[u], 0))) :
        LET d == Decoded(o.got, "sector", Data("sector", NoSector)) IN
        /\ Takes(o)
        /\ IF ~o.ok THEN Done("read_fault") /\ UNCHANGED <<bpb, dos, doubt>>
           ELSE /\ Done("ok")
                /\ bpb' = [bpb EXCEPT ![u] = IF d.val.disk = None THEN 0 ELSE Sectors[d.val.disk]]
                /\ dos' = [dos EXCEPT ![u] = d.val.disk]
                /\ doubt' = IF Late(o) THEN doubt \cup {u} ELSE doubt \ {u}
    /\ UNCHANGED <<head, call, fujinet, mountStatus, slots, scenario, written>>

sector == request.start + request.idx
Beyond == sector >= bpb[request.unit]

\* The loop of Input_cmd and of Output_cmd is left: what the first failure
\* after some success is worth.
Stopped ==
    request' = IF request.idx = 0 THEN [request EXCEPT !.pc = "done", !.status = "general_fail"]
               ELSE [request EXCEPT !.pc = "done", !.status = "ok", !.count = request.idx]
Transfers == request.pc = "transfer" /\ UNCHANGED <<head, call, fujinet, driver, scenario, dos, doubt>>
LoopEnds ==
    /\ Transfers /\ (request.idx = request.count \/ Beyond)
    /\ IF request.idx = request.count THEN Stopped ELSE Done("not_found")
    /\ UNCHANGED <<line, faults, written>>

(* The loop goes on after a sector that could not be read. *)
NextAlways(o, got) ==
    request' = [request EXCEPT !.idx = @ + 1, !.got = got, !.rough = @ \/ Late(o)]

\* One turn of the loop.
NextSector(o, got) ==
    IF o.ok THEN request' = [request EXCEPT !.idx = @ + 1, !.got = got, !.rough = @ \/ o.left # << >>]
    ELSE Stopped

(* The loop of Input_cmd with <= for <. *)
InputOneMore ==
    /\ Transfers /\ At("input", "transfer") /\ ~Beyond
    /\ \E o \in SectorExchange(request.unit, sector, "sector",
                               Data("sector", Sector(medium[request.unit], sector))) :
        /\ Takes(o)
        /\ NextSector(o, Append(request.got,
               Decoded(o.got, "sector", Data("sector", NoSector)).val))
    /\ UNCHANGED written

InputSector ==
    /\ Transfers /\ At("input", "transfer") /\ request.idx < request.count /\ ~Beyond
    /\ \E o \in SectorExchange(request.unit, sector, "sector",
                               Data("sector", Sector(medium[request.unit], sector))) :
        /\ Takes(o)
        /\ NextSector(o, Append(request.got,
               Decoded(o.got, "sector", Data("sector", NoSector)).val))
    /\ UNCHANGED written

OutputSector ==
    /\ Transfers /\ At("output", "transfer") /\ request.idx < request.count /\ ~Beyond
    /\ \E o \in SectorExchange(request.unit, sector, "ack", Ack) :
        /\ Takes(o)
        /\ NextSector(o, << >>)
        /\ written' = IF o.done THEN written \cup {sector} ELSE written

-----------------------------------------------------------------------------
(* Meanwhile, at the FujiNet (its web page, its button, FMOUNT): a disk is *)
(* put into a slot, for reading or for writing too, or taken out.          *)

Change(u, d, m) ==
    /\ medium' = [medium EXCEPT ![u] = d] /\ mode' = [mode EXCEPT ![u] = m]
    /\ scenario.changes > 0 /\ scenario' = [scenario EXCEPT !.changes = @ - 1]
    /\ UNCHANGED <<bus, driver, request, dos, doubt, written>>
Mount(u, m) == mounted < Len(Sectors) /\ mounted' = mounted + 1 /\ Change(u, mounted', m)
Eject(u) == medium[u] # None /\ Change(u, None, "r") /\ UNCHANGED mounted
=============================================================================
