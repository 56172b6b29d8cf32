------------------------------ MODULE NioDisk ------------------------------
(***************************************************************************)
(* The block device of the NIO build (sys/commands_nio.c): DOS units mapped *)
(* to the FujiNet's disk slots, a ring of cached sectors shared by all     *)
(* units, read-ahead, retries, batch sizes that shrink on damaged frames,  *)
(* the cached disk information, media check and BPB.                       *)
(*                                                                         *)
(* A request is carried out in steps, one per turn of the loops of         *)
(* Input_cmd and Output_cmd, because the disk behind the FujiNet changes   *)
(* on its own.  Requests for a unit the driver does not have are turned    *)
(* away before they touch anything and are left out.  A sector's data is a *)
(* member of Data; taken for a boot sector it tells some size of the disk. *)
(***************************************************************************)
EXTENDS Integers, Sequences, FiniteSets

CONSTANTS
    Units,          \* DOS units of the driver
    Slots,          \* disk slots of the FujiNet
    Size,           \* [Slots -> Nat]: sectors of the disk in a slot
    DefaultSize,    \* sectors in the BPB Init_cmd makes up for every unit
    Data,           \* sector contents
    BpbOf,          \* [Data -> Nat]: sectors in the BPB of such a boot sector
    CacheSize,      \* CACHE_SECTORS
    BatchSectors,   \* FUJI_BATCH_SECTORS
    ReadAhead,      \* FUJI_READAHEAD_SECTORS
    IoRetries,      \* FUJI_IO_RETRIES
    AutoDownshift,  \* FUJI_AUTO_DOWNSHIFT
    Flags,          \* what the FujiNet may report of a disk
    MaxCount,       \* bound: sectors of one DOS request
    Disturbances    \* what happens besides plain failures: see below

(* "medium": a disk is exchanged or changed behind the driver's back;      *)
(* "unacked": a write is carried out, in part perhaps, but reported failed; *)
(* "late": an answer arrives after its exchange has failed and is taken    *)
(* for the answer to a later exchange (NioTransaction, OwnAnswer); one at   *)
(* most is under way at a time.                                            *)
ASSUME DiskAssumption ==
    /\ Size \in [Slots -> Nat \ {0}] /\ DefaultSize \in Nat \ {0}
    /\ Units # {} /\ Data # {} /\ BpbOf \in [Data -> Nat]
    /\ CacheSize \in 1..255
    /\ BatchSectors \in 1..CacheSize /\ ReadAhead \in 1..CacheSize
    /\ IoRetries \in 0..16                 \* parse_retry_count clips it
    /\ AutoDownshift \in BOOLEAN
    /\ Flags \subseteq [inserted: BOOLEAN, readOnly: BOOLEAN, changed: BOOLEAN]
    /\ MaxCount \in Nat
    /\ Disturbances \subseteq {"medium", "unacked", "late"}

VARIABLES
    \* The FujiNet.
    content,        \* [Slots -> sectors]: what is on each disk
    flags,          \* [Slots -> Flags]
    late,           \* an answer still to come
    \* The driver.
    unitSlot,       \* nio_unit_slot
    cache,          \* cache_valid, cache_unit, cache_lba, cache_data
    cacheNext,      \* cache_next
    infoCache,      \* info_cache, or Unknown
    mediaChanged,   \* media_changed
    batchLimit,     \* nio_batch_sectors
    readAheadLimit, \* nio_readahead_sectors
    bpbSectors,     \* num_sectors of fn_bpb_table
    \* The request at hand.
    pc,             \* "idle", "read" or "write"
    req,            \* unit, first sector, sectors asked
    done, attempt,  \* the locals of Input_cmd and Output_cmd
    buf,            \* the caller's buffer: what was read, what is to be written
    status,         \* the status word handed back, "none" while it runs
    \* History, read by no action of the program.
    tainted,        \* <<unit, sector>> whose cached copies need not be current
    bpbAge          \* a unit's BPB against its disk: "default" at first;
                    \* "current", "wrong" as taken from sector 0; "outdated" by
                    \* a new sector 0; "old" since the map changed; "told"
                    \* since DOS knows; "kept" as if new

device == <<content, flags, late>>
driver == <<unitSlot, cache, cacheNext, infoCache, mediaChanged, batchLimit,
            readAheadLimit, bpbSectors>>
request == <<pc, req, done, attempt, buf, status>>
history == <<tainted, bpbAge>>
vars == <<device, driver, request, history>>

Unknown == [known |-> FALSE]

Lbas == Nat
Entries == [valid: BOOLEAN, unit: Units, lba: Lbas, data: Data]
Empty == [valid |-> FALSE, unit |-> CHOOSE u \in Units : TRUE, lba |-> 0,
          data |-> CHOOSE d \in Data : TRUE]
NoRequest == [unit |-> CHOOSE u \in Units : TRUE, lba |-> 0, count |-> 0]

(* Answers that are under way: to INFO, READ_SECTOR ("boot"), READ_SECTORS  *)
(* and WRITE_SECTORS, of which the length counts.                          *)
Answers == {a \in [op: {"none", "info", "boot", "read", "write"}, data: Seq(Data),
                   info: Flags \cup {Unknown}] : a.op = "boot" => Len(a.data) = 1}
NoAnswer == [op |-> "none", data |-> << >>, info |-> Unknown]
DataAnswer(op, data) == [op |-> op, data |-> data, info |-> Unknown]
InfoAnswer(info) == [op |-> "info", data |-> << >>, info |-> info]

Smaller(a, b) == IF a < b THEN a ELSE b
Larger(a, b) == IF a > b THEN a ELSE b

-----------------------------------------------------------------------------
(* The sector cache.                                                       *)

Copies(u, l) == {i \in DOMAIN cache : cache[i].valid /\ cache[i].unit = u /\ cache[i].lba = l}

(* cache_find: the copy with the lowest index. *)
FirstCopy(u, l) == CHOOSE i \in Copies(u, l) : \A j \in Copies(u, l) : i <= j

(* cache_store of data[1], data[2], ... as the sectors from l on: each takes *)
(* the next place of the ring, whatever copies there are already.          *)
Stored(u, l, data) ==
    [i \in DOMAIN cache |->
        LET k == (i - cacheNext) % CacheSize IN
        IF k < Len(data) THEN [valid |-> TRUE, unit |-> u, lba |-> l + k, data |-> data[k + 1]]
        ELSE cache[i]]

StoredNext(data) == (cacheNext + Len(data)) % CacheSize

(* A write that goes past the cache. *)
NothingUpdated(u, l, data) == cache

(* cache_update_or_invalidate of the sectors from l on: the first copy of  *)
(* each takes the new data.                                                *)
Updated(u, l, data) ==
    [i \in DOMAIN cache |->
        LET k == cache[i].lba - l IN
        IF k \in 0..(Len(data) - 1) /\ i \in Copies(u, l + k) /\ i = FirstCopy(u, l + k)
        THEN [cache[i] EXCEPT !.data = data[k + 1]]
        ELSE cache[i]]

(* A change of the unit map that keeps what was cached. *)
NothingInvalidated(u) == cache

(* cache_invalidate_unit *)
Invalidated(u) ==
    [i \in DOMAIN cache |-> IF cache[i].unit = u THEN Empty ELSE cache[i]]

-----------------------------------------------------------------------------
(* The FujiNet, seen from the driver.                                      *)

Disks(s) == [0..(Size[s] - 1) -> Data]

Contents == {c \in [Slots -> UNION {Disks(s) : s \in Slots}] : \A s \in Slots : c[s] \in Disks(s)}

(* n sectors from l on, as the device reads them. *)
Sectors(s, l, n) == [k \in 1..n |-> content[s][l + k - 1]]

Readable(s, l, n) == flags[s].inserted /\ l + n <= Size[s]

Writable(s, l, n) == Readable(s, l, n) /\ ~flags[s].readOnly

(* The disk of slot s after the first k sectors of data were written at l. *)
Written(s, l, data, k) ==
    [content EXCEPT ![s] = [x \in DOMAIN content[s] |->
        IF x - l \in 0..(k - 1) THEN data[x - l + 1] ELSE content[s][x]]]

(* d is what sector l of the disk behind unit u holds. *)
OnDisk(u, l, d) == l \in DOMAIN content[unitSlot[u]] /\ content[unitSlot[u]][l] = d

(* The units that see slot s, with all its sectors. *)
SectorsOf(s) == {u \in Units : unitSlot[u] = s} \X (0..(Size[s] - 1))

(* Sectors from l on of which the cache holds a copy.                      *)
Cached(u, l, n) == {p \in {u} \X (l..(l + n - 1)) : Copies(p[1], p[2]) # {}}

(* Cached copies of n sectors from l on in units other than u that see s.  *)
Aliases(u, s, l, n) ==
    {p \in SectorsOf(s) : p[1] # u /\ p[2] \in l..(l + n - 1) /\ Copies(p[1], p[2]) # {}}

(* Sectors from l on of which the cache holds more than one copy.          *)
Duplicates(u, l, n) ==
    {p \in {u} \X (l..(l + n - 1)) : Cardinality(Copies(p[1], p[2])) > 1}

-----------------------------------------------------------------------------
Init ==
    /\ content \in Contents
    /\ flags \in [Slots -> Flags]
    /\ late = NoAnswer
    /\ unitSlot \in [Units -> Slots]
    /\ cache = [i \in 0..(CacheSize - 1) |-> Empty] /\ cacheNext = 0
    /\ infoCache = [u \in Units |-> Unknown]
    /\ mediaChanged = [u \in Units |-> FALSE]
    /\ batchLimit = BatchSectors /\ readAheadLimit = ReadAhead
    /\ bpbSectors = [u \in Units |-> DefaultSize]
    /\ pc = "idle" /\ done = 0 /\ attempt = 0 /\ buf = << >> /\ status = "none"
    /\ req = NoRequest
    /\ tainted = {} /\ bpbAge = [u \in Units |-> "default"]

(* What a step that changes the disks does to the BPBs made from them.      *)
Outdate ==
    bpbAge' = [u \in Units |->
        IF bpbAge[u] = "current" /\ content'[unitSlot[u]][0] # content[unitSlot[u]][0]
        THEN "outdated" ELSE bpbAge[u]]

(* A disk is mounted, unmounted, exchanged or altered behind the driver's  *)
(* back: from the FujiNet's own side or by a program through               *)
(* FUJI_IOCTL_NIO_CALL, whose requests nio_handle_control_call hands on    *)
(* without a look at them.                                                 *)
ChangeMedium(s) ==
    /\ "medium" \in Disturbances
    /\ \E f \in Flags : flags' = [flags EXCEPT ![s] = f]
    /\ \E d \in Disks(s) : content' = [content EXCEPT ![s] = d]
    /\ tainted' = IF content' = content THEN tainted ELSE tainted \cup SectorsOf(s)
    /\ Outdate
    /\ UNCHANGED <<late, driver, request>>

-----------------------------------------------------------------------------
(* Exchanges with the FujiNet.                                             *)

(* What is under way after an exchange without an answer: what was before,  *)
(* or the answer it should have had.  What is never taken is as good as    *)
(* lost.                                                                   *)
Unanswered(waiting, own) == {waiting} \cup (IF "late" \in Disturbances THEN {own} ELSE {})

(* nio_call for op, while the answer waiting is still to come and own is    *)
(* the device's, or NoAnswer if it refuses: what the driver takes for the   *)
(* answer, and what is still to come then.  Only device and command are     *)
(* compared; own goes on being under way after an earlier one was taken.    *)
Exchanged(op, waiting, own) ==
    {[got |-> own, late |-> waiting]}
    \cup {[got |-> NoAnswer, late |-> a] : a \in Unanswered(waiting, own)}
    \cup {[got |-> waiting, late |-> a] : a \in IF waiting.op = op THEN {NoAnswer, own} ELSE {}}

(* disk_info_cached: what is known, or what nio_disk_info brings.           *)
InfoOutcomes(u) ==
    IF infoCache[u] # Unknown
    THEN {[got |-> InfoAnswer(infoCache[u]), late |-> late]}
    ELSE Exchanged("info", late, InfoAnswer(flags[unitSlot[u]]))

NoDisk(info) == info # Unknown /\ ~info.inserted
Changed(info) == info # Unknown /\ info.inserted /\ info.changed

Idle == pc = "idle" /\ UNCHANGED <<pc, req, done, attempt, buf>>

(* DOS learns that the disk of unit u is, or may be, another one.          *)
Tell(u) == bpbAge' = [bpbAge EXCEPT ![u] = IF @ = "current" THEN @ ELSE "told"]

(* Media_check_cmd.  A change of the unit map is reported once; then what   *)
(* the device said first, for as long as it stays cached.                  *)
MediaCheck(u) ==
    /\ Idle
    /\ \/ /\ mediaChanged[u]
          /\ mediaChanged' = [mediaChanged EXCEPT ![u] = FALSE]
          /\ infoCache' = [infoCache EXCEPT ![u] = Unknown]
          /\ status' = "OP_COMPLETE"
          /\ Tell(u) /\ UNCHANGED late
       \/ /\ ~mediaChanged[u]
          /\ \E o \in InfoOutcomes(u) :
               /\ infoCache' = [infoCache EXCEPT ![u] = o.got.info] /\ late' = o.late
               /\ status' = IF o.got.info = Unknown THEN "NOT_READY" ELSE "OP_COMPLETE"
               /\ IF Changed(o.got.info) THEN Tell(u) ELSE UNCHANGED bpbAge
          /\ UNCHANGED mediaChanged
    /\ UNCHANGED <<flags, content, unitSlot, cache, cacheNext, batchLimit, readAheadLimit,
                   bpbSectors, tainted>>

(* The BPB is copied out of d, whosever sector 0 that is.                   *)
BpbFrom(u, d) ==
    /\ bpbSectors' = [bpbSectors EXCEPT ![u] = BpbOf[d]]
    /\ bpbAge' = [bpbAge EXCEPT ![u] = IF OnDisk(u, 0, d) THEN "current" ELSE "wrong"]
    /\ status' = "OP_COMPLETE"

(* The device's answer to READ_SECTOR of sector 0. *)
BootAnswer(u) ==
    IF Readable(unitSlot[u], 0, 1) THEN DataAnswer("boot", Sectors(unitSlot[u], 0, 1)) ELSE NoAnswer

(* Sector 0 is read past the cache and stored there as the unit's, even if  *)
(* it is another's or an old one that came late.                           *)
ReadBoot(u, waiting) ==
    \E r \in Exchanged("boot", waiting, BootAnswer(u)) :
        /\ late' = r.late
        /\ IF r.got.op = "boot"
           THEN /\ cache' = Stored(u, 0, r.got.data) /\ cacheNext' = StoredNext(r.got.data)
                /\ BpbFrom(u, r.got.data[1])
                /\ tainted' = IF OnDisk(u, 0, r.got.data[1]) THEN tainted ELSE tainted \cup {<<u, 0>>}
           ELSE status' = "READ_FAULT" /\ UNCHANGED <<cache, cacheNext, bpbSectors, tainted, bpbAge>>

(* Build_bpb_cmd.  Without a disk the old table is handed back as if it    *)
(* were new; a failure to ask for the information is not one of the BPB.   *)
BuildBpb(u) ==
    /\ Idle
    /\ \E o \in InfoOutcomes(u) :
        /\ infoCache' = [infoCache EXCEPT ![u] = o.got.info]
        /\ \/ /\ NoDisk(o.got.info)
              /\ status' = "OP_COMPLETE" /\ late' = o.late
              /\ bpbAge' = [bpbAge EXCEPT ![u] = IF @ = "current" THEN @ ELSE "kept"]
              /\ UNCHANGED <<cache, cacheNext, bpbSectors, tainted>>
           \/ /\ ~NoDisk(o.got.info)
              /\ Copies(u, 0) # {}
              /\ BpbFrom(u, cache[FirstCopy(u, 0)].data) /\ late' = o.late
              /\ UNCHANGED <<cache, cacheNext, tainted>>
           \/ /\ ~NoDisk(o.got.info)
              /\ Copies(u, 0) = {}
              /\ ReadBoot(u, o.late)
    /\ UNCHANGED <<flags, content, unitSlot, mediaChanged, batchLimit, readAheadLimit>>

(* FUJI_IOCTL_SET_UNIT_MAP of handle_ioctl_buffer.                          *)
SetUnitMap(u, s) ==
    /\ Idle
    /\ cache' = Invalidated(u)
    /\ infoCache' = [infoCache EXCEPT ![u] = Unknown]
    /\ unitSlot' = [unitSlot EXCEPT ![u] = s]
    /\ mediaChanged' = [mediaChanged EXCEPT ![u] = TRUE]
    /\ status' = "OP_COMPLETE"
    /\ tainted' = {p \in tainted : p[1] # u}
    /\ bpbAge' = [bpbAge EXCEPT ![u] = IF s = unitSlot[u] THEN @ ELSE "old"]
    /\ UNCHANGED <<device, cacheNext, batchLimit, readAheadLimit, bpbSectors>>

-----------------------------------------------------------------------------
(* Requests of several sectors.                                            *)

sector == req.lba + done

remaining == req.count - done

slot == unitSlot[req.unit]

(* Sectors of the next exchange that the caller asked for.                 *)
batch == Smaller(Smaller(remaining, batchLimit), bpbSectors[req.unit] - sector)

(* Sectors the next read asks the device for. *)
fetch == Smaller(Larger(batch, readAheadLimit), bpbSectors[req.unit] - sector)

(* The request is handed back: its locals and its buffer are gone. *)
Return(word) ==
    /\ pc' = "idle" /\ status' = word
    /\ req' = NoRequest /\ done' = 0 /\ attempt' = 0 /\ buf' = << >>

(* The end of Input_cmd and Output_cmd: some sectors are as good as all.   *)
Finish == Return(IF done = 0 THEN "GENERAL_FAIL" ELSE "OP_COMPLETE")

Start(op, u, l, n) ==
    /\ pc' = op /\ req' = [unit |-> u, lba |-> l, count |-> n]
    /\ done' = 0 /\ attempt' = 0 /\ status' = "none"

StartRead(u, l, n) ==
    /\ pc = "idle"
    /\ Start("read", u, l, n) /\ buf' = << >>
    /\ UNCHANGED <<device, driver, history>>

(* All sectors done: the head of either loop. *)
Complete ==
    /\ pc # "idle" /\ remaining <= 0
    /\ Finish
    /\ UNCHANGED <<device, driver, history>>

(* A sector past the end of the disk ends the request and reports nothing   *)
(* of the sectors before it.                                               *)
PastEnd ==
    /\ pc # "idle" /\ remaining > 0 /\ sector >= bpbSectors[req.unit]
    /\ Return("NOT_FOUND")
    /\ UNCHANGED <<device, driver, history>>

Reading == pc = "read" /\ remaining > 0 /\ sector < bpbSectors[req.unit]

ReadCached ==
    /\ Reading
    /\ Copies(req.unit, sector) # {}
    /\ buf' = Append(buf, cache[FirstCopy(req.unit, sector)].data)
    /\ done' = done + 1 /\ attempt' = 0
    /\ UNCHANGED <<device, driver, pc, req, status, history>>

(* nio_disk_read_sectors brought data: all of it goes to the cache, what   *)
(* was asked for to the caller.                                            *)
Fetched(data) ==
    /\ cache' = Stored(req.unit, sector, data) /\ cacheNext' = StoredNext(data)
    /\ buf' = buf \o SubSeq(data, 1, batch)
    /\ done' = done + batch /\ attempt' = 0
    /\ UNCHANGED <<flags, content, unitSlot, infoCache, mediaChanged, batchLimit,
                   readAheadLimit, bpbSectors, pc, req, status, bpbAge>>

Missing == Reading /\ Copies(req.unit, sector) = {}

ReadFetch ==
    /\ Missing
    /\ Readable(slot, sector, fetch)
    /\ Fetched(Sectors(slot, sector, fetch))
    /\ UNCHANGED <<late, tainted>>

(* The device's answer to READ_SECTORS. *)
ReadAnswer ==
    IF Readable(slot, sector, fetch) THEN DataAnswer("read", Sectors(slot, sector, fetch)) ELSE NoAnswer

(* The answer to an earlier read of as many sectors; this one's may follow. *)
ReadLate ==
    /\ Missing
    /\ late.op = "read" /\ Len(late.data) = fetch
    /\ Fetched(late.data)
    /\ late' \in {NoAnswer, ReadAnswer}
    /\ tainted' = tainted \cup ({req.unit} \X (sector..(sector + fetch - 1)))

(* The exchange failed; its answer may still be on its way.                *)
ReadUnanswered == late' \in Unanswered(late, ReadAnswer)

half == Larger(1, fetch \div 2)

(* A downshift that leaves the read-ahead alone. *)
DownshiftBatch ==
    /\ batchLimit' = Smaller(batchLimit, half)
    /\ UNCHANGED readAheadLimit

(* Smaller requests from now on, for every unit and for good.               *)
Downshift ==
    /\ batchLimit' = Smaller(batchLimit, half)
    /\ readAheadLimit' = Smaller(readAheadLimit, half)

(* Too much for the line: the same sector again with half the size.        *)
ReadDamaged ==
    /\ Missing
    /\ AutoDownshift /\ fetch > 1
    /\ Downshift /\ attempt' = 0
    /\ ReadUnanswered
    /\ UNCHANGED <<flags, content, unitSlot, cache, cacheNext, infoCache, mediaChanged, bpbSectors,
                   pc, req, done, buf, status, history>>

(* A retry loop that is one turn too long. *)
ReadRetryTooOften ==
    /\ Missing /\ attempt <= IoRetries
    /\ attempt' = attempt + 1
    /\ ReadUnanswered
    /\ UNCHANGED <<flags, content, driver, pc, req, done, buf, status, history>>

ReadRetry ==
    /\ Missing /\ attempt < IoRetries
    /\ attempt' = attempt + 1
    /\ ReadUnanswered
    /\ UNCHANGED <<flags, content, driver, pc, req, done, buf, status, history>>

ReadFail ==
    /\ Missing /\ attempt = IoRetries
    /\ Finish
    /\ ReadUnanswered
    /\ UNCHANGED <<flags, content, driver, history>>

-----------------------------------------------------------------------------
(* The head of Output_cmd: the disk information decides whether to begin.   *)
StartWrite(u, l, data) ==
    /\ pc = "idle"
    /\ \E o \in InfoOutcomes(u) : LET info == o.got.info IN
        /\ infoCache' = [infoCache EXCEPT ![u] = info] /\ late' = o.late
        /\ IF info # Unknown /\ ~info.readOnly
           THEN Start("write", u, l, Len(data)) /\ buf' = data
           ELSE /\ status' = IF info = Unknown THEN "NOT_READY" ELSE "WRITE_PROTECT"
                /\ UNCHANGED <<pc, req, done, attempt, buf>>
    /\ UNCHANGED <<flags, content, unitSlot, cache, cacheNext, mediaChanged, batchLimit,
                   readAheadLimit, bpbSectors, history>>

Writing == pc = "write" /\ remaining > 0 /\ sector < bpbSectors[req.unit]

(* The start of the caller's buffer, whatever has been written already. *)
FirstOutput == SubSeq(buf, 1, batch)

(* What the next exchange writes. *)
output == SubSeq(buf, done + 1, done + batch)

(* The driver takes an exchange for done. *)
Acknowledged ==
    /\ cache' = Updated(req.unit, sector, output)
    /\ done' = done + batch
    /\ UNCHANGED <<flags, unitSlot, cacheNext, infoCache, mediaChanged, batchLimit,
                   readAheadLimit, bpbSectors, pc, req, attempt, buf, status>>

WriteBatch ==
    /\ Writing
    /\ Writable(slot, sector, batch)
    /\ content' = Written(slot, sector, output, batch)
    /\ Acknowledged /\ Outdate
    /\ tainted' = tainted \cup Aliases(req.unit, slot, sector, batch)
                          \cup Duplicates(req.unit, sector, batch)
    /\ UNCHANGED late

(* The acknowledgement of an earlier write, of as many sectors at least, is *)
(* taken for this one's, which may be carried out as well, in part perhaps. *)
WriteLate ==
    /\ Writing
    /\ late.op = "write" /\ Len(late.data) >= batch
    /\ Acknowledged
    /\ \E k \in 0..batch :
        /\ k > 0 => Writable(slot, sector, batch)
        /\ content' = Written(slot, sector, output, k)
        /\ tainted' = tainted \cup Aliases(req.unit, slot, sector, k)
                              \cup ({req.unit} \X (sector..(sector + batch - 1)))
        /\ late' = NoAnswer \/ (k = batch /\ late' = DataAnswer("write", output))
    /\ Outdate

(* A failed write ends the request; the first k sectors may be on the disk. *)
WriteFail ==
    /\ Writing
    /\ Finish
    /\ \E k \in 0..batch :
        /\ k > 0 => Disturbances \cap {"unacked", "late"} # {} /\ Writable(slot, sector, batch)
        /\ content' = Written(slot, sector, output, k)
        /\ tainted' = tainted \cup Aliases(req.unit, slot, sector, k)
                              \cup Cached(req.unit, sector, k)
        /\ \/ late' = late
           \/ "late" \in Disturbances /\ k = batch /\ late' = DataAnswer("write", output)
    /\ Outdate
    /\ UNCHANGED <<flags, driver>>

-----------------------------------------------------------------------------
Step ==
    \/ Complete \/ PastEnd
    \/ ReadCached \/ ReadFetch \/ ReadLate \/ ReadDamaged \/ ReadRetry \/ ReadFail
    \/ WriteBatch \/ WriteLate \/ WriteFail

MaxLba == CHOOSE n \in {Size[s] : s \in Slots} : \A s \in Slots : Size[s] <= n

Ask ==
    \E u \in Units :
        \/ MediaCheck(u) \/ BuildBpb(u)
        \/ \E s \in Slots : SetUnitMap(u, s)
        \/ \E l \in 0..MaxLba, n \in 0..MaxCount : StartRead(u, l, n)
        \/ \E l \in 0..MaxLba, n \in 0..MaxCount : \E data \in [1..n -> Data] : StartWrite(u, l, data)

Next == Ask \/ Step \/ \E s \in Slots : ChangeMedium(s)

(* Every exchange comes back (NioTransaction, ExchangeReturns), so a        *)
(* request under way moves on; DOS need not ask for anything.               *)
Spec == Init /\ [][Next]_vars /\ WF_vars(Step)

-----------------------------------------------------------------------------
Ages == {"default", "current", "wrong", "outdated", "old", "told", "kept"}

TypeOK ==
    /\ content \in Contents /\ flags \in [Slots -> Flags]
    /\ late \in Answers
    /\ unitSlot \in [Units -> Slots]
    /\ cache \in [0..(CacheSize - 1) -> Entries] /\ cacheNext \in DOMAIN cache
    /\ infoCache \in [Units -> Flags \cup {Unknown}]
    /\ mediaChanged \in [Units -> BOOLEAN]
    /\ batchLimit \in 1..BatchSectors /\ readAheadLimit \in 1..ReadAhead
    /\ bpbSectors \in [Units -> Nat]
    /\ pc \in {"idle", "read", "write"}
    /\ req \in [unit: Units, lba: Nat, count: Nat]
    /\ done \in 0..req.count /\ attempt \in 0..IoRetries
    /\ buf \in Seq(Data)
    /\ status \in {"none", "OP_COMPLETE", "NOT_FOUND", "GENERAL_FAIL", "NOT_READY",
                   "WRITE_PROTECT", "READ_FAULT"}
    /\ tainted \subseteq (Units \X Nat)
    /\ bpbAge \in [Units -> Ages]

(* A cached sector differs from the disk only for one of the reasons this  *)
(* driver has no answer to: a second copy in the ring, another unit on the *)
(* same slot, a write that was carried out but reported failed, a disk     *)
(* changed by somebody else, an answer that came late.  In particular a    *)
(* change of the unit map leaves nothing of the old slot behind.           *)
StaleIsExplained ==
    \A i \in DOMAIN cache :
        cache[i].valid /\ ~OnDisk(cache[i].unit, cache[i].lba, cache[i].data) =>
            <<cache[i].unit, cache[i].lba>> \in tainted

(* What a request has done so far, which is what it will report as          *)
(* transferred, agrees with the disk sector by sector, read from it or     *)
(* written to it, across cache hits, batches, retries and downshifts       *)
(* (Input_cmd, Output_cmd), but for the same reasons.                      *)
TransferIsTrue ==
    \A i \in 1..done :
        OnDisk(req.unit, req.lba + i - 1, buf[i]) \/ <<req.unit, req.lba + i - 1>> \in tainted

(* A unit's BPB is that of another slot only until DOS has been told, and    *)
(* kept after that only if the new slot was reported empty; and one that    *)
(* Build_bpb_cmd has made since is the disk's own, whatever was cached, but  *)
(* for the reasons for which a cached sector 0 may be old, until that       *)
(* sector itself is rewritten (SET_UNIT_MAP, Media_check_cmd,               *)
(* Build_bpb_cmd).                                                         *)
BpbFollowsMap ==
    \A u \in Units :
        /\ bpbAge[u] = "current" => bpbSectors[u] = BpbOf[content[unitSlot[u]][0]]
        /\ bpbAge[u] = "wrong" => <<u, 0>> \in tainted \/ mediaChanged[u]
        /\ bpbAge[u] = "old" => mediaChanged[u]
        /\ bpbAge[u] = "kept" => mediaChanged[u] \/ NoDisk(infoCache[u])

(* A write puts the caller's own sectors where they belong and touches no  *)
(* other, however it is cut into exchanges and wherever it is cut short.   *)
WritesStayInRequest ==
    [][\A s \in Slots : \A l \in DOMAIN content[s] :
          content'[s][l] # content[s][l] =>
              /\ pc = "write" /\ s = slot
              /\ l \in req.lba..(req.lba + req.count - 1)
              /\ content'[s][l] = buf[l - req.lba + 1]]_vars

(* Every request ends, however often the line damages frames.              *)
RequestReturns == pc # "idle" ~> pc = "idle"

-----------------------------------------------------------------------------
(* The promise of the driver, BlockDevice, of which caches, batches,       *)
(* retries, downshifts and read-ahead are the work.                        *)
Device == INSTANCE BlockDevice WITH
    Troubles <- Disturbances,
    disks    <- content,
    map      <- unitSlot,
    doubtful <- tainted,
    asked    <- [op |-> pc, unit |-> req.unit, lba |-> req.lba, count |-> req.count,
                 data |-> IF pc = "write" THEN buf ELSE << >>],
    moved    <- SubSeq(buf, 1, done),
    answer   <- status

(* The block driver (Input_cmd, Output_cmd, the media and BPB commands and  *)
(* SET_UNIT_MAP) implements the abstract disks behind units: whatever it    *)
(* does, each step is one that BlockDevice allows, or none it can see.      *)
BlockSpec == Device!Spec

-----------------------------------------------------------------------------
(* What a block device promises (README.md) and this one does not keep: a   *)
(* completed read returns what is on the disk, nobody else using it and    *)
(* nothing having failed.                                                  *)
ReadsLastWrite == \A i \in 1..done : OnDisk(req.unit, req.lba + i - 1, buf[i])
=============================================================================
