# FujiNet MS-DOS drivers in TLA+

A verification development for the FujiNet drivers and tools for MS-DOS: TLA+
modules of the parts whose behaviour is hard to test, TLC configurations that
check them on small instances, and proofs that TLAPS checks for every instance.
Paths are relative to the repository's `src/`.

## The system

A FujiNet is a device on the PC's serial port. It holds disk images in slots,
opens network connections, prints, and keeps the time. The PC talks to it in
frames (SLIP, a six-byte header, a one-byte checksum), one request and one answer
at a time, without sequence numbers. Everything on the PC shares one processor;
concurrency comes from interrupts (timer, keyboard, DOS idle) and from the
device, whose answers may come late, damaged or never.

`sys/` is built in two ways. The *firmware* build speaks the older bus protocol
through `fujicom.c`; the *NIO* build speaks the newer one through
`nio_transaction.c` and adds caching and read-ahead. Both are a DOS block device
driver that also offers its line to programs (INT F5h, IOCTL).

| Component | Sources | State it keeps | Operations | What makes it correct |
| --- | --- | --- | --- | --- |
| NIO frame check | `sys/nio_protocol.c` | none | validate a response | first failed test names the error; only whole frames of the right command pass |
| NIO transaction | `sys/nio_transaction.c`, `sys/nio.c` | retries left, stale frames seen, diagnostics, last error | call with retries; single exchange of a sector write | the reply is an answer to this command; bounded repetitions; bounded waits; it returns |
| Serial port | `sys/port_*.asm`, `sys/portio.asm` | last reason, last line status | SLIP out, SLIP in with timeout, flush | no byte of a frame beyond the buffers; a frame handed up without a remark is one that was sent, as far as remarks reach and the UART notices; every wait ends |
| NIO block driver | `sys/commands_nio.c` | unit map, sector cache, cached disk information, change flags, batch sizes, BPBs | input, output, media check, build BPB, IOCTL | reads return what is on the disk; writes touch their own sectors; a unit's BPB is that of its slot |
| Firmware bus call | `sys/fujicom.c`, `sys/intf5.c` | one frame buffer | exchange for driver and INT F5h | who interrupts whom, a success is the answer to one's own request |
| Firmware block driver | `sys/commands.c` | mount times and states of the slots, BPBs | media check, build BPB, input, output | every change of a disk is reported once to the unit that sees it |
| NIO INT F5h gate | `sys/intf5_nio.c`, `sys/iwrap.asm` | none | guard in front of the control call | foreign requests are turned away |
| Dispatch and start-up | `sys/dispatch.c`, `sys/init.c`, `sys/port_config.c`, `sys/id8250.c` | the request pointer, the environment, the port | Strategy, Interrupt, Init | the environment keeps to its area; no driver stays without a FujiNet |
| Printer driver | `printer/` | character buffer, tick counters | print, flush, timer tick, idle | every character printed once, in order; nothing waits for ever |
| File handles | `ncopy/fujifs.c` | eight handles, their hosts and prefixes, one directory buffer | open, read, write, list, stat, rename | a handle is used by one file; none leaks; a listing is that of its directory |
| Network redirector | `fnshare/` | the redirected drive, DOS's own file tables | DOS redirector functions | files and searches map to handles one to one |
| Copy and transfer tools | `ncopy/`, `nget/`, `nput/` | NCOPY: handles of its own; NGET: a static status | copy loops | what is copied is the file, all of it when nothing is said |
| Hotkey TSR | `cfgtsr/` | pending and stuffing flags, place in the command, saved vectors | INT 9h, INT 28h, pop-up, install, remove | the command arrives whole; no vector leads into freed memory |
| Mount and set-up tools, demonstrations | `fmount/`, `setssid/`, `fconfig/`, `dskread/`, `nc/`, `iss/`, `pcom/`, `x1/`, `fujitime.c` | none | straight-line | not modelled |

How they interact: DOS calls the block driver and the printer driver through
`Strategy` and `Interrupt`; the block driver calls the transaction layer, which
calls the port; programs, the printer driver, the file handles and the redirector
reach the same line through INT F5h or IOCTL; the timer, keyboard and idle
interrupts call into the printer driver and the hotkey TSR at almost any moment.
Every program that links the file handles numbers the same network devices for
itself, from the first: a resident FNSHARE, NCOPY and NGET know nothing of each
other's.
Programs change what is mounted through requests that the block driver passes on
without a look at them.

Where it is hard: answers that arrive after their timeout; retries of requests
that were carried out; reads cut into batches whose size shrinks on damage; a
cache shared by units that may share a disk; disks changed behind the driver; a
timer interrupt that waits for the device while the clock stands still; a buffer
filled and emptied by two threads of control; a search's place kept by DOS, by
the library and by the device; a buffer shared by all directories; errors that
mean "not there" to the code that asks. `PROJECT.json` lists each of these
hazards at its line, with the properties that would show it, or with the reason why
none does: several are what the code does today, and stand as an exception in the
property next to them.

## Modules

| Module | Models | Uses |
| --- | --- | --- |
| `NioProtocol` | frame check, classification of errors | |
| `NioTransaction` | one host, the line, the device: `nio_call`, sector writes | extends `NioProtocol`, instantiates `NioRpc` |
| `NioRpc` | the abstract promise of an exchange | |
| `NioTransactionProofs` | theorems about `NioTransaction` | extends it |
| `NioDisk` | the NIO block driver and the disks behind it | the outcomes of `NioTransaction`, by hand; instantiates `BlockDevice` |
| `BlockDevice` | the abstract promise of a block driver | |
| `NioDiskProofs` | theorems about `NioDisk` | extends it |
| `Printer` | the printer driver, the clock, the device | |
| `PrinterProofs` | theorems about `Printer` | extends it |
| `FujiFs` | the file-handle library and the network devices and share behind it, as operators on one record | |
| `Redirector` | FNSHARE: the calls of DOS, its records and file table | extends `FujiFs` |
| `Ncopy` | NCOPY with a library of its own beside FNSHARE | extends `Redirector` |
| `BusCall` | the firmware build's exchange, INT F5h, the printer's timer in between | |
| `FirmwareDisk` | the firmware block driver, Strategy and Interrupt, DOS's view of the disks | extends `BusCall` |
| `Transfer` | NGET and NPUT | extends `BusCall` |
| `Startup` | environment, port, UART and drive letter | |
| `SlipPort` | the serial port byte by byte | |
| `Hotkey` | CFGTSR among other resident programs | |
| `Firmware` | all of these in one machine, from CONFIG.SYS on | extends the five above |
| `FirmwareTypeProofs` | the types of `Firmware`, in full | extends it |
| `FirmwareDataProofs` | whose answers, sectors, disks and files the firmware build hands on | extends `FirmwareTypeProofs` |
| `FirmwareHostProofs` | interrupt chain, typed command, environment, buffers and frames of the port | extends `FirmwareTypeProofs` |
| `FujiFsProofs` | lemmas about every operation of `FujiFs` | extends it |
| `RedirectorProofs` | theorems about `Redirector` beside `Ncopy` | extends `Ncopy` and `FujiFsProofs` |
| `MCNioTransaction`, `MCNioDisk`, `MCRedirector`, `MCFirmware` | values for TLC | extend theirs |

### NioProtocol and NioTransaction

A frame is a record of what the check looks at: bytes decoded, length claimed,
whether the checksum agrees, device and command, descriptor bits, and the port's
own report. `ValidateResponse` is the frame check test by test, `PortError` and
`ShouldRetry` the classification.

`pc` is "idle" between exchanges, "send" at the top of the attempt loop of
`nio_transaction_call`, "read" at the top of its `read_response` loop. `Call` is
the entry, `Transmit` everything from the reset of the diagnostics through the
flush of the receiver to the end of transmission, `Receive` and `ReceiveNothing`
one `port_getbuf_slip_dual` and all that is done with its result (`Handle`). For
keys in `WriteKeys` the retry and stale budgets are those of the hand-built
exchange of `nio_disk_write_sector(s)`, and the diagnostics are left alone as
they are there. The line (`wire`) keeps answers in order, loses requests and
answers, and delivers damaged frames; a flush drops any number of the oldest
answers, because it clears what has reached the UART and not what is on its way.
Each answer carries a mark `own`, which the program cannot see.

`NioRpc` is the abstract specification: an exchange succeeds only by using up an
answer the device gave to a request of the same device and command. It does not
promise that the answer belongs to the same request: the program cannot know.

### NioDisk

State is that of `commands_nio.c` (unit map, cache ring with its next place,
cached disk information, change flags, the two batch limits, the number of
sectors of each BPB) and the FujiNet's (contents and condition of each slot).
Requests to the driver run in steps, one per turn of the loops of `Input_cmd` and
`Output_cmd`, so that the disk may change in between; `MediaCheck`, `BuildBpb`
and `SetUnitMap` are one step each. An exchange succeeds (`ReadFetch`,
`WriteBatch`), fails with damage (`ReadDamaged`), fails otherwise (`ReadRetry`,
`ReadFail`, `WriteFail`) or is answered by an old answer (`ReadLate`,
`WriteLate`), which are the outcomes `NioTransaction` has. The exchanges of media
check, BPB and the head of a write (`InfoOutcomes`, `ReadBoot`) have the same
outcomes, in one set (`Exchanged`). Sector contents are members of a small set, and
each, taken for a boot sector, tells some number of sectors (`BpbOf`), true of
the disk or not: `BpbFrom` copies it from whatever sector 0 is cached or comes.

`late` is an answer under way that its exchange has given up: of INFO,
READ_SECTOR, READ_SECTORS or WRITE_SECTORS, whose slot nobody compares and of
which only command and length must fit. It is taken by any later exchange of the
kind, whose own answer is then under way in its place. The device may carry out the
write in hand although an older acknowledgement was taken, or none came, in part or
whole (`WriteLate`, `WriteFail`). It serves requests in order, so that a write carried
out after its exchange has failed, before the next request, is one carried out as it
fails.

`BlockDevice` is the abstract specification, without cache, batches, attempts or
information kept about a disk: units that show the disks of the slots they are
mapped to. A read hands over what is on the disk, a write puts the caller's
sectors there in order, a request answers success only if it has moved something
and always if it has moved all. It promises nothing of a sector `doubtful`, and
says with each action what may bring a sector into doubt: a write, for whoever
sees the sectors written and has an older copy; a change of the disk by somebody
else; a late answer, for the sectors of that unit from the next one on in a read, for
those it seems to acknowledge in a write, and for sector 0 in a BPB. Remapping
a unit ends its doubts. The mapping is `Device` in `NioDisk`: `asked` is `pc` with
`req` and the caller's buffer, `moved` the first `done` sectors of `buf`, `doubtful`
is `tainted`.

`tainted` is history: the sectors whose cached copy need not agree with the disk,
each entered by the step that makes it so. `StaleIsExplained` and
`TransferIsTrue` say that *only* those sectors can be wrong, so that the list of
reasons in the module is complete. `bpbAge` records in the same way how a unit's
BPB relates to its slot: "current" and "wrong" say whether the sector 0 it was made
from was the disk's, "outdated" that this has been rewritten since, "old" that the unit
was remapped after it was made, "told" and "kept" what DOS knows of that.
`BpbFollowsMap` says that "current" is what it claims to be, that a "wrong" BPB can
only have come from a sector 0 in doubt, and that an "old" one is only met while
the change of the map is still to be reported. So it needs the cache to be right:
without `cache_invalidate_unit` a remapped unit gets the BPB of its old slot.

### Printer

`prn_buf_add` runs in steps as fine as the timer interrupt can see: the test for
room, the load of the index, the count and the store (in either order, and the
count from memory or from a register, since the build may choose), the note of
the time, and a flush in three steps: checksum, sending, wait. `Tick` is INT 08h
with all of `timer_tick` up to the wait for an answer; `TimerReturns` is the
rest and the chain to the BIOS. The BIOS tick count (`bios`) moves only there.
While the timer waits nothing else runs: the timer interrupt is not yet
acknowledged and has the highest priority. Characters are numbered, so that
order, loss and repetition can be told.

### FujiFs, Redirector and Ncopy

`FujiFs` holds the statics of `fujifs.c` (handle table, directory buffer, last
status) and the FujiNet's devices and share in one record, and every operation
of the library is a function from such a record to the next. The fields `h`, `n`,
`err`, `ent` and `data` are what the operation returns. Trouble comes by counting:
call number `fuse` of an operation is refused, not acknowledged, answered with
less (`short`) or with nothing (`empty`), so that each call of a longer operation
has its turn; a behaviour in which the trouble never came up is cut off by the
guard `fuse = 0`. The directory buffer is a sequence of pieces of text: an entry has two, so
that a refill cuts it in the middle, and `TakenApart` is what `strtok` writes
into the buffer. A loop over a directory is a function of the turn, with as many
turns as pieces are ahead (`Ahead`): a turn takes a piece or ends.

`Redirector` runs one call of DOS per action, because DOS never re-enters a
redirector; inside a call the operations of `FujiFs` follow the code. `sda` is
the search record in DOS's swappable area, `dta` the copies DOS keeps for each
program, `sft` the file table. What DOS and others do is external and named so:
a file moved, a handle duplicated, a search given up, another drive searched
(which leaves a cluster number where the handle was), another program closing
the first device, another client making a file longer. `lost`, `slipped` and
`sloppy` are history: whose handle another has used or closed, whose calls met
trouble, in which known ways handles were left open. The properties are stated
with these exceptions and no others, so that each list of reasons is complete.

`Ncopy` gives NCOPY a library record of its own (`lib`) over the same devices.
Its loops take one turn per action, calls of the redirector between them. `CopyTrue`
is the copy, and three exceptions are part of what it says: an OPEN that never
arrived leaves the device as it was, and GET then copies FNSHARE's directory
text without a word; a read that finds nothing, because the status said 0
bytes or failed, ends GET as the end of the file does; and an empty file put
into a directory that is not there leaves nothing. The third does not occur in the
run, whose directories exist: the proof needed it.

### Firmware and its parts

`BusCall` has the exchange twice. Inside DOS nothing interferes and
`Exchange` is one set of outcomes: handled or not, answered in time, late,
damaged or not. INT F5h of a program takes four steps (`BuildFrame`,
`SendFrame`, `Receive`, `CallReturns`), and `PrinterTick`, a whole exchange of
the printer driver over the same `fb_buffer`, may come between any two.

`FirmwareDisk` steps through the driver's commands, one exchange per step, so
that a disk may be exchanged between the two calls of a media check. A disk is
its mount time. `dos` is the disk whose BPB DOS uses; `doubt` is history: the
units whose mount time was replaced without DOS being told, which is what
`commands.c:48` and `:54` do. `ChangeSeen` says that a change is overlooked only
there. Commands that only refuse or agree are the table `Refusals`, in which
"unmarked" is UNKNOWN_CMD without the error bit.

`Transfer` runs NGET and NPUT call by call. NGET ignores every reply but READ's;
`rough` notes where it ignored a failure, and `FileTrue` says that the file is
right, and complete when NGET says so, where it did not. `Startup` has what
needs no FujiNet: how the line in CONFIG.SYS fills the environment area, which
port and divisor come of it (a rate of zero divides by zero and stops the
machine), what UART is recognised, which drive letter is announced. `SlipPort`
sends a request and receives an answer byte by byte, through the two buffers;
faults are a byte overrun, a byte damaged and the rest missing. The UART notices an
overrun and a stop bit that is not there (`flagged`); the line is set to 8N1, without
parity, and a data bit that flips is not noticed (`silent`). What the port has to
remark (`reason`) it stores through DS, and once the data buffer is begun DS is that
buffer's segment: `Note` has the remark only if that is the driver's own
(`DataNear`). It is not for the exchange modelled, whose buffer is a local of
`get_fujinet_version` on the driver's stack (`dispatch.c:69`). Ahead of the
answer there may be what an earlier one left on the line (`Leftovers`): nothing,
or its frame, whole or from any byte on. In `Firmware` the version exchange of start-up is the
one modelled so; all later exchanges are those of `BusCall`.

`Hotkey` has the BIOS's keyboard buffer, CFGTSR's variables, and the chain of
programs that hook its interrupts, whose three vectors are one. `typed` is
history: what DOS has read since the command was chosen.

`Firmware` puts them in one machine. `scenario` says what a behaviour starts from
and bounds what happens: requests of DOS, runs of a tool, disks exchanged, keys,
faults, the port, the UART, the line in CONFIG.SYS. A machine has one foreground:
DOS is in the driver, or a program runs, or DOS waits for a key.

## Runs

| Run | Instance | Distinct states | Shows |
| --- | --- | --- | --- |
| `NioTransaction` | a read and a write command, 1 retry, 2 stale frames, 5 shapes of answer, 3 answers under way | about 203 thousand | type invariant, the five safety properties, that every exchange returns, and that it implements `NioRpc` |
| `NioStaleAnswer` | the same | | a violation: a reply may answer an earlier request |
| `NioWriteRetry` | the same | | a violation: a write is not retried |
| `NioDiskRough` | 1 unit, disk of 2, BPB of 3, cache of 3, batches of 2, writes that fail half-done | about 330 thousand | cache, transfers, writes within their request, requests return, it implements `BlockDevice` |
| `NioDiskUnits` | 2 units, 2 slots | about 1.4 million | which cached sectors can be old under remapping |
| `NioDiskMedia` | 1 unit, 2 slots of one sector, boot sectors that tell different sizes; disks changed, removed and protected; late answers | about 740 thousand, slots being alike | BPBs, and what reads can bring, when the unit is remapped, the disk changes and answers are late: it implements `BlockDevice` |
| `NioDiskDuplicate` | disk of 4, cache of 4, read-ahead of 2 | | a violation: an old sector is read although nothing failed |
| `Printer` | buffer of 3, flush at 2, 4 characters, timeout of 3 ticks, auto-flush after 2 | about 990 thousand | stores stay in the buffer, characters are accounted for, calls return, a quiet buffer drains |
| `PrinterHang` | the same, 1 character | | a violation: the timer's flush does not time out |
| `Redirector` | 3 handles, a buffer of 3 pieces, a file, one whose name DOS cuts to the first one's, a directory; 2 programs, 1 open file, 4 calls, 1 trouble; NCOPY with a chunk of 2 and files of 2 and 3 | about 208 thousand | the seven invariants and `CreateSpares` below |
| `Firmware` | 2 units, disks of 2 and 3 sectors, 4 requests of DOS; 2 runs of tools over 3 pieces; buffers of 2 and 2 bytes; 5 keys, 3 programs; 1 or 2 faults | about 1.2 million | ten invariants below |
| `FirmwareNput` | the same, NPUT alone | | a violation: NPUT stores nothing and reports success |

`Redirector` asks: which listings are whole (`ListingTrue`), who can lose a handle
(`HoldersHold`), how handles leak (`PoolBalanced`), where a stream stands
(`StreamInStep`), whether a read can exceed its count (`ReadFitsBuffer`), what a
create destroys (`CreateSpares`), what NCOPY copies (`CopyTrue`). `Firmware` asks:
what DOS learns of a new disk (`ChangeSeen`), what a transfer moved
(`TransferTrue`), whose answer a call got (`AnswerOwn`), what NGET wrote
(`FileTrue`), where the environment ends (`EnvInArea`), what a received frame is
(`FrameTrue`) and where it is stored (`BuffersKept`), what CFGTSR types
(`CommandTyped`) and where interrupts lead when programs come and go
(`VectorsLive`).

Why the bounds are enough. `NioTransaction`: one retry and two stale frames tell
a first attempt from a last one and a first stale frame from one within and one
beyond the budget; three answers under way fill the stale budget and overrun it;
the shapes meet every branch of the frame check; and the safety properties are
proved for all values. `NioDiskRough`: a cache of three places and fetches of two
make the ring wrap inside a fetch and over copies of the same request, a BPB
larger than the disk makes a fetch fail at the end, one retry tells retry from
failure, and two sectors are cut by the batch limit and by a downshift to one.
`NioDiskUnits` and `NioDiskMedia`: the hazards relate one sector of a slot to its
copies; two units and two slots give every way to share and swap them. In
`NioDiskMedia` one answer at most is under way and there are no retries at the block
driver's level: a retry is one more exchange, which the next request makes as well. Late
answers to a program's own FUJI_IOCTL_NIO_CALL are not among them. `Printer`:
room, flush mark and full buffer are three different lengths, and the fourth
character meets a buffer that was not emptied; the tick counters wrap within the
run, the timer is due before a wait times out, as 90 ticks are before 272.
`Redirector`: three handles are one for the host and two that a search and a file,
or two searches, fight over, and run out within four calls; a buffer of three
pieces holds an entry and a half; a trouble at the first, second or third call
of an operation meets OPEN, STATUS and READ. `Firmware`: two units are what one
media check needs to overlook the other's change; transfers of two sectors at
the end of a disk of two or three end well, at the end of the disk and by
failure after the first; a header buffer of two and a data buffer of two are
filled by exactly fitting, shorter and longer answers with escapes across the
border; an environment area of 16 bytes is full inside an option, at its equals
sign and at its zero; three keys of command against a keyboard buffer of three
that may hold keys already make the command wait; three programs give every
order of two above or below CFGTSR. What these bounds do not show, larger ones
would only repeat: no property relates more than two units, handles or programs.
The `Printer` and `Firmware` runs allow the system to stop: a FujiNet that never
answers the timer stops the machine, and so does a driver that was not installed
or a scenario used up. No other run does; `Redirector` idles when NCOPY has ended.

### What the violations mean

* `OwnAnswer`: the receiver is flushed before each request, but an answer still
  on its way survives the flush, and device and command are all that is
  compared. A late answer to an earlier sector read is handed over as the sector
  now asked for; a late acknowledgement acknowledges a write that was lost.
* `WritesRetried`: `FUJI_NIO_RETRIES` is documented for the low-level exchange,
  but sector writes do not go through the loop that honours it.
* `ReadsLastWrite`: a read-ahead that overlaps cached sectors caches them a second
  time; a write updates the first copy found; once the ring overwrites that one,
  the other, older copy is read.
* `TimerFlushEnds`: the timer's flush waits for ticks that come only after it
  returns.
* `NputStores`: NPUT still loads the registers of an earlier INT F5h: what it
  means for a length or a translation is read as a direction, and 80h as the
  command. With a direction that service does not know it returns a variable that
  was never set; NPUT takes 'C' for success, goes on, and returns 0.

Properties that hold by exception deserve a word. `Accounted` speaks of printing
with the InDOS flag up. A program that calls INT 17h itself, with InDOS down, can
be interrupted by a due timer between the count and the store of a character or
while its own flush is being sent, and characters are then lost, doubled or
replaced by NULs; on DOS 2, where buffering is off but the timer is hooked all
the same, every such call that lasts into a tick may print its character twice.
An answer 'E' loses the buffer: the driver takes it for a success (`lost`). On
the NIO build the INT F5h gate turns every call of the printer away with 'E', and
so nothing printed there arrives at all.

The exceptions of the other runs name what the code gets wrong without a document
that says otherwise:

* A file opened for reading is never closed at the FujiNet, a written one is
  closed with the first of its duplicates, a search given up keeps its handle,
  rename always fails and leaves its search open, and another search's or file's
  handle is closed when it stands in DOS's record at a `find_first` (`sloppy`,
  `lost`).
* The last of the handles cannot be written to: `fujifs_write` refuses it
  (`ncopy/fujifs.c:301`) after `write_file` has moved the stream (`StreamInStep`).
* `remove_dir` tests the attribute in a record that nothing has filled in; "create
  new" sets the flag that replaces; any failure of the look-up counts as a file
  that is not there, so that a create empties one that is (`CreateSpares`).
* PUT opens its file for writing and looks at nothing that says whether it is
  there: into a directory that does not exist an empty file is put without a word
  and leaves nothing, a longer one fails with the first write (`CopyTrue`).
* A media check of one unit overwrites the mount times of all; a second call that
  fails loses the change (`doubt`). An answer to an earlier call is taken for the
  answer to this one whenever device and length fit (`fresh`, `rough`).
* CFGTSR restores the vectors it saved whatever was loaded since: programs above
  it lose their interrupts, although no vector leads into freed memory
  (`VectorsLive`). Choosing the command again while it is being typed begins it
  anew (`calm`). Its header says Ctrl+Shift+F5, its code Ctrl+Alt+M.
* `parse_config` says that it returns the bytes remaining and returns those used,
  and `Init_cmd` ends the driver that far before its end: of an area more than
  half full a part is given back to DOS (`Resident`). Nothing reads the
  environment after start-up.
* A rate of 0 in FUJI_BPS divides by zero, one above 115200 sets the divisor 0
  (`Divides`, `Divisor`); the FIFO switched off for a UART whose FIFO does not
  work is on again with the first flush (`FlushRx`).
* `Output_verify_cmd` always fails: with VERIFY ON every write does.
* Once the data buffer is begun in a segment of its own, the port stores its remarks
  in that segment: the caller reads "none", and a byte there is overwritten
  (`port_getbuf_slip_dual.asm:192`, `FrameTrue`).
* A late answer to READ_SECTOR gives a unit the BPB of another disk, or of this one as
  it was, and caches its sector as the unit's; a late one to INFO makes a disk
  protected, or absent, until the unit is remapped (`BpbFollowsMap`, `BlockSpec`).

## Fairness

`NioTransaction`: weak fairness of `Transmit \/ ReceiveNothing \/ Receive`. Each wait
for a byte ends by the BIOS tick count, with interrupts enabled, so an exchange
under way always proceeds; nothing makes a caller begin another. `NioDisk`: weak
fairness of the steps of a request under way, because every exchange returns
(`ExchangeReturns`); none of `Ask`, which is up to DOS, nor of any one outcome:
`RequestReturns` holds even if every exchange fails. `Printer`: weak fairness of
the foreground's steps inside the driver, of the clock, and of the return of a
timer flush that can return; programs need not print, nor enter or leave DOS.
The polling loop of a wait runs many times between two ticks, so a wait that is
over ends before the next tick: that is a guard of `Tick`. `Redirector` and
`Firmware` state no fairness and no liveness: their loops ask, at each turn,
something outside, and end when it says so. NGET alone can wait for ever
(`nget.c:107`), which `FileTrue` treats as a state ("spin"): it waits only for
what had not come when it last asked.

## Proofs

`NioTransactionProofs` proves for every set of commands, retry count, stale budget,
buffer size and answer shape, under `TransactionAssumption`:

| Theorem | States |
| --- | --- |
| `TypeCorrect` | `Spec => []TypeOK` |
| `Inductive` | `Spec => []IInv` |
| `RepliesAreGenuine` | `Spec => []ReplyIsGenuine` |
| `RunsAreBounded` | `Spec => []RunsBounded` |
| `AnswersEndTheExchange` | `Spec => []NoResendAfterAnswer` |
| `FailuresAreExhausted` | `Spec => []FailureIsExhausted` |
| `WaitsAreBounded` | `Spec => []WaitsBounded` |
| `ImplementsRpc` | `Spec => RpcSpec` |

None of these is inductive. `IInv` adds to the type invariant how far an exchange
can have come (`InProgress`): the attempt is below the number of attempts and the
stale count within its budget; each request carried out is paid for by an attempt
begun, each frame waited for by a completed attempt's full budget or by this
attempt's stale count; an exchange under way has no result and has seen no clean
answer. And it says what the line holds (`LineIsOwn`): unless earlier answers were
under way at the beginning, every frame answers this exchange, and there is one only
if the device carried the request out. The wire is a sequence, and the lemmas about
it say what `SubSeq`, `Append` and `Tail` leave of its elements. The step lemmas
treat the retry, the stale frame and the return separately, because `Receive` and `ReceiveNothing` share them. The
assumption that the stale budget is at most 254 is needed because `stale_count`
is a byte that must be able to exceed it.

`ImplementsRpc` is the refinement: `NioRpc` counts answers, the transaction has
them in a sequence. `StepImplements` takes each action to a step of the abstract
exchange or to none. What it needs of the line is how many answers with one key
are left when a frame is taken, added or flushed, and that a frame handed to the
caller was one of them; `IInv` gives the phase.

`PrinterProofs` proves for every buffer size, flush mark, timeout and number of
characters, under `PrinterAssumption`:

| Theorem | States |
| --- | --- |
| `TypeCorrect` | `Spec => []TypeOK` |
| `Inductive` | `Spec => []IInv` |
| `StoresStayInBuffer` | `Spec => []BufferHolds` |
| `CharactersAccounted` | `Spec => []Accounted` |

The store of a character follows its test for room by several steps, and the timer
may come in between. `Room`, the second half of `IInv`, says why that does no harm:
the timer only ever empties the buffer, so an index below the end stays there; and
the count, taken from memory or from a register, is at most one more than such an
index. `Room` holds with InDOS up or down.

`Accounted` speaks of states outside the driver; `Books` says at each place inside
it what waits and how many characters ought to have arrived. `HalfStored` covers
the two halves of the append. The step that carries the argument is `BooksSend`:
inside the driver InDOS is up, so that the timer keeps away, so that the frame on
the line is the one summed up and also all that waits. `Whole` is the account
itself, and three lemmas about sequences say how it goes on when a character
joins (`WholeGrows`), when what waits is printed (`WholePrinted`) and when it is
lost (`WholeLost`). Without the exception for `direct` the theorem is false, as
said above.

Three modules prove about `Firmware`, for every number of answers under way, units,
disks, scenarios, buffer lengths, command and programs, under the named assumptions
of the modules `Firmware` extends. Its own, `FirmwareAssumption`, is that the
pointers to the options fit the environment area: a line of CONFIG.SYS has at most
127 characters and so 64 options, and the area 256 bytes (`sys/header.asm:11`,
`sys/init.c:320`); and that the request for the version, the answers to it and
earlier answers are sequences of bytes, of any length.

| Module | Theorem | States |
| --- | --- | --- |
| `FirmwareTypeProofs` | `TypeCorrect` | `Spec => []TypeOK` |
| | `TypesHold` | `Spec => []Typed` |
| `FirmwareDataProofs` | `AnswersOwn` | `Spec => []AnswerOwn` |
| | `TransfersTrue` | `Spec => []TransferTrue` |
| | `ChangesSeen` | `Spec => []ChangeSeen` |
| | `FilesTrue` | `Spec => []FileTrue` |
| `FirmwareHostProofs` | `InterruptsLive` | `Spec => []VectorsLive` |
| | `CommandReachesDos` | `Spec => []CommandTyped` |
| | `EnvironmentFits` | `Spec => []EnvInArea` |
| | `NothingBeyondBuffers` | `Spec => []BuffersKept` |
| | `FramesTrue` | `Spec => []FrameTrue` |

`Typed` is more than `TypeOK`: what an exchange returns depends on what lies on the
line, so the line has types too, which device's frames carry which data, and a
request or a call says what it has come to.

`AnswerOwn` looks at the moment a call has received something. `BusInv`, which is
inductive, says what must be true before: only a driver that is up has a call
under way, and only with the network device; while a call that began with
nothing on the line is under way, every answer on the line from that device is
its own; and what it has received is its own, or not whole, or from another
device. The printer's exchange in the middle of a call brings answers of another
device, which the check turns away; the driver's and start-up's exchanges bring
any, but take place when no call is under way. One lemma says what an exchange
leaves on the line, one what a tick does, one for each step of the call; every
other action leaves line, buffer and call alone (`Untouched`) or is an exchange
when no call is under way. The frame buffer does not enter into it: it can make
a call fail and not succeed wrongly.

`BuffersKept` needs `PortInv`: while bytes are being received, those stored, the
room in the buffer in hand and the room of the other add up to the two lengths,
and there is room whenever a byte is looked at. `StoredFits` is the step that
carries it: where the one buffer is full the other begins, once, or the frame
ends. With a data buffer that begins again (`StoredForever`) the sum breaks.

`TransferInv` says what a request of DOS has, sector by sector, while no answer to
an earlier call was about (`~rough`): nothing is on the line, what was read is of
the sectors from the first on, in order, and those written are the ones counted.
Nothing but an answer left on the line can bring a sector of an earlier request.

`SeenInv` carries `ChangeSeen` over the two calls of a media check. Between checks a
unit is `Settled`: DOS uses the disk whose mount time the driver knows, or the
check to come will see a difference, or the unit is in `doubt`. Between the two
calls `Checks` says the same of the mount time as it was at the first. The
check of one unit writes the mount times of all; those it finds changed enter
`doubt` by the very assignment, and the theorem says that nothing else needs to.

`FileInv` follows NGET while nothing was ignored that failed: what is written is a
beginning of the file, what the stream still has continues it, and no status says
the end has come before it has (`TrueFrame` for the answer on the line, `Heard`
for the one copied out of the frame buffer). The printer's timer may replace the
frame buffer between any two steps; the call then fails, or the answer is its own.

`ChainInv`: each program has saved a vector that leads to one loaded before it, and
the chain of handlers has CFGTSR once at most and nothing that was freed. Removing
CFGTSR puts back the vectors it saved, whoever has hooked them since; what these
lead to was loaded before it, so that the chain left does not come to CFGTSR again. `TypingInv`: the keys
waiting before the command, what DOS has read, what is in the buffer and what is
left of the template make up one sequence. `EnvInv` rests on what the recursive
functions for the layout compute.

`FrameInv` follows the exchange that is modelled byte by byte. `Sent` and `Rest`
are the two halves of a frame, what has gone out and what is to come after each
byte of the payload, both defined by recursion; `FrameBegins` says that they make
up the frame wherever it is cut. While the request goes out, `out` is the half
sent (`Sends`). While the answer comes in, nothing remarked on or flipped unseen,
`Hearing` says what is still to come: junk up to an END and then the beginning of
a frame, or, when some of a payload has been stored, the other half of just that
frame, or the second byte of a pair. The wire agrees with it up to the first byte
that the UART flags (`Follows`), whatever single fault there is (`FaultyFollow`).
After a flagged byte nothing is claimed where the remark stays; where it is lost
the data buffer has been begun, so that the header is complete, and whatever is
stored later leaves it as it is (`HeaderKnown`, `Grown`). `TookHears`
is the step: a byte moves one place on, or it is the END, and then the
payload stored is whole. That the tail of an earlier frame is never taken for a
frame is `TailEnds`: its only END is its last byte, which is where the receiver
begins. With a byte behind an escape stored as it is (`AsItIs`) the halves part.

`RedirectorProofs` proves of `CopySpec`, FNSHARE with NCOPY beside it, for every
number of handles, programs and open files, every directory tree and order of its
entries, every buffer of two pieces or more, every trouble and any number of calls,
under `FujiFsAssumption` and those of the modules above it:

| Theorem | States |
| --- | --- |
| `TypeCorrect` | `CopySpec => []TypeOK` |
| `HandlesKept` | `CopySpec => []HoldersHold` |
| `PoolKept` | `CopySpec => []PoolBalanced` |
| `StreamsFollow` | `CopySpec => []StreamInStep` |
| `ListingComplete` | `CopySpec => []ListingTrue` |
| `ReadsFit` | `CopySpec => []ReadFitsBuffer` |
| `CreatesSpare` | `CopySpec => CreateSpares` |
| `CopiesTrue` | `CopySpec => []CopyTrue` |

`FujiFsProofs` says of each operation of the library what it leaves: its types, which
handles and streams it touches (`Elsewise`), what it does when nothing fails, and
where it leaves a directory. From there five arguments go on:

* *Handles.* A call reaches only handles that were free and those of the files or
  searches it is about (`Reaches`, `Effect`). So who is not about to lose its handle
  keeps it, and `Holders` is inductive: nobody is live before the share is mapped,
  who has lost nothing is `Sound` (open, on what was opened, and standing where the
  file table says), and no two of these have the same handle (`Apart`). `HoldersHold`
  and `StreamInStep` are parts of it.
* *The pool.* `Balanced`: until a handle has been left open for a known reason
  (`sloppy`), every handle marked open is that of an open file or a running
  search. Each step says which free handles it may take (`Takes`), those of a file
  or search that lives after it, and that a handle somebody had is still his
  or free again (`Accounted`). The work is in the failures: an open or
  search that fails on its way gives its handle back, whatever it has met, except
  where a file opened only to read is closed (`redir.c:445`) or a walk over a
  wildcard is broken off.
* *Listings.* `Place` is where the reading of a directory stands: the stream has
  given `2 m` pieces and what is unread of the buffer is their continuation, so
  that `m` entries have been taken. `NextEntry` moves from one place to a next,
  through a refill that breaks an entry off in the middle or not; that is what
  `BufSize >= 2` is assumed for, without which no entry ever fits (its value is
  `OPEN_SIZE`). A search that nobody has disturbed is at a place whose matches so far
  are what it has returned (`Listings`), and where the listing ends it has
  returned all.
* *Calls.* `ReadsFit` and `CreatesSpare` are about one call each. A read asks for no
  more than the program did: what is left of the file is taken modulo 2^16, which is
  smaller than the count where the position is not beyond the end. A look-up
  that meets no trouble finds every entry of a directory that exists, by the argument
  for listings, so that a create that empties a file has been told there is none.
* *Copies.* `Copying` says where NCOPY's stream stands: while GET runs and nobody
  has come between, what it has written is the file up to the stream's place, and
  it leaves its loop early only with a remark or after a call that failed; while
  PUT runs the stream stands at the end of the file on the share, which is what
  has been sent, and it leaves its loop without a remark only when all has been.
  Every step of the redirector keeps this or takes NCOPY's copy out of `clean`
  (`BesideCopying`), whichever handles the two libraries have come to share.

Loops and listings are recursive functions. That there is such a function is shown
by induction over sets of numbers (`Iterated`, `Recursion`), for which the library's
theorem about well-founded sets needs no operator.

`NioDiskProofs` proves for every set of units, slots and data, every disk size,
cache, batch and read-ahead size, retry count and set of disturbances, under
`DiskAssumption`:

| Theorem | States |
| --- | --- |
| `TypeCorrect` | `Spec => []TypeOK` |
| `BpbsFollowMap` | `Spec => []BpbFollowsMap` |
| `StaleExplained` | `Spec => []StaleIsExplained` |
| `TransfersTrue` | `Spec => []TransferIsTrue` |
| `ImplementsBlockDevice` | `Spec => BlockSpec` |
| `WritesStay` | `Spec => WritesStayInRequest`, given `"medium" \notin Disturbances` |

`Typed` adds to the types how much of its buffer a request has come to use
(`Progress`), without which what is written next need not be in the buffer.
`BatchNumbers` is the arithmetic of the loops: where a sector is due and inside
the BPB, a batch and a fetch are of one sector at least, a fetch no smaller than
its batch, and a batch no larger than what is left, however far the downshift has
gone. `StaleIsExplained` and
`TransferIsTrue` are inductive together (`Truth`), because a read takes from the
cache what it reports, and a fetch puts into both what the disk holds. The step
that carries the argument is `WriteBatchTrue`: a cached copy of a sector being
written belongs to another unit (`AliasTainted`), is one of several
(`Duplicates`), or is the only one, which is then the one `cache_find` finds
(`FirstOfOne`, with a least element of a finite set and its cardinality) and the
one that is replaced (`OwnUpdated`).

`BpbFollowsMap` rests on the argument about the cache: a BPB made from a cached
sector is the disk's or that sector is in doubt (`BuildBpbIs`, `ReadBootIs`), the
doubt outlives every step but a change of the map, and that is reported before the
BPB counts again (`MapKept`). No number of sectors is assumed: two data may tell the
same.

`ImplementsBlockDevice` is the refinement. Retries and downshifts are steps the
abstract device does not see; every other action is one of its own, a lemma each.
That what a read adds is on the disk or in doubt is `TransferIsTrue` after the
step, so the refinement stands on the argument about the cache (`ReadMapped`);
that a write puts the caller's sectors in their places is arithmetic on `batch`,
`done` and the first sector (`PutMapped`); that the driver never brings into doubt
a sector nobody wrote is read off what each step adds to `tainted`; and that an
answer is late only where late answers are among the disturbances is a small
invariant of its own (`LateOnly`). `WritesStay` needs its premise: a disk that
somebody else changes is changed outside the request.

Model-checked only: `ExchangeReturns`, `RequestReturns`, `CallsReturn` and
`QuietBufferDrains`, which are liveness and beyond the prover. Every other property
of a passing run is a theorem. No proof rests on the bounds (`MaxSteps`, `MaxFaults`,
`MaxPos`) having any particular value.

## Not modelled, and why

* Layout of payloads and the arithmetic of the checksum: a frame is whole or
  damaged in a way the check can see. A change of bytes that leaves the one-byte
  checksum right is left out.
* Segment registers and stacks (`-zu` builds, the stack switch of `dispatch.c`), but
  for what they do to the port's remarks: that these are lost once the data buffer of
  another segment is begun is in `SlipPort` (`Note`), the byte they overwrite in that
  segment is not. `FrameTrue` claims the header alone there. The line status
  (`_port_slip_last_lsr`), stored next to the reason, is left out of `SlipPort`. The
  NIO transaction alone reads the two; the buffers it hands the port are in the
  driver's segment (`nio.c`), so that `NioTransaction` has them as they are reported. The
  bus protocol reads neither and trusts length and checksum.
* A byte the UART misses altogether, its start bit lost: no remark is made, as with a
  silent flip. The checksum is left to tell both.
* The reset of the BIOS tick count at midnight, which may end a wait early: to a
  caller that is the silence any wait may meet.
* Path strings of SET_STATE and GET_STATE; the contents of pass-through calls.
* `Strategy` called again before `Interrupt`: DOS does not, and the printer has
  its own driver.
* Requests of the printer for several characters (DOS in raw mode), of which the
  driver prints the first.
* The NIO INT F5h gate, which keeps no state: its effect is a change behind the
  driver's back in `NioDisk`.
* `unload_latest` of FNSHARE, which nothing calls; the uninitialised entry
  `make_dir` converts; the volume label copied to memory never allocated
  (`fnshare.c:493`); the bound of the dispatch table, one too high
  (`redir.c:1113`): undefined accesses whose outcome depends on the layout of
  memory and not on a state the model has.
* NCOPY's command line, and commands after the first.
* Tools that issue a few calls in a row and keep nothing; demonstrations.

## Plan

The order puts first what can lose data on a disk or stop the machine.

1. Done: `NioProtocol`, `NioTransaction`, `NioRpc`, their proofs; `NioDisk`;
   `Printer` and its proofs.
2. Done: `BusCall`, `FirmwareDisk`, `Transfer`, `Startup`, `SlipPort`, `Hotkey`,
   composed in `Firmware`, and the theorems about it.
3. Done: `FujiFs`, `Redirector` and `Ncopy`, and the theorems about them.
4. `Printer` in steps under `Firmware` instead of the one exchange its timer makes
   there, for the composition of both drivers.
5. Done: `BlockDevice`, and `NioDisk` shown to implement it. Left: `NioDisk`
   composed with `NioRpc` instead of its outcomes.
6. The checksum as a function over bounded inputs.
7. Done: the proofs about `NioDisk` and its refinement of `BlockDevice`, and that `NioTransaction` implements
   `NioRpc`; the proofs of `CopyTrue` and `FrameTrue`. Nothing that a run checks
   is left to prove but liveness.
