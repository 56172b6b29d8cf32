----------------------------- MODULE Redirector -----------------------------
(***************************************************************************)
(* FNSHARE: a DOS drive that is a share behind the FujiNet                 *)
(* (fnshare/redir.c, mapped by fnshare/fnshare.c).  DOS calls the          *)
(* redirector with a search record in its swappable area and an open       *)
(* file's table entry, and never re-enters it: a call is one action, the   *)
(* operations of FujiFs it makes in its order.  What DOS does around it    *)
(* (records copied to and from a program's disk transfer area, positions   *)
(* moved, handles duplicated, other drives searched) is external.          *)
(*                                                                         *)
(* Paths name an entry of the share; DosName is what an entry is called    *)
(* after fcbitize and undosify_path: cut to 8.3, in lower case.            *)
(***************************************************************************)
EXTENDS FujiFs, SequencesExt

CONSTANTS
    Programs,   \* those that search directories, each with its transfer area
    Files,      \* entries of the system file table DOS gives to this drive
    DosName,    \* [Names -> Names]
    FirstSize,  \* [Names -> Nat]: sizes at the start
    FirstNames, \* what is on the share at the start
    MaxPos,     \* bound: positions in a file and its size
    Troubles,   \* trouble of FujiFs that happens: <<which call, kind>>
    MaxFaults,  \* bound: calls that meet trouble
    MaxSteps,   \* bound: calls and what happens between them
    Searches,   \* the searches tried: [dir, mask, dirs]
    Wants,      \* the counts read and written
    Moves,      \* the positions DOS moves a file to
    Machines,   \* the PCs it is installed on: [version, accepts, drives, assigned]
    Drive,      \* fn_drive_num
    Clusters    \* what other drives leave in the place of a handle

ASSUME RedirectorAssumption ==
    /\ DosName \in [Names -> Names] /\ FirstSize \in [Names -> Nat] /\ FirstNames \subseteq Names
    /\ Troubles \subseteq Nat \X {"refused", "unacked", "short", "empty"} /\ {MaxPos, MaxFaults, MaxSteps} \subseteq Nat
    /\ Drive \in Nat /\ Wants \cup Moves \cup Clusters \subseteq Nat /\ Programs \cap Files = {}
    /\ Machines \subseteq [version : Nat, accepts : BOOLEAN, drives : Nat, assigned : SUBSET Nat]
    /\ Searches \subseteq [dir : Dirs \cup {Root}, mask : {"*"} \cup Names, dirs : BOOLEAN]

VARIABLES
    fs,         \* the library and the FujiNet
    host,       \* fn_host, 0 until the share is mapped
    sda,        \* srchrec_ptr1->dir_handle
    dta,        \* [Programs -> the search records DOS keeps for them]
    sft,        \* [Files -> system file table entries]
    answer,     \* what the last call returned
    steps, faults,
    \* History, read by no action of the program.
    list,       \* [Programs -> what a search should find, has found, ...]
    fileOf,     \* [Files -> the name opened]
    lost,       \* programs and files whose handle another has used or closed
    slipped,    \* programs and files a call of which met trouble
    sloppy      \* ways in which a handle was left open

history == <<list, fileOf, lost, slipped, sloppy>>
vars == <<fs, host, sda, dta, sft, answer, steps, faults, history>>

NoHandle == -1
All == "*"
NoSearch == [live |-> FALSE, handle |-> NoHandle, dir |-> Root, mask |-> All, dirs |-> FALSE]
FreeSft == [count |-> 0, mode |-> "read", handle |-> 0, pos |-> 0, last |-> 0, size |-> 0]
NoList == [expect |-> << >>, seen |-> << >>, clean |-> FALSE, done |-> FALSE]

Live == {p \in Programs : dta[p].live} \cup {f \in Files : sft[f].count > 0}
HandleOf(o) == IF o \in Programs THEN dta[o].handle ELSE sft[o].handle
Holding(h) == {o \in Live : HandleOf(o) = h}

-----------------------------------------------------------------------------
(* Searches.                                                               *)

\* match_to_mask and the attributes: what find_next stops at.
Wanted(rec) ==
    {n \in Names : (rec.mask = All \/ DosName[n] = rec.mask) /\ (n \in Dirs => rec.dirs)}
        \cup (IF rec.mask = All THEN {"junk"} ELSE {})

Found(s, rec, err, ent) == [s |-> s, rec |-> rec, err |-> err, ent |-> ent]

\* find_next on a search record; it opens the directory of a new one.
Stopped(r, rec, h) ==
    IF r.ent = "end"
    THEN Found(Close(r, h), [rec EXCEPT !.handle = NoHandle], "no_more_files", "none")
    ELSE Found(r, [rec EXCEPT !.handle = h], "none", r.ent)
FindOn(o, rec) ==
    IF o.err # "none" THEN Found(o, rec, "network", "none")
    ELSE Stopped(Scan(o, o.h, Wanted(rec)), rec, o.h)
FindNextIn(s, rec) ==
    FindOn(IF rec.handle = NoHandle THEN OpenDir(s, host, rec.dir)
           ELSE [s EXCEPT !.h = rec.handle, !.err = "none"], rec)

\* find_first: whatever handle DOS's record holds is closed, whosever it is.
Search(x) == [live |-> TRUE, handle |-> NoHandle, dir |-> x.dir, mask |-> x.mask, dirs |-> x.dirs]
FindFirstIn(s, x) ==
    [FindNextIn(IF sda # NoHandle THEN Close(s, sda) ELSE s, Search(x))
        EXCEPT !.err = IF @ = "no_more_files" THEN "file_not_found" ELSE @]

\* Who loses a handle to a find_first.
Robbed == IF IsOpen(fs, sda) THEN Holding(sda) ELSE {}

\* The loop of delete_files.  A name is unlinked as DOS spells it.
Spelt(ent) == IF ent \in Names THEN DosName[ent] ELSE ent
Unlinked(s, rec, ent) ==
    IF s.err # "none" THEN Found(s, rec, "access_denied", ent) ELSE FindNextIn(s, rec)
UnlinkNext(b) ==
    IF b.err # "none" THEN b
    ELSE Unlinked(PathOperation(b.s, host, "delete", Spelt(b.ent)), b.rec, b.ent)
\* Every turn takes a piece of the directory, or ends.
TurnsLeft(r) == IF r.err = "none" THEN Ahead(r.s, r.rec.handle) + 1 ELSE 0
UnlinkAll(r) ==
    LET turn[k \in 0..TurnsLeft(r)] == IF k = 0 THEN r ELSE UnlinkNext(turn[k - 1])
    IN [turn[TurnsLeft(r)] EXCEPT !.err = IF @ = "no_more_files" THEN "none" ELSE @]
Deletion(s, x) == UnlinkAll(FindFirstIn(s, [x EXCEPT !.dirs = FALSE]))

-----------------------------------------------------------------------------
(* Calls.  A call may meet trouble at one of its calls of the FujiNet.     *)

Lucks == {<<0, "none">>} \cup (IF faults < MaxFaults THEN Troubles ELSE {})
With(luck) == Facing(fs, luck[1], luck[2])
Troubled(luck) == luck[1] > 0

Reads(p, s) ==  \* the text program p has still to take out of the buffer
    LET h == HandleOf(p) IN
    [i \in (s.table[h].position + 1)..s.table[h].length |-> s.buf[i]]
\* A call of another leaves p's search as it was.
Kept(p, s) ==
    LET h == HandleOf(p) IN
    h \in HandleSet /\ Reads(p, s) = Reads(p, fs)
        /\ s.dev[h] = fs.dev[h] /\ s.table[h] = fs.table[h]
Watched(s, acting) ==
    [p \in Programs |-> IF p \notin acting /\ dta[p].live
                        THEN [list[p] EXCEPT !.clean = @ /\ Kept(p, s)] ELSE NoList]

Replied(fn, err, asked, count) ==
    [fn |-> fn, err |-> err, asked |-> asked, count |-> count, pastEnd |-> FALSE]

\* Ends a call of the redirector: the library's new state, what it answers.
Return(s, luck, reply) ==
    /\ s.fuse = 0                       \* the trouble did come up
    /\ fs' = Settled(s)
    /\ answer' = reply
    /\ faults' = faults + (IF Troubled(luck) THEN 1 ELSE 0)
    /\ UNCHANGED host

SearchDone(p, r, luck, expect, seen, clean) ==
    /\ Return(r.s, luck, Replied("find", r.err, 0, 0))
    /\ sda' = r.rec.handle
    /\ dta' = [dta EXCEPT ![p] = IF r.err = "none" THEN r.rec ELSE NoSearch]
    /\ list' = [Watched(r.s, {p}) EXCEPT ![p] =
                   [expect |-> expect, seen |-> IF r.err = "none" THEN Append(seen, r.ent) ELSE seen,
                    clean |-> clean /\ ~Troubled(luck) /\ r.err # "network", done |-> r.err # "none"]]
    /\ UNCHANGED <<sft, fileOf, sloppy>>

FindFirst(p, x, luck) ==
    /\ ~dta[p].live
    /\ SearchDone(p, FindFirstIn(With(luck), x), luck,
                  Matching(Listing(fs, x.dir), Wanted(x)), << >>, TRUE)
    /\ lost' = (lost \cup Robbed) \ {p}
    /\ slipped' = IF Troubled(luck) THEN slipped \cup {p} ELSE slipped \ {p}

FindNext(p, luck) ==
    /\ dta[p].live
    /\ SearchDone(p, FindNextIn(With(luck), dta[p]), luck, list[p].expect, list[p].seen, list[p].clean)
    /\ lost' = lost \cup (Holding(HandleOf(p)) \ {p})
    /\ slipped' = IF Troubled(luck) THEN slipped \cup {p} ELSE slipped

WildcardDone(fn, r, luck) ==
    /\ Return(r.s, luck, Replied(fn, r.err, 0, 0))
    /\ sda' = r.rec.handle
    /\ list' = Watched(r.s, {})
    /\ lost' = lost \cup Robbed
    /\ sloppy' = IF r.err = "access_denied" THEN sloppy \cup {"broken off"} ELSE sloppy
    /\ UNCHANGED <<dta, sft, fileOf, slipped>>

DeleteFiles(x, luck) == WildcardDone("delete", Deletion(With(luck), x), luck)

\* fujifs_rename always fails, once the first file has been found.
Renaming(r) ==
    [r EXCEPT !.err = IF @ = "none" /\ Rename(r.s).err # "none" THEN "access_denied" ELSE @]
RenameFiles(x, luck) ==
    WildcardDone("rename", Renaming(FindFirstIn(With(luck), [x EXCEPT !.dirs = FALSE])), luck)

-----------------------------------------------------------------------------
(* Directories and attributes.                                             *)

PathCall(s, luck, err) ==
    /\ Return(s, luck, Replied("path", err, 0, 0))
    /\ list' = Watched(s, {})
    /\ UNCHANGED <<sda, dta, sft, fileOf, lost, slipped, sloppy>>

Operation(s, luck) == PathCall(s, luck, IF s.err = "none" THEN "none" ELSE "access_denied")

\* remove_dir.  The attribute tested is in DOS's second directory entry,
\* which nothing here fills in.
RemoveKnowing(n, stray, luck, s) ==
    CASE s.err # "none" -> PathCall(s, luck, "path_not_found")
      [] s.err = "none" /\ ~stray -> PathCall(s, luck, "access_denied")
      [] OTHER -> Operation(PathOperation(s, host, "rmdir", n), luck)
RemoveDir(n, stray, luck) == RemoveKnowing(n, stray, luck, Stat(With(luck), host, n))

\* make_dir: any error of fujifs_stat counts as a name that is free.
MakeKnowing(n, luck, s) ==
    IF s.err = "none" THEN PathCall(s, luck, "file_exists")
    ELSE Operation(PathOperation(s, host, "mkdir", n), luck)
MakeDir(n, luck) == MakeKnowing(n, luck, Stat(With(luck), host, n))

\* chdir, which only copies DOS's path if the name is a directory; get_attr;
\* set_attr, which looks the file up as well and then denies.
Lookup(fn, n, luck, s) ==
    PathCall(s, luck,
        CASE s.err # "none" -> IF fn = "chdir" THEN "access_denied" ELSE "file_not_found"
          [] s.err = "none" /\ (fn = "set_attr" \/ (fn = "chdir" /\ n \notin Dirs)) -> "access_denied"
          [] OTHER -> "none")
Attributes(fn, n, luck) == Lookup(fn, n, luck, Stat(With(luck), host, n))

\* inquiry, commit, locks, disk space, extended attributes, a search for the
\* volume label (its record is not taken for this drive's afterwards), and
\* what names a character device, which is denied.
NoEffect == UNCHANGED vars

\* dispatch_table, and is_call_for_us: by what a call tells its drive, an
\* open file, the search record, or the directory DOS is in.  drive is what is
\* found there, network whether it is marked as a network drive's.
OfFile == {"close", "commit", "read", "write", "lock", "unlock", "seek", "extended_attr"}
OfPath == {"rmdir", "mkdir", "chdir", "disk_space", "set_attr", "get_attr", "rename", "delete",
           "exist", "create", "create_new", "extended", "find_first"}
ForUs(fn, drive, network) ==
    \/ fn = "inquiry"
    \/ fn \in OfFile \cup OfPath /\ drive = Drive
    \/ fn = "find_next" /\ drive = Drive /\ network
Others == {o \in (OfFile \cup OfPath \cup {"inquiry", "find_next", "unsupported"})
                     \X (Drive..(Drive + 1)) \X BOOLEAN : ~ForUs(o[1], o[2], o[3])}
\* Any of these goes to the handler before.
ChainOn == Others # {} /\ UNCHANGED vars

-----------------------------------------------------------------------------
(* Files.                                                                  *)

Modes == {"read", "write", "readwrite", "invalid"}

\* What the three ways to open ask for: subsets of open, replace and create.
\* OPENCREATE takes "new only" for replace and the rest for create.
ActionsOf(how) ==
    CASE how = "exist" -> {{"open"}}
      [] how = "create" -> {{"create"}}
      [] how = "create_new" -> {{"replace"}}
      [] OTHER -> {{"replace", "create"}, {"open", "create"}}
ModesOf(how) ==
    CASE how \in {"create", "create_new"} -> {"write"}
      [] how = "exist" -> Modes \ {"invalid"}
      [] OTHER -> {"readwrite", "invalid"}

(* An existing file is opened whatever was asked for. *)
OpenRefusalOfDirs(found, n, action, mode) ==
    CASE found /\ n \in Dirs -> "access_denied"
      [] ~found /\ "create" \notin action -> "file_not_found"
      [] ~found /\ "create" \in action /\ mode = "read" -> "access_denied"
      [] OTHER -> IF mode = "invalid" THEN "invalid_access" ELSE "none"

\* open_extended: any error of fujifs_stat counts as a file that is not there.
OpenRefusal(found, n, action, mode) ==
    CASE found /\ (n \in Dirs \/ action \cap {"open", "replace"} = {}) -> "access_denied"
      [] ~found /\ "create" \notin action -> "file_not_found"
      [] ~found /\ "create" \in action /\ mode = "read" -> "access_denied"
      [] OTHER -> IF mode = "invalid" THEN "invalid_access" ELSE "none"

Opened(f, n, how, luck, t, size, mode, err) ==
    /\ Return(t, luck, Replied(how, err, 0, 0))
    /\ list' = Watched(t, {})
    /\ IF err = "none"
       THEN /\ sft' = [sft EXCEPT ![f] = [count |-> 1, handle |-> t.h, pos |-> 0, last |-> 0, size |-> size,
                           mode |-> IF how \in {"create", "create_new"} THEN "readwrite" ELSE mode]]
            /\ fileOf' = [fileOf EXCEPT ![f] = n]
            /\ lost' = lost \ {f}
            /\ slipped' = IF Troubled(luck) THEN slipped \cup {f} ELSE slipped \ {f}
       ELSE UNCHANGED <<sft, fileOf, lost, slipped>>
    /\ UNCHANGED <<sda, dta, sloppy>>
OpenReturns(f, n, how, mode, luck, size, o) ==
    Opened(f, n, how, luck, o, size, mode, IF o.err = "none" THEN "none" ELSE "network")
OpenKnowing(f, n, how, action, mode, luck, s, refusal) ==
    IF refusal # "none" THEN Opened(f, n, how, luck, s, 0, mode, refusal)
    ELSE OpenReturns(f, n, how, mode, luck,
             IF s.err = "none" /\ "replace" \notin action THEN s.size[n] ELSE 0, Open(s, host, n, mode, TRUE))
OpenAfter(f, n, how, action, mode, luck, s) ==
    OpenKnowing(f, n, how, action, mode, luck, s, OpenRefusal(s.err = "none", n, action, mode))
OpenExtended(f, n, how, action, mode, luck) ==
    /\ sft[f].count = 0
    /\ OpenAfter(f, n, how, action, mode, luck, Stat(With(luck), host, n))

\* close_file.  A file opened for reading is never closed at the FujiNet; any
\* other is with the first of its duplicates.
Closing(f, e, luck, s) ==
    /\ Return(s, luck, Replied("close", IF e.mode # "read" /\ s.err # "none" THEN "access_denied" ELSE "none", 0, 0))
    /\ sft' = [sft EXCEPT ![f] = IF e.count = 1 THEN FreeSft ELSE [e EXCEPT !.count = @ - 1]]
    /\ list' = Watched(s, {})
    /\ lost' = (IF e.mode # "read" /\ IsOpen(fs, e.handle) THEN lost \cup Holding(e.handle) ELSE lost)
                   \ (IF e.count = 1 THEN {f} ELSE {})
    /\ slipped' = IF e.count = 1 THEN slipped \ {f} ELSE slipped
    /\ fileOf' = IF e.count = 1 THEN [fileOf EXCEPT ![f] = Root] ELSE fileOf
    /\ sloppy' = IF e.mode = "read" THEN sloppy \cup {"read only"} ELSE sloppy
    /\ UNCHANGED <<sda, dta>>
CloseFile(f, luck) ==
    /\ sft[f].count > 0
    /\ Closing(f, sft[f], luck, IF sft[f].mode = "read" THEN With(luck) ELSE Close(With(luck), sft[f].handle))

FileCall(f, e, s, luck, reply) ==
    /\ e.pos <= MaxPos
    /\ Return(s, luck, reply)
    /\ sft' = [sft EXCEPT ![f] = e]
    /\ list' = Watched(s, {})
    /\ slipped' = IF Troubled(luck) THEN slipped \cup {f} ELSE slipped
    /\ lost' = lost \cup (Holding(sft[f].handle) \ {f})
    /\ UNCHANGED <<sda, dta, fileOf, sloppy>>

\* The stream is moved only if DOS has moved the file; errors are ignored.
InPlace(s, e) == IF e.pos = e.last THEN s ELSE Seek(s, e.handle, e.pos)
(* The last position not brought up to date. *)
AdvancedOnly(e, n) == [e EXCEPT !.pos = @ + n]

Advanced(e, n) == [e EXCEPT !.pos = @ + n, !.last = e.pos + n]

(* The comparison with the end of the file turned round. *)
CountTurned(e, want) == IF e.pos + want < e.size THEN (e.size - e.pos) % 65536 ELSE want

\* read_file: what is left of the file is taken modulo 2^16.
CountToRead(e, want) == IF e.pos + want > e.size THEN (e.size - e.pos) % 65536 ELSE want
ReadDone(f, e, want, luck, s) ==
    FileCall(f, Advanced(e, s.n), s, luck,
             [Replied("read", "none", want, s.n) EXCEPT !.pastEnd = e.pos > e.size])
ReadFile(f, want, luck) ==
    LET e == sft[f] IN
    /\ e.count > 0
    /\ CASE e.mode = "write" -> FileCall(f, e, With(luck), luck, Replied("read", "access_denied", want, 0))
         [] e.mode # "write" /\ CountToRead(e, want) = 0 -> FileCall(f, e, With(luck), luck, Replied("read", "none", want, 0))
         [] OTHER -> ReadDone(f, e, want, luck, Read(InPlace(With(luck), e), e.handle, CountToRead(e, want)))

\* write_file
Grown(e) == [e EXCEPT !.size = IF e.pos > @ THEN e.pos ELSE @]
WriteDone(f, e, want, luck, s) ==
    IF s.n = -1 THEN FileCall(f, e, s, luck, Replied("write", "not_ready", want, 0))
    ELSE FileCall(f, Grown(Advanced(e, s.n)), s, luck, Replied("write", "none", want, s.n))
WriteFile(f, want, luck) ==
    LET e == sft[f] IN
    /\ e.count > 0
    /\ IF e.mode = "read" THEN FileCall(f, e, With(luck), luck, Replied("write", "access_denied", want, 0))
       ELSE WriteDone(f, e, want, luck, Write(InPlace(With(luck), e), e.handle, want))

-----------------------------------------------------------------------------
(* Mapping the share: main of fnshare.c.  The password is asked for when   *)
(* the first attempt fails, and the host's handle is given back.           *)
Mapped(b, s, luck) ==
    /\ b.err = "none" /\ s.fuse = 0
    /\ host' = b.h
    /\ fs' = Settled(s)
    /\ faults' = IF Troubled(luck) THEN 1 ELSE 0
    /\ UNCHANGED <<sda, dta, sft, answer, steps, history>>
GivenBack(b, luck) == Mapped(b, Close(b, b.h), luck)
MapAgain(a, luck) == GivenBack(IF a.err = "none" THEN a ELSE OpenUrl(a, TRUE), luck)
Map(luck) == host = 0 /\ MapAgain(OpenUrl(With(luck), FALSE), luck)

\* get_dos_vars, is_ok_to_load, set_up_cds: on what machine the program ends
\* there, as if it had never been started.
InstallRefusal(pc) ==
    CASE pc.version < 310 -> "unsupported DOS"
      [] pc.version >= 310 /\ ~pc.accepts -> "not OK to install"
      [] pc.version >= 310 /\ pc.accepts /\ Drive >= pc.drives -> "too high"
      [] pc.version >= 310 /\ pc.accepts /\ Drive < pc.drives /\ Drive \in pc.assigned -> "assigned"
      [] OTHER -> "none"
Install(pc, luck) == InstallRefusal(pc) = "none" /\ Map(luck)
Refused(pc) == host = 0 /\ InstallRefusal(pc) # "none" /\ UNCHANGED vars

\* What DOS and the programs do.
MoveFile(f, pos) ==
    /\ sft[f].count > 0 /\ sft[f].pos # pos
    /\ sft' = [sft EXCEPT ![f].pos = pos]
    /\ UNCHANGED <<fs, host, sda, dta, answer, faults, history>>
Duplicate(f) ==
    /\ sft[f].count = 1
    /\ sft' = [sft EXCEPT ![f].count = 2]
    /\ UNCHANGED <<fs, host, sda, dta, answer, faults, history>>
\* A program does not search to the end.
Abandon(p) ==
    /\ dta[p].live
    /\ dta' = [dta EXCEPT ![p] = NoSearch]
    /\ sloppy' = sloppy \cup {"abandoned"}
    /\ list' = [list EXCEPT ![p] = NoList] /\ lost' = lost \ {p} /\ slipped' = slipped \ {p}
    /\ UNCHANGED <<fs, host, sda, sft, answer, faults, fileOf>>
\* A search on another drive: a cluster number is where the handle was.
OtherDrive(cluster) ==
    /\ sda' = cluster
    /\ UNCHANGED <<fs, host, dta, sft, answer, faults, history>>
\* NGET, NPUT, NCOPY or a second FNSHARE: each counts the handles it has of
\* the same devices for itself, from the first.
OtherProgram ==
    /\ fs' = [fs EXCEPT !.dev[1] = Closed]
    /\ lost' = lost \cup Holding(1)
    /\ list' = Watched(fs', {})
    /\ UNCHANGED <<host, sda, dta, sft, answer, faults, fileOf, slipped, sloppy>>
\* Another client of the share makes a file longer.
OtherClient(n) ==
    /\ n \in fs.exist \ Dirs /\ fs.size[n] < MaxPos
    /\ fs' = [fs EXCEPT !.size[n] = MaxPos]
    /\ UNCHANGED <<host, sda, dta, sft, answer, faults, history>>

Init ==
    /\ fs = NewFs(FirstNames, FirstSize)
    /\ host = 0 /\ steps = 0 /\ faults = 0
    /\ sda = 0
    /\ dta = [p \in Programs |-> NoSearch]
    /\ sft = [f \in Files |-> FreeSft]
    /\ answer = Replied("none", "none", 0, 0)
    /\ list = [p \in Programs |-> NoList]
    /\ fileOf = [f \in Files |-> Root]
    /\ lost = {} /\ slipped = {} /\ sloppy = {}

Call(luck) ==
    \/ \E p \in Programs, x \in Searches : FindFirst(p, x, luck)
    \/ \E p \in Programs : FindNext(p, luck)
    \/ \E x \in Searches : DeleteFiles(x, luck)
    \/ \E x \in Searches : RenameFiles(x, luck)
    \/ \E n \in Dirs, stray \in BOOLEAN : RemoveDir(n, stray, luck)
    \/ \E n \in Dirs : MakeDir(n, luck)
    \/ \E fn \in {"chdir", "get_attr", "set_attr"}, n \in Dirs : Attributes(fn, n, luck)
    \/ \E f \in Files, n \in Names, how \in {"exist", "create", "create_new", "extended"} :
           \E action \in ActionsOf(how), mode \in ModesOf(how) : OpenExtended(f, n, how, action, mode, luck)
    \/ \E f \in Files : CloseFile(f, luck)
    \/ \E f \in Files, want \in Wants : ReadFile(f, want, luck)
    \/ \E f \in Files, want \in Wants : WriteFile(f, want, luck)

Elsewhere ==
    \/ \E f \in Files, pos \in Moves : MoveFile(f, pos)
    \/ \E f \in Files : Duplicate(f)
    \/ \E p \in Programs : Abandon(p)
    \/ \E cluster \in Clusters : OtherDrive(cluster)
    \/ OtherProgram
    \/ \E n \in Names : OtherClient(n)

Next ==
    \/ \E pc \in Machines : Refused(pc) \/ \E luck \in Lucks : Install(pc, luck)
    \/ host # 0 /\ steps < MaxSteps /\ steps' = steps + 1 /\ (Elsewhere \/ \E luck \in Lucks : Call(luck))
    \/ host # 0 /\ (NoEffect \/ ChainOn)

Spec == Init /\ [][Next]_vars
-----------------------------------------------------------------------------
(* Types of the variables. *)
TypeOK ==
    /\ FsTypeOK(fs) /\ fs = Settled(fs)
    /\ host \in 0..Total /\ steps \in 0..MaxSteps /\ faults \in 0..MaxFaults
    /\ sda \in Nat \cup {NoHandle}
    /\ \A p \in Programs : dta[p].live => HandleOf(p) \in HandleSet
    /\ sft \in [Files -> [count : 0..2, mode : Modes, handle : 0..Total,
                         pos : Nat, last : Nat, size : Nat]]
    /\ lost \subseteq Programs \cup Files /\ slipped \subseteq Programs \cup Files
    /\ sloppy \subseteq {"read only", "abandoned", "broken off"}

(* A search whose unread text, handle and stream no other call has touched, *)
(* and that met no trouble, returns the entries of its directory that match, *)
(* each once and in order, and ends only after the last of them: find_next *)
(* over the shared buffer of fujifs_readdir, refilled in the middle of a   *)
(* record. *)
ListingTrue ==
    \A p \in Programs : list[p].clean =>
        IF list[p].done THEN list[p].seen = list[p].expect ELSE IsPrefix(list[p].seen, list[p].expect)

(* Unless another caller has closed, used or been given its handle, an open *)
(* file or a running search holds a handle of its own, marked open, on a   *)
(* device that streams what was opened if its own calls met no trouble. *)
HoldersHold ==
    \A o \in Live \ lost :
        /\ IsOpen(fs, HandleOf(o))
        /\ Holding(HandleOf(o)) \ lost = {o}
        /\ o \in Programs \ slipped => fs.dev[HandleOf(o)].kind = "dir" /\ fs.dev[HandleOf(o)].obj = dta[o].dir
        /\ o \in Files \ slipped /\ sft[o].mode = "read" =>
               fs.dev[HandleOf(o)].kind = "file" /\ fs.dev[HandleOf(o)].obj = fileOf[o]

(* Handles run out only for the known reasons: as long as no file opened   *)
(* for reading was closed, no search abandoned and no wildcard delete or   *)
(* rename broken off, the handles marked open are those of the open files *)
(* and running searches. *)
PoolBalanced ==
    sloppy = {} /\ host # 0 => {h \in HandleSet : fs.table[h].open} \subseteq {HandleOf(o) : o \in Live}

(* The stream at the FujiNet stands where the file table says the last     *)
(* transfer ended, for every file whose handle is its own and whose calls *)
(* met no trouble: read_file and write_file seek only when DOS has moved. *)
(* The last handle is an exception: fujifs_write refuses it (fujifs.c:301) *)
(* after write_file has moved the stream. *)
StreamInStep ==
    \A f \in Files : sft[f].count > 0 /\ f \notin lost \cup slipped
        /\ (sft[f].handle < Total \/ sft[f].mode = "read")
        /\ fs.dev[sft[f].handle].kind = "file" => fs.dev[sft[f].handle].at = sft[f].last

(* No more is read into the program's buffer than it asked for, unless the *)
(* file stood beyond the end DOS knows of: only then does the rest of the  *)
(* file, taken modulo 2^16, exceed the count. *)
ReadFitsBuffer ==
    answer.fn = "read" /\ answer.count > answer.asked => answer.pastEnd

(* A create that does not insist on a new file leaves the contents of one  *)
(* that exists alone, unless the listing that should show it met trouble:  *)
(* open_extended takes any error of fujifs_stat for a missing file. *)
CreateSpares ==
    [][\A n \in fs.exist : fs'.size[n] < fs.size[n] /\ answer'.fn = "create" => faults' > faults]_vars
=============================================================================
