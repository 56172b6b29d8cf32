------------------------------- MODULE Ncopy -------------------------------
(***************************************************************************)
(* NCOPY (ncopy/ncopy.c) on a PC where FNSHARE is resident: each has a     *)
(* copy of the library FujiFs of its own, with its own handles, over the   *)
(* same network devices of the FujiNet.  Between two exchanges of NCOPY    *)
(* DOS may call the redirector: NCOPY's local file may lie on its drive.   *)
(*                                                                         *)
(* NCOPY stays in the directory of its URL, connects, carries out one GET, *)
(* PUT or DIR, and ends.  A piece of a file is its place in it, 0 when it  *)
(* is another file's.                                                      *)
(***************************************************************************)
EXTENDS Redirector

CONSTANTS
    Chunk,          \* sizeof(buf), in pieces
    LocalSize,      \* pieces of the file that is put
    CopyTroubles,   \* trouble of FujiFs that NCOPY's calls meet
    CopySteps       \* bound: calls of the redirector before and during NCOPY

ASSUME NcopyAssumption ==
    /\ Chunk \in Nat \ {0} /\ {LocalSize, CopySteps} \subseteq Nat
    /\ CopyTroubles \subseteq Nat \X {"refused", "unacked", "short", "empty"}

VARIABLES
    lib,        \* NCOPY's statics of FujiFs
    copy        \* NCOPY

copyVars == <<vars, lib, copy>>

\* rough, clean are history: where a call met trouble; nobody else touched
\* the device or the share since the command began.
NoCopy == [pc |-> "absent", cmd |-> "none", name |-> Root, host |-> 0, h |-> 0,
           local |-> << >>, sent |-> 0, failed |-> FALSE, rough |-> {}, clean |-> FALSE]
Exits(c) == [c EXCEPT !.pc = "gone"]

\* The devices and the share are everybody's.
Nowhere == NewFs({}, [n \in Names |-> 0])
Joined(mine, theirs) == [mine EXCEPT !.dev = theirs.dev, !.exist = theirs.exist, !.size = theirs.size]
CopyLucks == {<<0, "none">>} \cup (IF faults < MaxFaults THEN CopyTroubles ELSE {})
Using(luck) == Facing(Joined(lib, fs), luck[1], luck[2])

\* NCOPY goes on with c; what streamed on a device it used is gone for others.
Continues(c, s, luck) ==
    /\ s.fuse = 0
    /\ copy' = [c EXCEPT !.rough = IF luck[2] \notin {"none", "short"} THEN @ \cup {copy.pc} ELSE @]
    /\ lib' = Joined(Settled(s), Nowhere)
    /\ fs' = Joined(fs, s)
    /\ faults' = faults + (IF Troubled(luck) THEN 1 ELSE 0)
    /\ lost' = lost \cup UNION {Holding(h) : h \in {x \in HandleSet : s.dev[x] # fs.dev[x]}}
    /\ list' = Watched(fs', {})
    /\ answer' = Replied("none", "none", 0, 0)
    /\ UNCHANGED <<host, sda, dta, sft, steps, fileOf, slipped, sloppy>>

\* main: the URL is opened, with a password if it must be, and closed; its
\* handle stays the host's.
ConnectedBy(b, luck) ==
    IF b.err # "none" THEN Continues(Exits(copy), b, luck)
    ELSE Continues([copy EXCEPT !.pc = "prompt", !.host = b.h], Close(b, b.h), luck)
ConnectAgain(a, luck) == ConnectedBy(IF a.err = "none" THEN a ELSE OpenUrl(a, TRUE), luck)
Connect(luck) ==
    /\ copy.pc = "absent" /\ host # 0 /\ steps <= CopySteps
    /\ ConnectAgain(OpenUrl(Using(luck), FALSE), luck)

\* print_dir
Listed(o, luck) ==
    Continues(Exits(copy), IF o.err = "none" THEN Close(Scan(o, o.h, {}), o.h) ELSE o, luck)
ListDir(luck) == copy.pc = "prompt" /\ Listed(OpenDir(Using(luck), copy.host, Root), luck)

Command(cmd, n) == [copy EXCEPT !.cmd = cmd, !.name = n, !.clean = TRUE]
Begins(c, o, luck) ==
    IF o.err # "none" THEN Continues(Exits([c EXCEPT !.failed = TRUE]), o, luck)
    ELSE Continues([c EXCEPT !.pc = c.cmd, !.h = o.h], o, luck)

\* get_file: the local file is emptied first.
Get(n, luck) == copy.pc = "prompt" /\ Begins(Command("get", n), Open(Using(luck), copy.host, n, "read", FALSE), luck)

\* What is read, and written if the local disk has room.
PieceAt(d, k) == IF d.kind = "file" /\ d.obj = copy.name THEN d.at + k ELSE 0
GotOn(c, n, room) ==
    CASE n = 0 -> [c EXCEPT !.pc = "close"]
      [] n > 0 /\ ~room -> [c EXCEPT !.pc = "close", !.failed = TRUE]
      [] OTHER -> [c EXCEPT !.local = @ \o [k \in 1..n |-> PieceAt(fs.dev[c.h], k)]]
GetMore(s, room, luck) == Continues(GotOn(copy, s.n, room), s, luck)
GetLoop(room, luck) == copy.pc = "get" /\ GetMore(Read(Using(luck), copy.h, Chunk), room, luck)

\* put_file
Put(n, luck) == copy.pc = "prompt" /\ Begins(Command("put", n), Open(Using(luck), copy.host, n, "write", FALSE), luck)

next == Smaller(Chunk, LocalSize - copy.sent)

(* What was not written counted as written. *)
PutAnyhow(c, n, want) == [c EXCEPT !.sent = @ + want]

PutOn(c, n, want) ==
    IF n = want THEN [c EXCEPT !.sent = @ + want] ELSE [c EXCEPT !.pc = "close", !.failed = TRUE]
PutMore(s, luck) == Continues(PutOn(copy, s.n, next), s, luck)
PutLoop(luck) == copy.pc = "put" /\ next > 0 /\ PutMore(Write(Using(luck), copy.h, next), luck)

\* fujifs_close; what it returns is not looked at.
CloseCopy(luck) ==
    /\ copy.pc = "close" \/ (copy.pc = "put" /\ next = 0)
    /\ Continues(Exits(copy), Close(Using(luck), copy.h), luck)

NcopyStep ==
    \E luck \in CopyLucks :
        \/ Connect(luck) \/ ListDir(luck)
        \/ \E n \in Names \ Dirs : Get(n, luck) \/ Put(n, luck)
        \/ \E room \in BOOLEAN : GetLoop(room, luck)
        \/ PutLoop(luck) \/ CloseCopy(luck)

\* What others do, seen from NCOPY.
Undisturbed == copy.h # 0 => fs'.dev[copy.h] = fs.dev[copy.h]
RedirectorStep ==
    /\ copy.pc # "absent" => steps < CopySteps
    /\ Next
    /\ copy' = [copy EXCEPT !.clean = @ /\ Undisturbed /\ fs'.size = fs.size /\ fs'.exist = fs.exist]
    /\ UNCHANGED lib

CopyInit == Init /\ lib = Nowhere /\ copy = NoCopy
AllDone == copy.pc = "gone" /\ UNCHANGED copyVars
CopyNext == NcopyStep \/ RedirectorStep \/ AllDone
CopySpec == CopyInit /\ [][CopyNext]_copyVars
-----------------------------------------------------------------------------
(* If the OPEN, whose outcome is looked at through STATUS or not at all,   *)
(* went well and nobody else uses NCOPY's network device or changes the    *)
(* share, then what GET has written is the beginning of the file, and all  *)
(* of it when it says nothing and no call failed, in however many turns    *)
(* it came; and PUT has sent all of its file when it says nothing, and     *)
(* what it has sent is what lies on the share, if there is its directory:  *)
(* an empty file put where there is none leaves nothing and is not         *)
(* remarked (get_file, put_file, over handles of a library that knows      *)
(* nothing of FNSHARE's).                                                  *)
CopyTrue ==
    copy.clean /\ "prompt" \notin copy.rough =>
        /\ copy.cmd = "get" =>
            /\ \A i \in DOMAIN copy.local : copy.local[i] = i
            /\ copy.pc = "gone" /\ ~copy.failed /\ "get" \notin copy.rough => Len(copy.local) = fs.size[copy.name]
        /\ copy.cmd = "put" /\ ~copy.failed =>
            /\ copy.pc = "gone" => copy.sent = LocalSize
            /\ Exists(fs, Parent[copy.name]) => fs.size[copy.name] = copy.sent
=============================================================================
