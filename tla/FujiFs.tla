------------------------------- MODULE FujiFs -------------------------------
(***************************************************************************)
(* The FujiNet file system library (ncopy/fujifs.c), linked into NCOPY and *)
(* into the resident FNSHARE.  Its statics and the network devices of the  *)
(* FujiNet are one record; an operation maps it to the next one and leaves *)
(* what it returns in the scratch fields.  A program composes operations   *)
(* into actions of its own.                                                *)
(*                                                                         *)
(* A record of a directory listing is two pieces of text, the second one   *)
(* carrying the end of line; the size of a buffer is counted in pieces.    *)
(***************************************************************************)
EXTENDS Integers, Sequences, FiniteSets

CONSTANTS
    Total,      \* NETDEV_TOTAL: handles, one per network device
    BufSize,    \* OPEN_SIZE: pieces of text fujifs_buf holds
    PathLen,    \* pieces of fujifs_buf a path written by ennify covers
    Order,      \* the names on the share, in the order of a listing
    Parent,     \* [Names -> directories]
    Dirs,       \* the names that are directories when they exist
    Root

Names == {Order[i] : i \in DOMAIN Order}

ASSUME FujiFsAssumption ==
    /\ Total \in Nat \ {0} /\ BufSize \in Nat \ {0, 1} /\ PathLen \in 0..BufSize
    /\ Dirs \subseteq Names /\ Parent \in [Names -> Dirs \cup {Root}]
    /\ Cardinality(Names) = Len(Order) /\ Order \in Seq(Names)
    /\ {Root, "none", "end", "junk"} \cap Names = {}   \* what is no entry's name

Smaller(a, b) == IF a < b THEN a ELSE b

HandleSet == 1..Total
PathText == <<"path", 1>>
Spent(t) == <<"spent", t[2]>>
Pieces == (Names \X {1, 2}) \cup {PathText, <<"spent", 1>>, <<"spent", 2>>, <<"data", 1>>}
Closed == [kind |-> "closed", obj |-> Root, text |-> << >>, at |-> 0]
FreeHandle == [open |-> FALSE, parent |-> 0, auth |-> FALSE, user |-> FALSE,
               position |-> 0, length |-> 0]

-----------------------------------------------------------------------------
(* The FujiNet: a stream per network device, the share behind it, and the  *)
(* trouble that call number "fuse" of this operation meets: "refused" and  *)
(* "unacked" fail, the latter after the work was done; "short" has only    *)
(* the first piece of what is left at hand, "empty" none of it yet.        *)

Exists(s, n) == n = Root \/ n \in s.exist
\* The elements of l that are in S, in order (SelectSeq, as a function).
Matching(l, S) ==
    LET upTo[i \in 0..Len(l)] ==
            IF i = 0 THEN << >> ELSE IF l[i] \in S THEN Append(upTo[i - 1], l[i]) ELSE upTo[i - 1]
    IN upTo[Len(l)]
Listing(s, d) == Matching(Order, {n \in s.exist : Parent[n] = d})
TextOf(l) == [k \in 1..(2 * Len(l)) |-> <<l[(k + 1) \div 2], 2 - (k % 2)>>]

StreamOf(s, n, mode) ==
    CASE ~Exists(s, n) -> Closed
      [] Exists(s, n) /\ mode = "dir" -> [kind |-> "dir", obj |-> n, text |-> TextOf(Listing(s, n)), at |-> 0]
      [] OTHER -> [kind |-> "file", obj |-> n, text |-> << >>, at |-> 0]

Left(s, h) ==
    LET d == s.dev[h] IN
    CASE d.kind = "dir" -> Len(d.text) - d.at
      [] d.kind = "file" -> IF d.at < s.size[d.obj] THEN s.size[d.obj] - d.at ELSE 0
      [] OTHER -> 0

\* A call of the FujiNet that changes s into worked, unless it meets trouble.
Called(s, worked) ==
    [(IF s.fuse = 1 /\ s.trouble = "refused" THEN s ELSE worked) EXCEPT
        !.fuse = IF @ > 0 THEN @ - 1 ELSE 0,
        !.reply = ~(s.fuse = 1 /\ s.trouble \in {"refused", "unacked"})]

StreamError(s, h) ==
    IF s.dev[h].kind = "closed" THEN "failed" ELSE IF Left(s, h) = 0 THEN "eof" ELSE "ok"

\* STATUS, with error e, into the static status: after a failed call what
\* stands there is old.
Noted(c, s, h, e) ==
    IF ~c.reply THEN c
    ELSE [c EXCEPT !.status = [err |-> e,
             len |-> CASE s.fuse = 1 /\ s.trouble = "short" -> Smaller(1, Left(s, h))
                       [] s.fuse = 1 /\ s.trouble = "empty" -> 0
                       [] OTHER -> Left(s, h)]]
Status(s, h, e) == Noted(Called(s, s), s, h, e)

\* OPEN: a file opened for writing is made, or emptied.
Made(s, n, mode) ==
    IF mode = "write" /\ n \notin Dirs /\ Exists(s, Parent[n])
    THEN [s EXCEPT !.exist = @ \cup {n}, !.size[n] = 0] ELSE s
Streaming(t, h, n, mode) == [t EXCEPT !.dev[h] = StreamOf(t, n, mode)]
DevOpen(s, h, n, mode) == Called(s, Streaming(Made(s, n, mode), h, n, mode))

-----------------------------------------------------------------------------
(* Handles.                                                                *)

IsOpen(s, h) == h \in HandleSet /\ s.table[h].open

(* A handle handed out and not marked. *)
TakenUnmarked(s, h) == [s EXCEPT !.h = h, !.err = "none"]

\* fujifs_find_handle: the lowest free handle, taken; 0 when there is none.
Taken(s, h) == [s EXCEPT !.h = h, !.err = "none", !.table = IF h = 0 THEN @ ELSE [@ EXCEPT ![h].open = TRUE]]
FindHandle(s) ==
    LET free == {h \in HandleSet : ~s.table[h].open} IN
    Taken(s, IF free = {} THEN 0 ELSE CHOOSE x \in free : \A y \in free : x <= y)

Freed(s, h) == [s EXCEPT !.table[h].open = FALSE]
Failing(s, e) == [s EXCEPT !.err = e]

\* ennify: the path goes to the front of fujifs_buf, text behind it stays.
Ennify(s) == [s EXCEPT !.buf = [i \in 1..BufSize |-> IF i <= PathLen THEN PathText ELSE @[i]]]

\* USERNAME and PASSWORD; their replies are not looked at.
Repeated(c) == Called(c, c)
Credentials(s) == Repeated(Called(s, s))

\* The working directory of the host, given to device h as well.
Inherited(c) == IF c.reply THEN Repeated(Ennify(c)) ELSE Failing(c, "service")

\* fujifs_open, in its stages.  fq: the path names its host, as the paths of
\* the redirector do.
Authorised(s, host) ==
    IF host # 0 /\ s.table[host].user /\ (~s.table[s.h].auth \/ host # s.table[s.h].parent)
    THEN Credentials([s EXCEPT !.table[s.h].auth = TRUE]) ELSE s
Placed(s, host, fq) ==
    IF host # 0 /\ host # s.table[s.h].parent /\ ~fq THEN Inherited(Called(s, s)) ELSE s
Adopted(s, host) == IF host # 0 THEN [s EXCEPT !.table[s.h].parent = host] ELSE s
Answered(s, host, mode) ==
    IF mode # "write" /\ s.status.err = "failed" /\ s.status.len = 0
    THEN Failing(Freed(s, s.h), "failed")
    ELSE [s EXCEPT !.table[s.h].parent = host,
                   !.status.err = IF mode # "write" /\ @ = "eof" THEN "ok" ELSE @]
Asked(s, host, mode) == Answered(Status(s, s.h, StreamError(s, s.h)), host, mode)
Sent(s, host, n, mode) ==
    IF s.err = "service" THEN s                 \* the handle stays taken
    ELSE Asked(DevOpen(Ennify(Adopted(s, host)), s.h, n, mode), host, mode)
OpenOn(s, host, n, mode, fq) ==
    IF s.h = 0 THEN Failing(s, "no_device")
    ELSE Sent(Placed(Authorised(s, host), host, fq), host, n, mode)
Open(s, host, n, mode, fq) == OpenOn(FindHandle(s), host, n, mode, fq)

\* fujifs_close
Close(s, h) ==
    IF ~IsOpen(s, h) THEN Failing(s, "not_connected")
    ELSE Failing(Freed(Called(s, [s EXCEPT !.dev[h] = Closed]), h), "none")

\* fujifs_read: n bytes, and their text for when they go into fujifs_buf.
Text(d, n) == [i \in 1..n |-> IF d.kind = "dir" THEN d.text[d.at + i] ELSE <<"data", 1>>]
Delivered(c, n, there, d) ==
    [c EXCEPT !.n = IF c.reply /\ n <= there THEN n ELSE 0, !.data = Text(d, Smaller(n, there))]
Fetched(t, h, n) ==
    Delivered(Called(t, [t EXCEPT !.dev[h].at = @ + Smaller(n, Left(t, h))]), n, Left(t, h), t.dev[h])
ReadKnowing(t, h, want) ==
    IF t.status.err # "ok" /\ t.status.len = 0 THEN [t EXCEPT !.n = 0]
    ELSE Fetched(t, h, Smaller(want, t.status.len))
Read(s, h, want) ==
    IF IsOpen(s, h) THEN ReadKnowing(Status(s, h, StreamError(s, h)), h, want)
    ELSE [s EXCEPT !.n = 0]

\* fujifs_write: n is what it returns, -1 for a failure.
Written(c, want) == [c EXCEPT !.n = IF c.reply THEN want ELSE -1]
Write(s, h, want) ==
    IF h < 1 \/ h >= Total THEN [s EXCEPT !.n = -1]
    ELSE LET d == s.dev[h] IN
         IF d.kind # "file" THEN [Called(s, s) EXCEPT !.n = -1]
         ELSE Written(Called(s, [s EXCEPT !.dev[h].at = @ + want,
                          !.size[d.obj] = IF d.at + want > @ THEN d.at + want ELSE @]), want)

\* fujifs_seek
Sought(c, h) == Failing(c, IF c.reply /\ c.dev[h].kind = "file" THEN "none" ELSE "service")
Seek(s, h, position) ==
    IF ~IsOpen(s, h) THEN Failing(s, "not_connected")
    ELSE Sought(Called(s, IF s.dev[h].kind = "file" THEN [s EXCEPT !.dev[h].at = position] ELSE s), h)

-----------------------------------------------------------------------------
(* Directories.                                                            *)

\* fujifs_opendir: the handle is taken twice, first to write the path down.
Rewound(s) == [Freed(Ennify(s), s.h) EXCEPT !.table[s.h].position = 0, !.table[s.h].length = 0]
OpenDirOn(s, host, d) ==
    IF s.h = 0 THEN Failing(s, "no_device") ELSE Open(Rewound(s), host, d, "dir", TRUE)
OpenDir(s, host, d) == OpenDirOn(FindHandle(s), host, d)

(* The record broken off is not moved to the front. *)
NotMovedUp(s, p, kept) == s

\* Reads on behind the kept pieces of the record the buffer breaks off in.
MovedUp(s, p, kept) == [s EXCEPT !.buf = [i \in 1..BufSize |-> IF i <= kept THEN @[p + i] ELSE @[i]]]
Refilled(r, h, kept) ==
    IF r.n = 0
    THEN [r EXCEPT !.ent = "end", !.table[h].length = IF kept = 0 THEN 0 ELSE @]
    ELSE [r EXCEPT !.ent = "none", !.table[h].position = 0, !.table[h].length = kept + r.n,
                   !.buf = [i \in 1..BufSize |->
                       IF i \in (kept + 1)..(kept + r.n) THEN r.data[i - kept] ELSE @[i]]]
Refill(s, h, kept) ==
    Refilled(Read(MovedUp(s, s.table[h].position, kept), h, BufSize - kept), h, kept)

(* The position set behind the byte after the record. *)
TakenPast(s, h, i, j) ==
    [s EXCEPT !.ent = IF s.buf[i][1] \in Names THEN s.buf[i][1] ELSE "junk", !.table[h].position = j + 1,
              !.buf = [k \in 1..BufSize |-> IF k \in i..j THEN Spent(@[k]) ELSE @[k]]]

\* The record at the position is taken apart where it lies.  Nothing bounds
\* it by the length: text of an earlier use may complete it.
TakenApart(s, h, i, j) ==
    LET whole == j = i + 1 /\ s.buf[i][1] = s.buf[j][1] /\ s.buf[i][2] = 1 /\ s.buf[i][1] \in Names
    IN [s EXCEPT !.ent = IF whole THEN s.buf[i][1] ELSE "junk", !.table[h].position = j,
                 !.buf = [k \in 1..BufSize |-> IF k \in i..j THEN Spent(@[k]) ELSE @[k]]]
Parsed(s, h) ==
    LET i == s.table[h].position + 1
        ends == {j \in i..BufSize : s.buf[j][2] = 2}
    IN TakenApart(s, h, i, IF ends = {} THEN BufSize ELSE CHOOSE x \in ends : \A y \in ends : x <= y)

\* fujifs_readdir: ent is a name, "junk" or "end".
ParsedUnlessEnd(s, h) == IF s.ent = "end" THEN s ELSE Parsed(s, h)
Completed(s, h) ==
    LET f == s.table[h] IN
    IF s.ent = "end" THEN s
    ELSE IF \A i \in (f.position + 1)..f.length : s.buf[i][2] # 2
         THEN ParsedUnlessEnd(Refill(s, h, f.length - f.position), h)
         ELSE Parsed(s, h)
ReadDir(s, h) ==
    Completed(IF s.table[h].position >= s.table[h].length THEN Refill(s, h, 0)
              ELSE [s EXCEPT !.ent = "none"], h)

\* What is still to be taken of a directory: from the buffer and the FujiNet.
InBuffer(f) == IF f.position < f.length THEN f.length - f.position ELSE 0
Ahead(s, h) == InBuffer(s.table[h]) + Left(s, h)

\* Entries are read until one is wanted or none is left.  Every turn takes a
\* piece at least, or ends: more turns than pieces make no difference.
NextEntry(s, h, wanted) == IF s.ent \in wanted \cup {"end"} THEN s ELSE ReadDir(s, h)
ScanFrom(s, h, wanted) ==
    LET turn[k \in 0..Ahead(s, h)] == NextEntry(IF k = 0 THEN s ELSE turn[k - 1], h, wanted)
    IN turn[Ahead(s, h)]
Scan(s, h, wanted) == ScanFrom([s EXCEPT !.ent = "none"], h, wanted)

(* The directory left open behind the entry. *)
LookedOpen(r, h, n) == Failing(r, IF r.ent = n THEN "none" ELSE "not_found")

\* fujifs_stat: the whole directory is read for it.
Looked(r, h, n) == Failing(Close(r, h), IF r.ent = n THEN "none" ELSE "not_found")
StatIn(o, n) ==
    IF o.err # "none" THEN Failing(o, "service") ELSE Looked(Scan(o, o.h, {n}), o.h, n)
StatOn(s, host, n) ==
    IF s.h = 0 THEN Failing(s, "no_device") ELSE StatIn(OpenDir(Freed(Ennify(s), s.h), host, Parent[n]), n)
Stat(s, host, n) == StatOn(FindHandle(s), host, n)

-----------------------------------------------------------------------------
(* Operations on paths, sent to the host's device whatever streams there.  *)

PathDone(s, op, n) ==
    CASE op = "mkdir" -> [s EXCEPT !.exist = @ \cup {n}]
      [] op \in {"rmdir", "delete"} -> [s EXCEPT !.exist = @ \ {n}]
      [] OTHER -> s

PathAllowed(s, op, n) ==
    CASE op = "mkdir" -> n \in Dirs /\ ~Exists(s, n) /\ Exists(s, Parent[n])
      [] op = "rmdir" -> n \in Dirs /\ Exists(s, n) /\ Listing(s, n) = << >>
      [] op = "delete" -> n \in Names \ Dirs /\ Exists(s, n)
      [] OTHER -> Exists(s, n)

\* fujifs_path_operation.  Only STATUS is looked at: a good operation reports
\* END_OF_FILE and length 0 unless something streams on the device; one that
\* never arrived reports what the stream itself would.
Reported(t) ==
    LET good == t.status.err = "eof" /\ t.status.len = 0 IN
    [t EXCEPT !.status.err = IF good THEN "ok" ELSE @,
              !.err = IF good \/ t.status.err = "ok" THEN "none" ELSE "failed"]
OperationError(s, c, host, ok) ==
    CASE s.fuse = 1 /\ s.trouble = "refused" -> StreamError(c, host)
      [] OTHER -> IF ~ok THEN "failed" ELSE IF Left(c, host) = 0 THEN "eof" ELSE "ok"
Told(c, s, host, ok) == Reported(Status(c, host, OperationError(s, c, host, ok)))
Operated(s, host, op, n, ok) == Told(Called(s, IF ok THEN PathDone(s, op, n) ELSE s), s, host, ok)
PathOperation(s, host, op, n) == Operated(Ennify(s), host, op, n, PathAllowed(s, op, n))

\* fujifs_chdir: devices that took the host's directory must take it again.
Outdated(s, host) ==
    [s EXCEPT !.table = [h \in HandleSet |->
        [s.table[h] EXCEPT !.parent = IF h = host THEN host ELSE IF @ = host THEN 0 ELSE @]]]
ChDir(s, host, d) == Outdated(PathOperation(s, host, "chdir", d), host)

\* fujifs_rename
Rename(s) == Failing(s, "service")

\* fujifs_open_url: credentials are noted on the handle the open will take.
Entered(o) ==
    IF o.err # "none" THEN o
    ELSE [ChDir(o, o.h, Root) EXCEPT !.h = o.h, !.table[o.h].parent = o.h, !.err = "none"]
OpenUrlOn(s, user) ==
    IF s.h = 0 THEN Failing(s, "no_device")
    ELSE Entered(Open(Freed(Credentials([s EXCEPT !.table[s.h].user = @ \/ user]), s.h),
                      0, Root, "dir", TRUE))
OpenUrl(s, user) == OpenUrlOn(FindHandle(s), user)

-----------------------------------------------------------------------------
NewFs(exist, size) ==
    [table |-> [h \in HandleSet |-> FreeHandle], buf |-> [i \in 1..BufSize |-> <<"spent", 1>>],
     status |-> [len |-> 0, err |-> "ok"],
     dev |-> [h \in HandleSet |-> Closed], exist |-> exist, size |-> size,
     fuse |-> 0, trouble |-> "none", reply |-> TRUE,
     h |-> 0, n |-> 0, err |-> "none", ent |-> "none", data |-> << >>]

\* The library about to meet trouble of the given kind at call k.
Facing(s, k, kind) == [s EXCEPT !.fuse = k, !.trouble = kind]

\* The scratch fields of an operation forgotten.
Settled(s) ==
    [s EXCEPT !.fuse = 0, !.trouble = "none", !.reply = TRUE,
              !.h = 0, !.n = 0, !.err = "none", !.ent = "none", !.data = << >>]

FsTypeOK(s) ==
    /\ s.table \in [HandleSet -> [open : BOOLEAN, parent : 0..Total, auth : BOOLEAN, user : BOOLEAN,
                                  position : 0..BufSize, length : 0..BufSize]]
    /\ s.buf \in [1..BufSize -> Pieces]
    /\ s.status \in [len : Nat, err : {"ok", "eof", "failed"}]
    /\ \A h \in HandleSet : s.dev[h].kind \in {"closed", "dir", "file"}
                         /\ s.dev[h].obj \in Names \cup {Root} /\ s.dev[h].at \in Nat
    /\ s.exist \subseteq Names
    /\ s.size \in [Names -> Nat]
=============================================================================
