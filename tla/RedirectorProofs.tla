-------------------------- MODULE RedirectorProofs --------------------------
(***************************************************************************)
(* The network redirector and the copy program that runs beside it: their  *)
(* types, what a call of DOS reaches of the handles, and what holds over   *)
(* any order of calls: who has a handle has it alone and open on what it   *)
(* was opened for, no handle is left open without a known reason, a search *)
(* goes through its listing without a gap, a read stays within its buffer, *)
(* a create empties no file, and what is copied is the file.               *)
(***************************************************************************)
EXTENDS Ncopy, FujiFsProofs

-----------------------------------------------------------------------------
(* find_next and find_first.                                               *)

(* The search records DOS keeps.                                           *)
Records == [live : BOOLEAN, handle : HandleSet \cup {NoHandle}, dir : Dirs \cup {Root},
            mask : {All} \cup Names, dirs : BOOLEAN]

(* A record with another handle searches for the same.                     *)
LEMMA RecordSet ==
    ASSUME NEW rec \in Records, NEW h \in HandleSet \cup {NoHandle}
    PROVE  LET t == [rec EXCEPT !.handle = h] IN
           /\ t \in Records /\ t.handle = h /\ t.dir = rec.dir /\ t.mask = rec.mask /\ t.dirs = rec.dirs
           /\ t.live = rec.live /\ Wanted(t) = Wanted(rec)
BY DEF Records, Wanted

(* What a record's mask asks for.                                          *)
LEMMA WantedTyped ==
    ASSUME NEW rec \in Records
    PROVE  Wanted(rec) \in SUBSET (Names \cup {"junk"}) /\ rec.dir \in Objects
BY FujiFsAssumption DEF Wanted, Records, Objects

(* The two searches look for the same.                                     *)
SameSearch(a, b) == b \in Records /\ b.dir = a.dir /\ b.mask = a.mask /\ b.dirs = a.dirs /\ b.live = a.live

(* Ends a search, or goes on with it on handle h.                          *)
Goes(s, r, rec, h) ==
    /\ r.s \in Libs /\ Elsewise(s, r.s, {h}) /\ SameShare(s, r.s) /\ SameSearch(rec, r.rec)
    /\ r.err \in {"none", "no_more_files"}
    /\ r.err = "none" => /\ r.rec.handle = h /\ SameStream(s.dev[h], r.s.dev[h])
                         /\ r.s.table[h].open = s.table[h].open /\ r.ent \in Names \cup {"junk"}
                         /\ Ahead(r.s, h) < Ahead(s, h)
    /\ r.err = "no_more_files" => r.rec.handle = NoHandle /\ ~r.s.table[h].open

(* find_next's loop, and the handle it closes at the end.                  *)
LEMMA StoppedTyped ==
    ASSUME NEW s \in Libs, NEW h \in HandleSet, NEW rec \in Records
    PROVE  Goes(s, Stopped(Scan(s, h, Wanted(rec)), rec, h), rec, h)
<1> DEFINE W == Wanted(rec)
           z == Scan(s, h, W)
           c == Close(z, h)
<1>1. W \in SUBSET (Names \cup {"junk"})
  BY WantedTyped
<1> HIDE DEF W
<1>2. Turned(s, z, h)
  BY <1>1, ScanTyped
<1> HIDE DEF z
<1>3. /\ z \in Libs /\ SameShare(s, z) /\ Elsewise(s, z, {h}) /\ SameStream(s.dev[h], z.dev[h])
      /\ z.table[h].open = s.table[h].open /\ z.ent \in Names \cup {"junk", "end"}
      /\ z.ent # "end" => Ahead(z, h) < Ahead(s, h)
  BY <1>2 DEF Turned, Stays
<1>4. CASE z.ent = "end"
  <2> DEFINE q == [rec EXCEPT !.handle = NoHandle]
             r == Found(c, q, "no_more_files", "none")
  <2>1. Stopped(z, rec, h) = r
    BY <1>4 DEF Stopped
  <2>2. SameSearch(rec, q) /\ q.handle = NoHandle
    BY RecordSet DEF SameSearch
  <2> HIDE DEF q
  <2>3. r.s = c /\ r.rec = q /\ r.err = "no_more_files"
    BY DEF Found
  <2>4. c \in Libs /\ SameShare(z, c) /\ Elsewise(z, c, {h}) /\ ~c.table[h].open
    <3>1. CASE IsOpen(z, h)
      BY <1>3, <3>1, CloseTyped
    <3>2. CASE ~IsOpen(z, h)
      <4>1. c \in Libs /\ SameShare(z, c) /\ Untouched(z, c) /\ (z.fuse = 0 => c.fuse = 0)
        BY <1>3, <3>2, CloseTyped
      <4> QED
        BY <3>2, <4>1 DEF Untouched, SameTable, SameDev, Elsewise, IsOpen
    <3> QED
      BY <3>1, <3>2
  <2> HIDE DEF c
  <2>5. SameShare(s, c) /\ Elsewise(s, c, {h}) /\ ~c.table[h].open
    BY <1>3, <2>4 DEF SameShare, Elsewise
  <2> HIDE DEF r
  <2> QED
    BY <2>1, <2>2, <2>3, <2>4, <2>5 DEF Goes, W, z
<1>5. CASE z.ent # "end"
  <2> DEFINE q == [rec EXCEPT !.handle = h]
             r == Found(z, q, "none", z.ent)
  <2>1. Stopped(z, rec, h) = r
    BY <1>5 DEF Stopped
  <2>2. SameSearch(rec, q) /\ q.handle = h
    BY RecordSet DEF SameSearch
  <2> HIDE DEF q
  <2>3. r.s = z /\ r.rec = q /\ r.err = "none" /\ r.ent = z.ent
    BY DEF Found
  <2> HIDE DEF r
  <2> QED
    BY <1>3, <1>5, <2>1, <2>2, <2>3 DEF Goes, W, z
<1> QED
  BY <1>4, <1>5

(* The search goes from behind entry m of the listing l to the next wanted *)
(* one, or to the end if there is none.                                    *)
Advances(r, h, l, W, m) ==
    \/ r.err \in {"no_more_files", "file_not_found"} /\ UpTo(l, W)[Len(l)] = UpTo(l, W)[m]
    \/ \E j \in 1..Len(l) : /\ r.err = "none" /\ r.ent = l[j] /\ Place(r.s, h, l, j)
                            /\ UpTo(l, W)[j] = Append(UpTo(l, W)[m], l[j])

(* The loop takes the next match of the listing, or finds there is none.   *)
LEMMA StoppedPlace ==
    ASSUME BufSize >= 2, NEW s \in Libs, NEW h \in HandleSet, NEW rec \in Records, s.fuse = 0,
           NEW l \in Seq(Names), NEW m \in 0..Len(l), Place(s, h, l, m)
    PROVE  Advances(Stopped(Scan(s, h, Wanted(rec)), rec, h), h, l, Wanted(rec), m)
<1> DEFINE W == Wanted(rec)
           z == Scan(s, h, W)
           r == Stopped(z, rec, h)
           all == UpTo(l, W)
<1>1. W \in SUBSET (Names \cup {"junk"}) /\ "end" \notin Names
  BY WantedTyped, FujiFsAssumption
<1> HIDE DEF W
<1>2. \/ z.ent = "end" /\ all[Len(l)] = all[m]
      \/ \E j \in 1..Len(l) : z.ent = l[j] /\ l[j] \in W /\ Place(z, h, l, j) /\ all[j] = Append(all[m], l[j])
  BY <1>1, PlaceScan
<1> HIDE DEF z
<1>3. CASE z.ent = "end" /\ all[Len(l)] = all[m]
  <2>1. r.err = "no_more_files"
    BY <1>3 DEF Stopped, Found
  <2> HIDE DEF r
  <2> QED
    BY <1>3, <2>1 DEF Advances, W, z, r
<1>4. CASE \E j \in 1..Len(l) : z.ent = l[j] /\ l[j] \in W /\ Place(z, h, l, j) /\ all[j] = Append(all[m], l[j])
  <2>1. PICK j \in 1..Len(l) : z.ent = l[j] /\ l[j] \in W /\ Place(z, h, l, j) /\ all[j] = Append(all[m], l[j])
    BY <1>4
  <2>2. z.ent # "end"
    BY <1>1, <2>1
  <2>3. r.err = "none" /\ r.ent = z.ent /\ r.s = z
    BY <2>2 DEF Stopped, Found
  <2> HIDE DEF r
  <2> QED
    BY <2>1, <2>3 DEF Advances, W, z, r
<1> QED
  BY <1>2, <1>3, <1>4

(* A search that holds a handle goes on there.                             *)
LEMMA FindNextTyped ==
    ASSUME NEW s \in Libs, NEW rec \in Records, rec.handle \in HandleSet
    PROVE  LET h == rec.handle
               r == FindNextIn(s, rec) IN
           /\ Goes(s, r, rec, h)
           /\ \A l \in Seq(Names) : \A m \in 0..Len(l) :
                 BufSize >= 2 /\ s.fuse = 0 /\ Place(s, h, l, m) => Advances(r, h, l, Wanted(rec), m)
<1> DEFINE h == rec.handle
           a == [s EXCEPT !.h = h]
           o == Failing(a, "none")
           r == Stopped(Scan(o, h, Wanted(rec)), rec, h)
<1>1. h \in HandleSet /\ h \in 0..Total /\ h # NoHandle
  BY FujiFsAssumption DEF HandleSet, NoHandle
<1>2. a \in Libs /\ a.h = h /\ SameTable(s, a) /\ SameDev(s, a) /\ SameText(s, a) /\ SameShare(s, a) /\ a.fuse = s.fuse
  <2>1. a \in Libs
    BY <1>1, FieldSet
  <2> QED
    BY <1>1, <2>1 DEF Libs, SameTable, SameDev, SameText, SameShare
<1> HIDE DEF a
<1>3. /\ o \in Libs /\ o.err = "none" /\ o.h = a.h /\ o.fuse = a.fuse
      /\ SameTable(a, o) /\ SameDev(a, o) /\ SameText(a, o) /\ SameShare(a, o)
  BY <1>2, ScratchSet DEF Errors
<1>4. FindNextIn(s, rec) = r
  <2>1. o = [s EXCEPT !.h = rec.handle, !.err = "none"]
    BY DEF Failing, a
  <2>2. FindNextIn(s, rec) = FindOn(o, rec)
    BY <1>1, <2>1 DEF FindNextIn
  <2> HIDE DEF o
  <2> QED
    BY <1>2, <1>3, <2>2 DEF FindOn
<1> HIDE DEF o
<1>5. Goes(o, r, rec, h)
  BY <1>1, <1>3, StoppedTyped
<1>6. SameTable(s, o) /\ SameDev(s, o) /\ SameText(s, o) /\ SameShare(s, o) /\ o.fuse = s.fuse
  BY <1>2, <1>3 DEF SameTable, SameDev, SameText, SameShare
<1>7. ASSUME NEW l \in Seq(Names), NEW m \in 0..Len(l), BufSize >= 2, s.fuse = 0, Place(s, h, l, m)
      PROVE  Advances(r, h, l, Wanted(rec), m)
  <2>1. Place(o, h, l, m) /\ o.fuse = 0
    BY <1>6, <1>7 DEF Place, SameTable, SameDev, SameText
  <2> HIDE DEF h, r
  <2> QED
    BY <1>1, <1>3, <1>7, <2>1, StoppedPlace DEF r
<1> HIDE DEF r, h
<1>8. Goes(s, r, rec, h)
  <2>1. Ahead(o, h) = Ahead(s, h)
    BY <1>6 DEF SameTable, SameDev, SameShare, Ahead, Left
  <2> QED
    BY <1>5, <1>6, <2>1 DEF Goes, SameTable, SameDev, SameShare, Elsewise, IsOpen
<1> QED
  BY <1>4, <1>7, <1>8 DEF h


(* A new search: its handle is h, one that was free at s, or it has none.  *)
Starts(s, r, rec, h) ==
    /\ Within(s, r.s) /\ SameShare(s, r.s) /\ SameSearch(rec, r.rec)
    /\ r.err \in {"none", "network", "no_more_files", "file_not_found"}
    /\ r.err = "none" => /\ h \in Free(s) /\ h \in HandleSet /\ r.rec.handle = h /\ r.s.table[h].open
                         /\ Elsewise(s, r.s, {h}) /\ r.ent \in Names \cup {"junk"}
                         /\ s.fuse = 0 => r.s.dev[h].kind = "dir" /\ r.s.dev[h].obj = rec.dir
    /\ r.err # "none" => r.rec.handle = NoHandle /\ Free(r.s) = Free(s)

(* Its listing is that of the directory when it starts.                    *)
Lists(s, r, rec, h) ==
    BufSize >= 2 /\ s.fuse = 0 /\ r.err # "network" =>
        h \in HandleSet /\ Advances(r, h, Listing(s, rec.dir), Wanted(rec), 0)

(* find_next without a handle opens the directory first.                   *)
LEMMA FindNewTyped ==
    ASSUME NEW s \in Libs, NEW rec \in Records, rec.handle = NoHandle, host \in 0..Total
    PROVE  LET r == FindNextIn(s, rec)
               h == Lowest(Free(s)) IN
           Starts(s, r, rec, h) /\ Lists(s, r, rec, h)
<1> DEFINE r == FindNextIn(s, rec)
           h == Lowest(Free(s))
           d == rec.dir
           o == OpenDir(s, host, d)
           f == Found(o, rec, "network", "none")
           z == Stopped(Scan(o, h, Wanted(rec)), rec, h)
<1>0. d \in Objects /\ SameSearch(rec, rec)
  BY WantedTyped DEF SameSearch
<1>1. r = FindOn(o, rec)
  BY DEF FindNextIn
<1>2. /\ h = 0 => o \in Libs /\ o.err = "no_device" /\ o.h = 0 /\ Untouched(s, o) /\ o.fuse = s.fuse
      /\ h # 0 => h \in Free(s) /\ h \in HandleSet /\ DirOpenedAt(s, o, h, d)
  BY <1>0, OpenDirTyped
<1> HIDE DEF h, d, o
<1>3. CASE o.err # "none"
  <2>1. r = f
    BY <1>1, <1>3 DEF FindOn
  <2>2. f.s = o /\ f.rec = rec /\ f.err = "network"
    BY DEF Found
  <2>3. o \in Libs /\ SameShare(s, o) /\ Within(s, o) /\ Free(o) = Free(s)
    <3>1. CASE h = 0
      <4>1. Borrowed(s, o)
        BY <1>2, <3>1, BorrowedSame DEF Untouched
      <4> QED
        BY <4>1 DEF Borrowed, Within
    <3>2. CASE h # 0
      <4>1. h \in Free(s) /\ o \in Libs /\ Elsewise(s, o, {h}) /\ SameShare(s, o) /\ ~o.table[h].open
        BY <1>2, <1>3, <3>2 DEF DirOpenedAt
      <4>2. Borrowed(s, o)
        BY <4>1, BorrowedBack
      <4> QED
        BY <4>2 DEF Borrowed, Within
    <3> QED
      BY <3>1, <3>2
  <2> HIDE DEF f, r
  <2>4. Starts(s, r, rec, h)
    BY <1>0, <2>1, <2>2, <2>3 DEF Starts
  <2>5. Lists(s, r, rec, h)
    BY <2>1, <2>2 DEF Lists
  <2> QED
    BY <2>4, <2>5 DEF r, h
<1>4. CASE o.err = "none"
  <2>1. h \in Free(s) /\ h \in HandleSet /\ DirOpenedAt(s, o, h, d)
    BY <1>2, <1>4
  <2>2. o \in Libs /\ o.h = h /\ Elsewise(s, o, {h}) /\ SameShare(s, o) /\ o.table[h].open
    BY <1>4, <2>1 DEF DirOpenedAt
  <2>3. r = z
    BY <1>1, <1>4, <2>2 DEF FindOn
  <2>4. Goes(o, z, rec, h)
    BY <2>1, <2>2, StoppedTyped
  <2> HIDE DEF z
  <2>5. /\ z.s \in Libs /\ Elsewise(o, z.s, {h}) /\ SameShare(o, z.s) /\ SameSearch(rec, z.rec)
        /\ z.err \in {"none", "no_more_files"}
        /\ z.err = "none" => z.rec.handle = h /\ SameStream(o.dev[h], z.s.dev[h]) /\ z.s.table[h].open
                             /\ z.ent \in Names \cup {"junk"}
        /\ z.err = "no_more_files" => z.rec.handle = NoHandle /\ ~z.s.table[h].open
    BY <2>1, <2>2, <2>4 DEF Goes, IsOpen
  <2>6. Elsewise(s, z.s, {h}) /\ SameShare(s, z.s)
    BY <2>2, <2>5 DEF Elsewise, SameShare
  <2>7. Within(s, z.s)
    BY <2>1, <2>5, <2>6 DEF Within, Elsewise
  <2>8. ASSUME s.fuse = 0 PROVE Place(o, h, Listing(s, d), 0) /\ o.fuse = 0 /\ o.dev[h].kind = "dir" /\ o.dev[h].obj = d
    BY <1>0, <1>4, <2>1, <2>8, OpenedPlace
  <2>9. z.err # "none" => Free(z.s) = Free(s)
    BY <2>1, <2>5, <2>6, GivenBackFree
  <2>10. Starts(s, z, rec, h)
    BY <2>1, <2>5, <2>6, <2>7, <2>8, <2>9 DEF Starts, SameStream, d
  <2>11. ASSUME BufSize >= 2, s.fuse = 0 PROVE Advances(z, h, Listing(s, d), Wanted(rec), 0)
    <3> DEFINE l == Listing(s, d)
    <3>1. l \in Seq(Names) /\ Place(o, h, l, 0) /\ o.fuse = 0
      BY <2>8, <2>11, ListingTyped
    <3> HIDE DEF l
    <3>2. PICK m \in 0..Len(l) : m = 0
      BY <3>1
    <3>3. Place(o, h, l, m)
      BY <3>1, <3>2
    <3>4. Advances(z, h, l, Wanted(rec), m)
      BY <2>1, <2>2, <2>11, <3>1, <3>3, StoppedPlace DEF z
    <3> QED
      BY <3>2, <3>4 DEF l
  <2>12. Lists(s, z, rec, h)
    BY <2>1, <2>11 DEF Lists, d
  <2> QED
    BY <2>3, <2>10, <2>12 DEF h
<1> QED
  BY <1>3, <1>4

(* What find_first leaves of the handle in DOS's record.                   *)
Cleared(s) == IF sda # NoHandle THEN Close(s, sda) ELSE s

(* The handles that takes from their holders.                              *)
Stolen(s) == IF IsOpen(s, sda) THEN {sda} ELSE {}

(* The handles find_first takes away are free, and only those.             *)
LEMMA ClearedTyped ==
    ASSUME NEW s \in Libs
    PROVE  LET c == Cleared(s) IN
           /\ c \in Libs /\ SameShare(s, c) /\ (s.fuse = 0 => c.fuse = 0)
           /\ Elsewise(s, c, Stolen(s)) /\ Free(c) = Free(s) \cup Stolen(s)
<1> DEFINE c == Cleared(s)
<1>1. CASE sda = NoHandle
  <2>1. c = s /\ Stolen(s) = {}
    BY <1>1, FujiFsAssumption DEF Cleared, Stolen, IsOpen, HandleSet, NoHandle
  <2> QED
    BY <2>1 DEF SameShare, Elsewise
<1>2. CASE sda # NoHandle
  <2>1. c = Close(s, sda)
    BY <1>2 DEF Cleared
  <2>2. CASE IsOpen(s, sda)
    <3>1. c \in Libs /\ SameShare(s, c) /\ sda \in HandleSet /\ Elsewise(s, c, {sda}) /\ ~c.table[sda].open
      BY <2>1, <2>2, CloseTyped
    <3>2. Stolen(s) = {sda}
      BY <2>2 DEF Stolen
    <3> HIDE DEF c
    <3>3. Free(c) = Free(s) \cup {sda}
      BY <3>1 DEF Free, Elsewise
    <3> QED
      BY <3>1, <3>2, <3>3 DEF Elsewise, c
  <2>3. CASE ~IsOpen(s, sda)
    <3>1. c \in Libs /\ SameShare(s, c) /\ Untouched(s, c) /\ (s.fuse = 0 => c.fuse = 0)
      BY <2>1, <2>3, CloseTyped
    <3>2. Stolen(s) = {}
      BY <2>3 DEF Stolen
    <3> HIDE DEF c
    <3>3. Free(c) = Free(s) /\ Elsewise(s, c, {})
      BY <3>1 DEF Untouched, SameTable, SameDev, Free, Elsewise
    <3> QED
      BY <3>1, <3>2, <3>3 DEF c
  <2> QED
    BY <2>2, <2>3
<1> QED
  BY <1>1, <1>2

(* What a search is asked for.                                             *)
Requests == [dir : Dirs \cup {Root}, mask : {All} \cup Names, dirs : BOOLEAN]

(* The record of a request.                                                *)
LEMMA SearchTyped ==
    ASSUME NEW x \in Requests
    PROVE  /\ Search(x) \in Records /\ Search(x).handle = NoHandle /\ Search(x).live
           /\ Search(x).dir = x.dir /\ Wanted(Search(x)) = Wanted(x)
           /\ [x EXCEPT !.dirs = FALSE] \in Requests
BY DEF Requests, Search, Records, Wanted

(* find_first: from the handles it has cleared.                            *)
LEMMA FindFirstTyped ==
    ASSUME NEW s \in Libs, NEW x \in Requests, host \in 0..Total
    PROVE  LET r == FindFirstIn(s, x)
               c == Cleared(s)
               h == Lowest(Free(c)) IN
           Starts(c, r, Search(x), h) /\ Lists(c, r, Search(x), h)
<1> DEFINE c == Cleared(s)
           h == Lowest(Free(c))
           rec == Search(x)
           q == FindNextIn(c, rec)
           e == IF q.err = "no_more_files" THEN "file_not_found" ELSE q.err
           r == [q EXCEPT !.err = e]
<1>1. FindFirstIn(s, x) = r
  BY DEF FindFirstIn, Cleared
<1>2. c \in Libs
  BY ClearedTyped
<1> HIDE DEF c
<1>3. rec \in Records /\ rec.handle = NoHandle
  BY SearchTyped
<1> HIDE DEF rec
<1>4. Starts(c, q, rec, h) /\ Lists(c, q, rec, h)
  BY <1>2, <1>3, FindNewTyped
<1>5. q = Found(q.s, q.rec, q.err, q.ent)
  BY DEF FindNextIn, FindOn, Stopped, Found
<1> HIDE DEF q, h
<1>6. r.s = q.s /\ r.rec = q.rec /\ r.ent = q.ent /\ r.err = e
  BY <1>5 DEF Found
<1> HIDE DEF r
<1>7. Starts(c, r, rec, h)
  BY <1>4, <1>6 DEF Starts
<1>8. Lists(c, r, rec, h)
  <2>1. e = "network" <=> q.err = "network"
    OBVIOUS
  <2>2. Advances(q, h, Listing(c, rec.dir), Wanted(rec), 0) => Advances(r, h, Listing(c, rec.dir), Wanted(rec), 0)
    BY <1>6 DEF Advances
  <2> QED
    BY <1>4, <1>6, <2>1, <2>2 DEF Lists
<1> QED
  BY <1>1, <1>7, <1>8 DEF c, h, rec


(* The state of a wildcard operation that began at c.                      *)
Held(c, r) ==
    /\ Within(c, r.s)
    /\ IF r.err \in {"none", "access_denied"}
       THEN r.rec.handle \in Free(c) /\ Free(r.s) = Free(c) \ {r.rec.handle}
       ELSE r.rec.handle = NoHandle /\ Free(r.s) = Free(c)

(* What a search may return, and what a deletion has on its way.           *)
Results == [s : Libs, rec : Records,
            err : {"none", "network", "no_more_files", "file_not_found", "access_denied"},
            ent : Entries]
Progress(c) == {r \in Results : Held(c, r)}

(* A search just begun is on its way.                                      *)
LEMMA StartsHeld ==
    ASSUME NEW c \in Libs, NEW rec, NEW h, NEW s, NEW q, NEW err, NEW ent \in Entries, Starts(c, Found(s, q, err, ent), rec, h)
    PROVE  Found(s, q, err, ent) \in Progress(c)
<1> DEFINE r == Found(s, q, err, ent)
<1>1. r.s = s /\ r.rec = q /\ r.err = err /\ r.ent = ent
  BY DEF Found
<1>2. /\ Within(c, s) /\ SameSearch(rec, q)
      /\ err \in {"none", "network", "no_more_files", "file_not_found"}
      /\ err = "none" => h \in Free(c) /\ h \in HandleSet /\ q.handle = h /\ s.table[h].open /\ Elsewise(c, s, {h})
      /\ err # "none" => q.handle = NoHandle /\ Free(s) = Free(c)
  BY <1>1 DEF Starts
<1>3. err = "none" => Free(s) = Free(c) \ {h}
  BY <1>2 DEF Free, Elsewise
<1>4. Held(c, r)
  <2> HIDE DEF r
  <2> QED
    BY <1>1, <1>2, <1>3 DEF Held
<1>5. r \in Results
  BY <1>2 DEF Found, Results, Within, SameSearch
<1> QED
  BY <1>4, <1>5 DEF Progress

(* A turn that goes on has less ahead.                                     *)
Nearer(b, r) == r.err = "none" => Ahead(r.s, r.rec.handle) < Ahead(b.s, b.rec.handle)

(* A file deleted, and the next looked for.                                *)
LEMMA UnlinkedHeld ==
    ASSUME NEW c \in Libs, NEW b \in Progress(c), host \in HandleSet
    PROVE  /\ UnlinkNext(b) \in Progress(c)
           /\ IF b.err = "none" THEN Nearer(b, UnlinkNext(b)) ELSE UnlinkNext(b) = b
<1> DEFINE p == PathOperation(b.s, host, "delete", Spelt(b.ent))
           rec == b.rec
           h == rec.handle
<1>1. b.s \in Libs /\ rec \in Records /\ b.ent \in Entries /\ Held(c, b)
  BY DEF Progress, Results
<1>2. CASE b.err # "none"
  BY <1>2 DEF UnlinkNext
<1>3. CASE b.err = "none"
  <2>1. UnlinkNext(b) = Unlinked(p, rec, b.ent)
    BY <1>3 DEF UnlinkNext
  <2>2. p \in Libs /\ SameTable(b.s, p) /\ SameDev(b.s, p) /\ p.size = b.s.size /\ (b.s.fuse = 0 => p.fuse = 0)
    BY <1>1, PathOperationTyped
  <2> HIDE DEF p
  <2>3. Within(c, b.s) /\ h \in Free(c) /\ Free(b.s) = Free(c) \ {h} /\ h \in HandleSet
    BY <1>1, <1>3 DEF Held, Free
  <2>4. Within(c, p) /\ Free(p) = Free(c) \ {h}
    BY <2>2, <2>3 DEF Within, SameTable, SameDev, Elsewise, Free
  <2>5. CASE p.err # "none"
    <3> DEFINE r == Found(p, rec, "access_denied", b.ent)
    <3>1. Unlinked(p, rec, b.ent) = r
      BY <2>5 DEF Unlinked
    <3>2. r.s = p /\ r.rec = rec /\ r.err = "access_denied"
      BY DEF Found
    <3>3. r \in Results
      BY <1>1, <2>2 DEF Found, Results
    <3> HIDE DEF r
    <3>4. Held(c, r)
      BY <2>3, <2>4, <3>2 DEF Held
    <3> QED
      BY <1>3, <2>1, <3>1, <3>2, <3>3, <3>4 DEF Progress, Nearer
  <2>6. CASE p.err = "none"
    <3> DEFINE r == FindNextIn(p, rec)
    <3>1. Unlinked(p, rec, b.ent) = r
      BY <2>6 DEF Unlinked
    <3>2. Goes(p, r, rec, h)
      BY <1>1, <2>2, <2>3, FindNextTyped
    <3>3. r = Found(r.s, r.rec, r.err, r.ent) /\ r.ent \in {"none"} \cup {r.ent}
      BY DEF FindNextIn, FindOn, Stopped, Found
    <3>4. r.err # "none" => r.ent = "none"
      <4>1. rec.handle # NoHandle
        BY <2>3, FujiFsAssumption DEF HandleSet, NoHandle
      <4> QED
        BY <4>1 DEF FindNextIn, FindOn, Stopped, Found
    <3> HIDE DEF r
    <3>5. /\ r.s \in Libs /\ Elsewise(p, r.s, {h}) /\ r.rec \in Records /\ r.err \in {"none", "no_more_files"}
          /\ r.err = "none" => r.rec.handle = h /\ r.s.table[h].open = p.table[h].open /\ r.ent \in Names \cup {"junk"}
                               /\ Ahead(r.s, h) < Ahead(p, h)
          /\ r.err = "no_more_files" => r.rec.handle = NoHandle /\ (IsOpen(p, h) => ~r.s.table[h].open)
      BY <3>2 DEF Goes, SameSearch
    <3>6. r \in Results
      <4>1. r.ent \in Entries
        BY <3>4, <3>5 DEF Entries
      <4> QED
        BY <3>3, <3>5, <4>1 DEF Found, Results
    <3>7. Within(c, r.s)
      BY <2>3, <2>4, <3>5, WithinOn
    <3>8. IsOpen(p, h)
      BY <2>3, <2>4 DEF Free, IsOpen
    <3>9. IF r.err = "none" THEN Free(r.s) = Free(c) \ {h} ELSE Free(r.s) = Free(c)
      <4>1. Free(p) = Free(c) \ {h} /\ h \in Free(c) /\ h \in HandleSet
        BY <2>3, <2>4
      <4>2. CASE r.err = "none"
        BY <3>5, <4>1, <4>2 DEF Free, Elsewise
      <4>3. CASE r.err # "none"
        <5>1. ~r.s.table[h].open
          BY <3>5, <3>8, <4>3
        <5>2. Elsewise(p, r.s, {h})
          BY <3>5
        <5>3. \A x \in HandleSet : x # h => r.s.table[x] = p.table[x]
          BY <5>2 DEF Elsewise
        <5>4. \A x \in HandleSet : (x \in Free(r.s)) <=> (x = h \/ x \in Free(p))
          BY <5>1, <5>3 DEF Free
        <5>5. Free(r.s) \subseteq HandleSet /\ Free(c) \subseteq HandleSet
          BY DEF Free
        <5>6. Free(r.s) = Free(c)
          BY <4>1, <5>4, <5>5
        <5> QED
          BY <4>3, <5>6
      <4> QED
        BY <4>2, <4>3
    <3>10. Held(c, r)
      BY <2>3, <3>5, <3>7, <3>9 DEF Held
    <3>11. Ahead(p, h) = Ahead(b.s, h)
      BY <2>2 DEF SameTable, SameDev, Ahead, Left
    <3>12. Nearer(b, r)
      BY <1>3, <3>5, <3>11 DEF Nearer
    <3> QED
      BY <1>3, <2>1, <3>1, <3>6, <3>10, <3>12 DEF Progress
  <2> QED
    BY <2>5, <2>6
<1> QED
  BY <1>2, <1>3

(* The turns of the loop of delete_files.                                  *)
AreUnlinked(f, a) ==
    f = [k \in 0..TurnsLeft(a) |-> IF k = 0 THEN a ELSE UnlinkNext(f[k - 1])]
UnlinkTurns(a) == CHOOSE f : AreUnlinked(f, a)

(* The deletion ends at its last turn.                                     *)
LEMMA UnlinkAllIs ==
    ASSUME NEW a
    PROVE  UnlinkAll(a) = [UnlinkTurns(a)[TurnsLeft(a)] EXCEPT !.err = IF @ = "no_more_files" THEN "none" ELSE @]
BY DEF UnlinkAll, UnlinkTurns, AreUnlinked

(* All the turns, by Iterated: the last finds nothing more, or is refused. *)
LEMMA UnlinkTurnsAre ==
    ASSUME NEW c \in Libs, NEW a \in Progress(c), host \in HandleSet
    PROVE  UnlinkTurns(a)[TurnsLeft(a)] \in Progress(c) /\ UnlinkTurns(a)[TurnsLeft(a)].err # "none"
<1> DEFINE n == TurnsLeft(a)
           V == Progress(c)
           far(r) == Ahead(r.s, r.rec.handle)
           g == [k \in 1..n |-> [v \in V |-> UnlinkNext(v)]]
<1>0. \A r \in V : r.err = "none" => far(r) \in Nat
  BY AheadTyped DEF Progress, Held, Results, Free
<1>1. n \in Nat /\ a \in V /\ n = IF a.err = "none" THEN far(a) + 1 ELSE 0
  BY <1>0 DEF TurnsLeft
<1>2. g \in [1..n -> [V -> V]]
  BY UnlinkedHeld
<1>3. \A k \in 1..n, v \in V : g[k][v] = UnlinkNext(v)
  OBVIOUS
<1> HIDE DEF g, n, V
<1>4. PICK f \in [0..n -> V] : Follows(f, n, a, g)
  BY <1>1, <1>2, Iterated
<1>5. f[0] = a /\ \A k \in 1..n : k - 1 \in 0..n /\ f[k] = UnlinkNext(f[k - 1])
  BY <1>1, <1>3, <1>4 DEF Follows
<1>6. AreUnlinked(f, a)
  <2>1. \A k \in 0..n : k # 0 => k \in 1..n
    BY <1>1
  <2> QED
    BY <1>4, <1>5, <2>1 DEF AreUnlinked, n
<1> DEFINE u == UnlinkTurns(a)
<1>7. AreUnlinked(u, a)
  BY <1>6 DEF UnlinkTurns
<1> HIDE DEF u, far
<1>8. u[0] = a /\ \A k \in 1..n : u[k] = UnlinkNext(u[k - 1])
  <2>1. 0 \in 0..n /\ \A k \in 1..n : k \in 0..n /\ k # 0
    BY <1>1
  <2> QED
    BY <1>7, <2>1 DEF AreUnlinked, n
<1> DEFINE Goes1(r, k) == r.err = "none" => a.err = "none" /\ far(r) + k <= far(a)
           R == {k \in 0..n : u[k] \in V /\ Goes1(u[k], k)}
<1>9. 0 \in R
  BY <1>0, <1>1, <1>8
<1>10. ASSUME NEW k \in 1..n, k - 1 \in R PROVE k \in R
  <2> DEFINE b == u[k - 1]
             r == UnlinkNext(b)
  <2>1. b \in V /\ k \in 0..n /\ k \in Nat /\ Goes1(b, k - 1) /\ u[k] = r
    BY <1>1, <1>8, <1>10
  <2> HIDE DEF b
  <2>2. r \in V /\ IF b.err = "none" THEN Nearer(b, r) ELSE r = b
    BY <2>1, UnlinkedHeld DEF V
  <2>3. b.err = "none" /\ r.err = "none" => far(r) < far(b)
    BY <2>2 DEF Nearer, far
  <2> HIDE DEF r
  <2>4. CASE b.err # "none"
    BY <2>1, <2>2, <2>4
  <2>5. CASE b.err = "none" /\ r.err = "none"
    BY <1>0, <1>1, <2>1, <2>2, <2>3, <2>5
  <2>6. CASE r.err # "none"
    BY <2>1, <2>2, <2>6
  <2> QED
    BY <2>4, <2>5, <2>6
<1> HIDE DEF R
<1>11. \A k \in 0..n : k \in R
  BY <1>1, <1>9, <1>10, UpToN
<1>12. n \in R
  BY <1>1, <1>11
<1>13. u[n] \in V /\ u[n].err # "none"
  BY <1>0, <1>1, <1>12 DEF R
<1> QED
  BY <1>13 DEF V, u, n

(* delete_files: it ends with the handle free again, unless it was broken  *)
(* off.                                                                    *)
LEMMA DeletionTyped ==
    ASSUME NEW s \in Libs, NEW x \in Requests, host \in HandleSet
    PROVE  LET r == Deletion(s, x)
               c == Cleared(s) IN
           /\ r.s \in Libs /\ Within(c, r.s) /\ r.rec.handle \in Free(c) \cup {NoHandle}
           /\ r.err # "access_denied" => Free(r.s) = Free(c)
<1> DEFINE c == Cleared(s)
           y == [x EXCEPT !.dirs = FALSE]
           a == FindFirstIn(s, y)
           b == UnlinkTurns(a)[TurnsLeft(a)]
           e == IF b.err = "no_more_files" THEN "none" ELSE b.err
           r == [b EXCEPT !.err = e]
<1>1. Deletion(s, x) = r
  <2>1. Deletion(s, x) = UnlinkAll(a)
    BY DEF Deletion
  <2> HIDE DEF a
  <2> QED
    BY <2>1, UnlinkAllIs
<1>2. c \in Libs
  BY ClearedTyped
<1>3. y \in Requests /\ host \in 0..Total
  <2>1. y \in Requests
    BY SearchTyped
  <2> QED
    BY <2>1, FujiFsAssumption DEF HandleSet
<1>4. Starts(c, a, Search(y), Lowest(Free(c)))
  BY <1>3, FindFirstTyped
<1>5. a = Found(a.s, a.rec, a.err, a.ent) /\ (a.err # "none" => a.ent = "none")
  <2> DEFINE q == FindNextIn(c, Search(y))
             v == IF q.err = "no_more_files" THEN "file_not_found" ELSE q.err
  <2>1. q = Found(q.s, q.rec, q.err, q.ent) /\ (q.err # "none" => q.ent = "none")
    <3> DEFINE rec == Search(y)
    <3> HIDE DEF c, rec
    <3> QED
      BY DEF FindNextIn, FindOn, Stopped, Found
  <2>2. a = [q EXCEPT !.err = v]
    BY DEF FindFirstIn, Cleared
  <2> HIDE DEF q
  <2> QED
    BY <2>1, <2>2 DEF Found
<1> HIDE DEF c, y, a
<1>6. a.ent \in Entries
  BY <1>4, <1>5 DEF Starts, Entries
<1>7. a \in Progress(c)
  <2>1. Starts(c, Found(a.s, a.rec, a.err, a.ent), Search(y), Lowest(Free(c)))
    BY <1>4, <1>5
  <2>2. Found(a.s, a.rec, a.err, a.ent) \in Progress(c)
    BY <1>2, <1>6, <2>1, StartsHeld
  <2> QED
    BY <1>5, <2>2
<1>8. b \in Progress(c) /\ b.err # "none"
  BY <1>2, <1>7, UnlinkTurnsAre
<1> HIDE DEF b
<1>9. /\ b.s \in Libs /\ Within(c, b.s) /\ b.rec.handle \in Free(c) \cup {NoHandle}
      /\ b.err # "access_denied" => Free(b.s) = Free(c)
  BY <1>8 DEF Progress, Results, Held
<1>10. r.s = b.s /\ r.rec = b.rec /\ r.err = e
  BY <1>8 DEF Progress, Results
<1> QED
  BY <1>1, <1>9, <1>10 DEF c

-----------------------------------------------------------------------------
(* Types of the redirector and NCOPY.                                      *)

(* The library between two calls.                                          *)
Quiet(s) ==
    /\ s.fuse = 0 /\ s.trouble = "none" /\ s.reply = TRUE /\ s.h = 0 /\ s.n = 0
    /\ s.err = "none" /\ s.ent = "none" /\ s.data = << >>

(* The books of the searches and the files.                                *)
Findings == [expect : Seq(Names), seen : Seq(Entries), clean : BOOLEAN, done : BOOLEAN]
OpenFiles == [count : 0..2, mode : Modes, handle : 0..Total, pos : Nat, last : Nat, size : Nat]

(* What the library of FNSHARE keeps between two calls, and DOS for it.    *)
StateTyped ==
    /\ fs \in Libs /\ Quiet(fs)
    /\ host \in 0..Total /\ faults \in 0..MaxFaults
    /\ sda \in Nat \cup {NoHandle}
    /\ dta \in [Programs -> Records] /\ \A p \in Programs : dta[p].live => dta[p].handle \in HandleSet
    /\ sft \in [Files -> OpenFiles]
(* The types of the books, and of the whole.                               *)
HistoryTyped ==
    /\ list \in [Programs -> Findings]
    /\ fileOf \in [Files -> Objects]
    /\ lost \in SUBSET (Programs \cup Files) /\ slipped \in SUBSET (Programs \cup Files)
    /\ sloppy \in SUBSET {"read only", "abandoned", "broken off"}
Typed == StateTyped /\ HistoryTyped

(* The copy program's own state.                                           *)
Copies == [pc : {"absent", "prompt", "get", "put", "close", "gone"}, cmd : {"none", "get", "put"},
           name : Objects, host : 0..Total, h : 0..Total, local : Seq(Nat), sent : 0..LocalSize,
           failed : BOOLEAN, rough : SUBSET {"absent", "prompt", "get", "put", "close", "gone"},
           clean : BOOLEAN]

(* What a program finds again: all but the scratch fields.                 *)
Ends(s, t) ==
    /\ t \in Libs /\ Quiet(t)
    /\ SameTable(s, t) /\ SameDev(s, t) /\ SameText(s, t) /\ SameShare(s, t) /\ t.status = s.status

(* A call returns.                                                         *)
LEMMA SettledTyped ==
    ASSUME NEW s \in Libs
    PROVE  Ends(s, Settled(s))
<1> DEFINE t == Settled(s)
<1>0. PICK b \in BOOLEAN : b = TRUE
  OBVIOUS
<1>1. t = [table |-> s.table, buf |-> s.buf, status |-> s.status, dev |-> s.dev, exist |-> s.exist,
           size |-> s.size, fuse |-> 0, trouble |-> "none", reply |-> b,
           h |-> 0, n |-> 0, err |-> "none", ent |-> "none", data |-> << >>]
  <2>1. s = [table |-> s.table, buf |-> s.buf, status |-> s.status, dev |-> s.dev, exist |-> s.exist,
             size |-> s.size, fuse |-> s.fuse, trouble |-> s.trouble, reply |-> s.reply,
             h |-> s.h, n |-> s.n, err |-> s.err, ent |-> s.ent, data |-> s.data]
    BY DEF Libs
  <2>2. PICK r : r = s
    OBVIOUS
  <2> DEFINE r1 == [r EXCEPT !.fuse = 0]
             r2 == [r1 EXCEPT !.trouble = "none"]
             r3 == [r2 EXCEPT !.reply = b]
             r4 == [r3 EXCEPT !.h = 0]
             r5 == [r4 EXCEPT !.n = 0]
             r6 == [r5 EXCEPT !.err = "none"]
             r7 == [r6 EXCEPT !.ent = "none"]
             r8 == [r7 EXCEPT !.data = << >>]
  <2>3. t = r8
    BY <1>0, <2>2 DEF Settled
  <2> HIDE DEF r1, r2, r3, r4, r5, r6, r7, r8
  <2>4. r1 = [table |-> s.table, buf |-> s.buf, status |-> s.status, dev |-> s.dev,
              exist |-> s.exist, size |-> s.size,
              fuse |-> 0, trouble |-> s.trouble, reply |-> s.reply, h |-> s.h, n |-> s.n, err |-> s.err, ent |-> s.ent, data |-> s.data]
    BY <2>1, <2>2 DEF r1
  <2>5. r2 = [table |-> s.table, buf |-> s.buf, status |-> s.status, dev |-> s.dev,
              exist |-> s.exist, size |-> s.size,
              fuse |-> 0, trouble |-> "none", reply |-> s.reply, h |-> s.h, n |-> s.n, err |-> s.err, ent |-> s.ent, data |-> s.data]
    BY <2>4 DEF r2
  <2>6. r3 = [table |-> s.table, buf |-> s.buf, status |-> s.status, dev |-> s.dev,
              exist |-> s.exist, size |-> s.size,
              fuse |-> 0, trouble |-> "none", reply |-> b, h |-> s.h, n |-> s.n, err |-> s.err, ent |-> s.ent, data |-> s.data]
    BY <2>5 DEF r3
  <2>7. r4 = [table |-> s.table, buf |-> s.buf, status |-> s.status, dev |-> s.dev,
              exist |-> s.exist, size |-> s.size,
              fuse |-> 0, trouble |-> "none", reply |-> b, h |-> 0, n |-> s.n, err |-> s.err, ent |-> s.ent, data |-> s.data]
    BY <2>6 DEF r4
  <2>8. r5 = [table |-> s.table, buf |-> s.buf, status |-> s.status, dev |-> s.dev,
              exist |-> s.exist, size |-> s.size,
              fuse |-> 0, trouble |-> "none", reply |-> b, h |-> 0, n |-> 0, err |-> s.err, ent |-> s.ent, data |-> s.data]
    BY <2>7 DEF r5
  <2>9. r6 = [table |-> s.table, buf |-> s.buf, status |-> s.status, dev |-> s.dev,
              exist |-> s.exist, size |-> s.size,
              fuse |-> 0, trouble |-> "none", reply |-> b, h |-> 0, n |-> 0, err |-> "none", ent |-> s.ent, data |-> s.data]
    BY <2>8 DEF r6
  <2>10. r7 = [table |-> s.table, buf |-> s.buf, status |-> s.status, dev |-> s.dev,
              exist |-> s.exist, size |-> s.size,
              fuse |-> 0, trouble |-> "none", reply |-> b, h |-> 0, n |-> 0, err |-> "none", ent |-> "none", data |-> s.data]
    BY <2>9 DEF r7
  <2>11. r8 = [table |-> s.table, buf |-> s.buf, status |-> s.status, dev |-> s.dev,
              exist |-> s.exist, size |-> s.size,
              fuse |-> 0, trouble |-> "none", reply |-> b, h |-> 0, n |-> 0, err |-> "none", ent |-> "none", data |-> << >>]
    BY <2>10 DEF r8
  <2> HIDE DEF t
  <2> QED
    BY <2>3, <2>11
<1> HIDE DEF t
<1>2. t.table = s.table /\ t.buf = s.buf /\ t.status = s.status /\ t.dev = s.dev /\ t.exist = s.exist /\ t.size = s.size
  BY <1>1
<1>3. Quiet(t)
  BY <1>0, <1>1 DEF Quiet
<1>4. t \in Libs
  <2>1. /\ s.table \in [HandleSet -> Handles] /\ s.buf \in [1..BufSize -> Pieces] /\ s.status \in Statuses
        /\ s.dev \in [HandleSet -> Streams] /\ s.exist \in SUBSET Names /\ s.size \in [Names -> Nat]
    BY DEF Libs
  <2>2. 0 \in 0..Total /\ 0 \in Int /\ 0 \in Nat /\ "none" \in Errors /\ "none" \in Entries /\ << >> \in Seq(Pieces)
    BY FujiFsAssumption DEF Errors, Entries
  <2> QED
    BY <1>1, <2>1, <2>2 DEF Libs
<1> QED
  BY <1>2, <1>3, <1>4 DEF Ends, SameTable, SameDev, SameText, SameShare, t

(* There is nothing left to settle.                                        *)
LEMMA QuietSettled ==
    ASSUME NEW s \in Libs
    PROVE  Quiet(s) => s = Settled(s)
<1> SUFFICES ASSUME Quiet(s) PROVE s = Settled(s)
  OBVIOUS
<1>1. s = [table |-> s.table, buf |-> s.buf, status |-> s.status, dev |-> s.dev, exist |-> s.exist,
           size |-> s.size, fuse |-> s.fuse, trouble |-> s.trouble, reply |-> s.reply,
           h |-> s.h, n |-> s.n, err |-> s.err, ent |-> s.ent, data |-> s.data]
  BY DEF Libs
<1> QED
  BY <1>1 DEF Quiet, Settled

(* A call that meets trouble, or not.                                      *)
LEMMA FacingTyped ==
    ASSUME NEW s \in Libs, NEW k \in Nat, NEW kind \in {"none", "refused", "unacked", "short", "empty"}
    PROVE  LET t == Facing(s, k, kind) IN
           /\ t \in Libs /\ t.fuse = k
           /\ SameTable(s, t) /\ SameDev(s, t) /\ SameText(s, t) /\ SameShare(s, t) /\ t.status = s.status
BY DEF Facing, Libs, SameTable, SameDev, SameText, SameShare

(* What may go wrong is bounded.                                           *)
LEMMA LuckTyped ==
    ASSUME StateTyped, NEW luck \in Lucks
    PROVE  /\ luck[1] \in Nat /\ luck[2] \in {"none", "refused", "unacked", "short", "empty"}
           /\ Troubled(luck) \in BOOLEAN /\ (~Troubled(luck) => luck[1] = 0)
           /\ Troubled(luck) => faults < MaxFaults
BY RedirectorAssumption DEF Lucks, Troubled

(* A call begins: the library as it was left.                              *)
LEMMA WithTyped ==
    ASSUME StateTyped, NEW luck \in Lucks
    PROVE  LET s == With(luck) IN
           /\ s \in Libs /\ (~Troubled(luck) => s.fuse = 0)
           /\ SameTable(fs, s) /\ SameDev(fs, s) /\ SameText(fs, s) /\ SameShare(fs, s)
<1>1. /\ luck[1] \in Nat /\ luck[2] \in {"none", "refused", "unacked", "short", "empty"}
      /\ ~Troubled(luck) => luck[1] = 0
  BY LuckTyped
<1>2. fs \in Libs
  BY DEF StateTyped
<1> DEFINE s == Facing(fs, luck[1], luck[2])
<1>3. s \in Libs /\ s.fuse = luck[1] /\ SameTable(fs, s) /\ SameDev(fs, s) /\ SameText(fs, s) /\ SameShare(fs, s)
  <2> DEFINE k == luck[1]
             kind == luck[2]
  <2> HIDE DEF k, kind
  <2>1. k \in Nat /\ kind \in {"none", "refused", "unacked", "short", "empty"}
    BY <1>1 DEF k, kind
  <2>2. LET t == Facing(fs, k, kind) IN
        t \in Libs /\ t.fuse = k /\ SameTable(fs, t) /\ SameDev(fs, t) /\ SameText(fs, t) /\ SameShare(fs, t)
    BY <1>2, <2>1, FacingTyped
  <2> QED
    BY <2>2 DEF k, kind
<1> HIDE DEF s
<1> QED
  BY <1>1, <1>3 DEF With, s

(* The end of a call.                                                      *)
LEMMA ReturnTyped ==
    ASSUME StateTyped, NEW luck \in Lucks, NEW s \in Libs, NEW reply, Return(s, luck, reply)
    PROVE  /\ Ends(s, fs') /\ s.fuse = 0 /\ host' = host /\ faults' \in 0..MaxFaults
           /\ Troubled(luck) => faults' > faults
<1>1. fs' = Settled(s) /\ s.fuse = 0 /\ host' = host /\ faults' = faults + (IF Troubled(luck) THEN 1 ELSE 0)
  BY DEF Return
<1>2. Ends(s, fs')
  BY <1>1, SettledTyped
<1>3. faults \in 0..MaxFaults /\ MaxFaults \in Nat /\ (Troubled(luck) => faults < MaxFaults)
  BY LuckTyped, RedirectorAssumption DEF StateTyped
<1> HIDE DEF Troubled
<1> QED
  BY <1>1, <1>2, <1>3

(* The books of the searches after a call.                                 *)
LEMMA WatchedTyped ==
    ASSUME HistoryTyped, NEW s, NEW acting
    PROVE  Watched(s, acting) \in [Programs -> Findings]
<1>1. NoList \in Findings
  BY DEF NoList, Findings
<1>2. ASSUME NEW p \in Programs PROVE [list[p] EXCEPT !.clean = @ /\ Kept(p, s)] \in Findings
  BY DEF HistoryTyped, Findings, Kept
<1> QED
  BY <1>1, <1>2 DEF Watched

-----------------------------------------------------------------------------
(* What the calls do to the handles.                                       *)

(* A step leaves the handles alone that are neither free nor in T.         *)
Reaches(T) == Elsewise(fs, fs', Free(fs) \cup T)

(* The same table, the same free handles.                                  *)
LEMMA SameFree ==
    ASSUME NEW s, NEW t, SameTable(s, t)
    PROVE  Free(t) = Free(s) /\ Stolen(t) = Stolen(s) /\ \A h : IsOpen(t, h) = IsOpen(s, h)
BY DEF SameTable, Free, Stolen, IsOpen

(* A call that touched only free handles and those of T reaches no further. *)
LEMMA ReachesOn ==
    ASSUME StateTyped, NEW s \in Libs, SameTable(fs, s), SameDev(fs, s), NEW t, NEW T,
           Elsewise(s, t, Free(fs) \cup T), Ends(t, fs')
    PROVE  Reaches(T)
BY DEF Reaches, Elsewise, SameTable, SameDev, Ends, Quiet

(* Of the handles that are free, a step takes at most those of H.          *)
Takes(H) == Free(fs) \subseteq Free(fs') \cup H

(* Subfunction 1B.                                                         *)
LEMMA FindFirstStep ==
    ASSUME Typed, NEW p \in Programs, NEW x \in Searches, NEW luck \in Lucks, FindFirst(p, x, luck)
    PROVE  LET r == FindFirstIn(With(luck), x)
               T == Stolen(fs) IN
           /\ r.s \in Libs /\ Ends(r.s, fs') /\ Reaches(T) /\ host' = host /\ faults' \in 0..MaxFaults
           /\ SameSearch(Search(x), r.rec) /\ r.err \in {"none", "network", "no_more_files", "file_not_found"}
           /\ r.err = "none" => /\ r.rec.handle \in HandleSet /\ r.rec.handle \in Free(fs) \cup T
                                /\ fs'.table[r.rec.handle].open /\ r.ent \in Names \cup {"junk"}
                                /\ ~Troubled(luck) => /\ fs'.dev[r.rec.handle].kind = "dir"
                                                      /\ fs'.dev[r.rec.handle].obj = x.dir
           /\ r.err # "none" => r.rec.handle = NoHandle
           /\ Takes(IF r.err = "none" THEN {r.rec.handle} ELSE {})
<1> DEFINE s == With(luck)
           c == Cleared(s)
           r == FindFirstIn(s, x)
           h == Lowest(Free(c))
           T == Stolen(fs)
<1>1. StateTyped /\ x \in Requests /\ host \in 0..Total /\ fs \in Libs /\ Quiet(fs)
  BY RedirectorAssumption DEF Typed, StateTyped, Requests, All
<1>2. s \in Libs /\ (~Troubled(luck) => s.fuse = 0) /\ SameTable(fs, s) /\ SameDev(fs, s)
  BY <1>1, WithTyped
<1> HIDE DEF s
<1>3. c \in Libs /\ (s.fuse = 0 => c.fuse = 0) /\ Elsewise(s, c, Stolen(s)) /\ Free(c) = Free(s) \cup Stolen(s)
  BY <1>2, ClearedTyped
<1>4. Free(s) = Free(fs) /\ Stolen(s) = T
  BY <1>2, SameFree
<1>5. Starts(c, r, Search(x), h)
  BY <1>1, <1>2, FindFirstTyped
<1> HIDE DEF c, h, r, T
<1>6. Return(r.s, luck, Replied("find", r.err, 0, 0))
  BY DEF FindFirst, SearchDone, r, s
<1>7. r.s \in Libs /\ Elsewise(c, r.s, Free(c))
  BY <1>5 DEF Starts, Within
<1>8. Ends(r.s, fs') /\ host' = host /\ faults' \in 0..MaxFaults
  BY <1>1, <1>6, <1>7, ReturnTyped
<1>9. Elsewise(s, r.s, Free(fs) \cup T)
  BY <1>3, <1>4, <1>7 DEF Elsewise
<1>10. Reaches(T)
  BY <1>1, <1>2, <1>8, <1>9, ReachesOn
<1>11. Search(x).dir = x.dir
  BY <1>1, SearchTyped
<1>12. /\ SameSearch(Search(x), r.rec) /\ r.err \in {"none", "network", "no_more_files", "file_not_found"}
       /\ r.err = "none" => /\ r.rec.handle \in HandleSet /\ r.rec.handle \in Free(fs) \cup T
                            /\ fs'.table[r.rec.handle].open /\ r.ent \in Names \cup {"junk"}
                            /\ ~Troubled(luck) => /\ fs'.dev[r.rec.handle].kind = "dir"
                                                  /\ fs'.dev[r.rec.handle].obj = x.dir
       /\ r.err # "none" => r.rec.handle = NoHandle
  <2>1. fs'.table = r.s.table /\ fs'.dev = r.s.dev
    BY <1>8 DEF Ends, SameTable, SameDev
  <2> HIDE DEF Troubled
  <2> QED
    BY <1>2, <1>3, <1>4, <1>5, <1>11, <2>1 DEF Starts
<1>13. Takes(IF r.err = "none" THEN {r.rec.handle} ELSE {})
  <2>1. Free(fs') = Free(r.s) /\ Free(fs) \subseteq Free(c)
    BY <1>3, <1>4, <1>8 DEF Ends, SameTable, Free
  <2>2. CASE r.err = "none"
    <3>1. r.rec.handle = h /\ Elsewise(c, r.s, {h})
      BY <1>5, <2>2 DEF Starts
    <3> QED
      BY <2>1, <2>2, <3>1 DEF Elsewise, Free, Takes
  <2>3. CASE r.err # "none"
    BY <1>5, <2>1, <2>3 DEF Starts, Takes
  <2> QED
    BY <2>2, <2>3
<1> QED
  BY <1>7, <1>8, <1>10, <1>12, <1>13 DEF r, s, T

(* Subfunction 1C.                                                         *)
LEMMA FindNextStep ==
    ASSUME Typed, NEW p \in Programs, NEW luck \in Lucks, FindNext(p, luck)
    PROVE  LET r == FindNextIn(With(luck), dta[p])
               h == dta[p].handle IN
           /\ r.s \in Libs /\ Ends(r.s, fs') /\ Reaches({h}) /\ host' = host /\ faults' \in 0..MaxFaults
           /\ h \in HandleSet /\ SameSearch(dta[p], r.rec) /\ r.err \in {"none", "no_more_files"}
           /\ r.err = "none" => /\ r.rec.handle = h /\ SameStream(fs.dev[h], fs'.dev[h])
                                /\ fs'.table[h].open = fs.table[h].open /\ r.ent \in Names \cup {"junk"}
           /\ r.err # "none" => r.rec.handle = NoHandle /\ h \in Free(fs')
           /\ Takes({})
<1> DEFINE s == With(luck)
           rec == dta[p]
           h == rec.handle
           r == FindNextIn(s, rec)
<1>1. StateTyped /\ fs \in Libs /\ rec \in Records /\ h \in HandleSet
  BY DEF Typed, StateTyped, FindNext
<1>2. s \in Libs /\ SameTable(fs, s) /\ SameDev(fs, s)
  BY <1>1, WithTyped
<1>3. Return(r.s, luck, Replied("find", r.err, 0, 0))
  BY DEF FindNext, SearchDone
<1> HIDE DEF s, rec
<1>4. Goes(s, r, rec, h)
  BY <1>1, <1>2, FindNextTyped
<1> HIDE DEF r, h
<1>5. r.s \in Libs /\ Elsewise(s, r.s, {h})
  BY <1>4 DEF Goes
<1>6. Ends(r.s, fs') /\ host' = host /\ faults' \in 0..MaxFaults
  BY <1>1, <1>3, <1>5, ReturnTyped
<1>7. Elsewise(s, r.s, Free(fs) \cup {h})
  BY <1>5 DEF Elsewise
<1>8. Reaches({h})
  BY <1>1, <1>2, <1>6, <1>7, ReachesOn
<1>9. /\ SameSearch(rec, r.rec) /\ r.err \in {"none", "no_more_files"}
      /\ r.err = "none" => /\ r.rec.handle = h /\ SameStream(fs.dev[h], fs'.dev[h])
                           /\ fs'.table[h].open = fs.table[h].open /\ r.ent \in Names \cup {"junk"}
      /\ r.err # "none" => r.rec.handle = NoHandle /\ h \in Free(fs')
  <2>1. fs'.table = r.s.table /\ fs'.dev = r.s.dev /\ s.table = fs.table /\ s.dev = fs.dev
    BY <1>2, <1>6 DEF Ends, SameTable, SameDev
  <2> QED
    BY <1>1, <1>4, <2>1 DEF Goes, Free, h
<1>10. Takes({})
  <2>1. \A x \in HandleSet \ {h} : fs'.table[x] = fs.table[x]
    BY <1>2, <1>5, <1>6 DEF Elsewise, Ends, SameTable
  <2>2. fs'.table[h].open = fs.table[h].open \/ h \in Free(fs')
    BY <1>9
  <2> QED
    BY <2>1, <2>2 DEF Takes, Free
<1> QED
  BY <1>1, <1>5, <1>6, <1>8, <1>9, <1>10 DEF r, s, rec, h

(* The wildcard operations leave a handle of their own in DOS's record, or *)
(* none.                                                                   *)
LEMMA WildcardStep ==
    ASSUME Typed, NEW fn, NEW r, NEW luck \in Lucks, WildcardDone(fn, r, luck),
           Within(Cleared(With(luck)), r.s), r.rec.handle \in Free(Cleared(With(luck))) \cup {NoHandle},
           r.err = "access_denied" \/ Free(r.s) = Free(Cleared(With(luck)))
    PROVE  /\ Ends(r.s, fs') /\ Reaches(Stolen(fs)) /\ host' = host /\ faults' \in 0..MaxFaults
           /\ sda' \in HandleSet \cup {NoHandle}
           /\ sloppy' = {} => Takes({})
<1> DEFINE s == With(luck)
           c == Cleared(s)
           T == Stolen(fs)
<1>1. StateTyped /\ fs \in Libs
  BY DEF Typed, StateTyped
<1>2. s \in Libs /\ SameTable(fs, s) /\ SameDev(fs, s)
  BY <1>1, WithTyped
<1> HIDE DEF s
<1>3. c \in Libs /\ (s.fuse = 0 => c.fuse = 0) /\ Elsewise(s, c, Stolen(s)) /\ Free(c) = Free(s) \cup Stolen(s)
  BY <1>2, ClearedTyped
<1>4. Free(s) = Free(fs) /\ Stolen(s) = T
  BY <1>2, SameFree
<1>5. /\ Within(c, r.s) /\ r.rec.handle \in Free(c) \cup {NoHandle}
      /\ r.err = "access_denied" \/ Free(r.s) = Free(c)
  BY DEF s
<1> HIDE DEF c, T
<1>6. Return(r.s, luck, Replied(fn, r.err, 0, 0)) /\ sda' = r.rec.handle
  BY DEF WildcardDone
<1>7. r.s \in Libs /\ Elsewise(c, r.s, Free(c))
  BY <1>5 DEF Within
<1>8. Ends(r.s, fs') /\ host' = host /\ faults' \in 0..MaxFaults
  BY <1>1, <1>6, <1>7, ReturnTyped
<1>9. Elsewise(s, r.s, Free(fs) \cup T)
  BY <1>3, <1>4, <1>7 DEF Elsewise
<1>10. Reaches(T)
  BY <1>1, <1>2, <1>8, <1>9, ReachesOn
<1>11. sda' \in HandleSet \cup {NoHandle}
  BY <1>5, <1>6 DEF Free
<1>12. ASSUME sloppy' = {} PROVE Takes({})
  <2>1. r.err # "access_denied"
    BY <1>12 DEF WildcardDone
  <2> QED
    BY <1>3, <1>4, <1>5, <1>8, <2>1 DEF Ends, SameTable, Free, Takes
<1> QED
  BY <1>8, <1>10, <1>11, <1>12 DEF T

(* Subfunction 13.                                                         *)
LEMMA DeleteStep ==
    ASSUME Typed, host # 0, NEW x \in Searches, NEW luck \in Lucks, DeleteFiles(x, luck)
    PROVE  LET r == Deletion(With(luck), x) IN
           /\ Ends(r.s, fs') /\ Reaches(Stolen(fs)) /\ host' = host /\ faults' \in 0..MaxFaults
           /\ sda' \in HandleSet \cup {NoHandle}
           /\ sloppy' = {} => Takes({})
<1> DEFINE s == With(luck)
           r == Deletion(s, x)
<1>1. StateTyped /\ x \in Requests /\ host \in HandleSet
  BY RedirectorAssumption, FujiFsAssumption DEF Typed, StateTyped, Requests, All, HandleSet
<1>2. s \in Libs
  BY <1>1, WithTyped
<1>3. WildcardDone("delete", r, luck)
  BY DEF DeleteFiles
<1>4. /\ Within(Cleared(s), r.s) /\ r.rec.handle \in Free(Cleared(s)) \cup {NoHandle}
      /\ r.err = "access_denied" \/ Free(r.s) = Free(Cleared(s))
  <2> HIDE DEF s
  <2> QED
    BY <1>1, <1>2, DeletionTyped
<1> HIDE DEF r
<1> QED
  BY <1>3, <1>4, WildcardStep DEF r

(* Subfunction 11.                                                         *)
LEMMA RenameStep ==
    ASSUME Typed, NEW x \in Searches, NEW luck \in Lucks, RenameFiles(x, luck)
    PROVE  LET r == Renaming(FindFirstIn(With(luck), [x EXCEPT !.dirs = FALSE])) IN
           /\ Ends(r.s, fs') /\ Reaches(Stolen(fs)) /\ host' = host /\ faults' \in 0..MaxFaults
           /\ sda' \in HandleSet \cup {NoHandle}
           /\ sloppy' = {} => Takes({})
<1> DEFINE s == With(luck)
           y == [x EXCEPT !.dirs = FALSE]
           a == FindFirstIn(s, y)
           r == Renaming(a)
           c == Cleared(s)
<1>1. StateTyped /\ x \in Requests /\ host \in 0..Total
  BY RedirectorAssumption, FujiFsAssumption DEF Typed, StateTyped, Requests, All, HandleSet
<1>2. s \in Libs /\ y \in Requests
  BY <1>1, WithTyped, SearchTyped
<1>3. WildcardDone("rename", r, luck)
  BY DEF RenameFiles
<1>4. r.s = a.s /\ r.rec = a.rec /\ (r.err = "access_denied" \/ a.err # "none")
  <2>1. a = [s |-> a.s, rec |-> a.rec, err |-> a.err, ent |-> a.ent]
    <3> DEFINE q == FindNextIn(c, Search(y))
               v == IF q.err = "no_more_files" THEN "file_not_found" ELSE q.err
    <3>1. q = Found(q.s, q.rec, q.err, q.ent)
      <4> DEFINE rec == Search(y)
      <4> HIDE DEF c, rec
      <4> QED
        BY DEF FindNextIn, FindOn, Stopped, Found
    <3>2. a = [q EXCEPT !.err = v]
      BY DEF FindFirstIn, Cleared
    <3> HIDE DEF q, a
    <3> QED
      BY <3>1, <3>2 DEF Found
  <2> HIDE DEF a
  <2> QED
    BY <2>1 DEF Renaming, Rename, Failing
<1>5. Starts(c, a, Search(y), Lowest(Free(c)))
  <2> HIDE DEF s, y
  <2> QED
    BY <1>1, <1>2, FindFirstTyped
<1> HIDE DEF r, a, c
<1>6. /\ Within(c, r.s) /\ r.rec.handle \in Free(c) \cup {NoHandle}
      /\ r.err = "access_denied" \/ Free(r.s) = Free(c)
  BY <1>4, <1>5 DEF Starts
<1> QED
  BY <1>3, <1>6, WildcardStep DEF r, c, a


(* What a call of the redirector leaves of the library and of the handles. *)
Effect(T) ==
    /\ fs' \in Libs /\ Quiet(fs') /\ Reaches(T)
    /\ host' = host /\ faults' \in 0..MaxFaults

(* The end of a call after what it did to the library.                     *)
LEMMA ReturnStep ==
    ASSUME Typed, NEW luck \in Lucks, NEW s \in Libs, NEW reply, Return(s, luck, reply), NEW T,
           Elsewise(With(luck), s, Free(fs) \cup T)
    PROVE  Effect(T) /\ Ends(s, fs')
<1>1. StateTyped
  BY DEF Typed
<1>2. Ends(s, fs') /\ host' = host /\ faults' \in 0..MaxFaults
  BY <1>1, ReturnTyped
<1> DEFINE w == With(luck)
<1>3. w \in Libs /\ SameTable(fs, w) /\ SameDev(fs, w)
  BY <1>1, WithTyped
<1>4. Elsewise(w, s, Free(fs) \cup T)
  OBVIOUS
<1> HIDE DEF w
<1>5. Reaches(T)
  BY <1>1, <1>2, <1>3, <1>4, ReachesOn
<1> QED
  BY <1>2, <1>5 DEF Effect, Ends

(* fujifs_stat at the start of a call.                                     *)
LEMMA LookedUp ==
    ASSUME Typed, NEW luck \in Lucks, NEW n \in Names
    PROVE  LET w == With(luck)
               s == Stat(w, host, n) IN
           /\ w \in Libs /\ Borrowed(w, s) /\ s \in Libs /\ Elsewise(w, s, Free(fs))
           /\ Free(s) = Free(fs) /\ SameShare(fs, s)
           /\ ~Troubled(luck) => w.fuse = 0 /\ s.fuse = 0
           /\ BufSize >= 2 /\ ~Troubled(luck) /\ n \in fs.exist /\ Exists(fs, Parent[n]) /\ Free(fs) # {} =>
                 s.err = "none"
<1> DEFINE w == With(luck)
           s == Stat(w, host, n)
<1>1. StateTyped /\ host \in 0..Total
  BY DEF Typed, StateTyped
<1>2. w \in Libs /\ (~Troubled(luck) => w.fuse = 0) /\ SameTable(fs, w) /\ SameDev(fs, w) /\ SameShare(fs, w)
  BY <1>1, WithTyped
<1>3. Free(w) = Free(fs)
  BY <1>2, SameFree
<1> HIDE DEF w
<1>4. /\ Borrowed(w, s)
      /\ BufSize >= 2 /\ w.fuse = 0 /\ n \in w.exist /\ Exists(w, Parent[n]) /\ Free(w) # {} => s.err = "none"
  BY <1>1, <1>2, StatTyped
<1> HIDE DEF s
<1>5. w.exist = fs.exist /\ (Exists(fs, Parent[n]) <=> Exists(w, Parent[n]))
  BY <1>2 DEF SameShare, Exists
<1>6. s \in Libs /\ Elsewise(w, s, Free(fs)) /\ Free(s) = Free(fs) /\ SameShare(fs, s)
  BY <1>2, <1>3, <1>4 DEF Borrowed, Within, SameShare
<1>7. w.fuse = 0 => s.fuse = 0
  BY <1>6 DEF Elsewise
<1> HIDE DEF Troubled
<1> QED
  BY <1>2, <1>3, <1>4, <1>5, <1>6, <1>7 DEF s, w

(* A path operation after it.                                              *)
LEMMA OperatedOn ==
    ASSUME NEW w \in Libs, NEW s \in Libs, NEW H, Elsewise(w, s, H), NEW h \in HandleSet, NEW op, NEW n
    PROVE  /\ PathOperation(s, h, op, n) \in Libs /\ Elsewise(w, PathOperation(s, h, op, n), H)
           /\ Free(PathOperation(s, h, op, n)) = Free(s)
<1> DEFINE t == PathOperation(s, h, op, n)
<1>1. t \in Libs /\ SameTable(s, t) /\ SameDev(s, t) /\ (s.fuse = 0 => t.fuse = 0)
  BY PathOperationTyped
<1> HIDE DEF t
<1>2. Elsewise(w, t, H) /\ Free(t) = Free(s)
  BY <1>1 DEF Elsewise, SameTable, SameDev, Free
<1> QED
  BY <1>1, <1>2 DEF t

(* A call on a path touches only free handles.                             *)
LEMMA PathCallStep ==
    ASSUME Typed, NEW luck \in Lucks, NEW s \in Libs, NEW err, PathCall(s, luck, err),
           Elsewise(With(luck), s, Free(fs)), Free(s) = Free(fs)
    PROVE  Effect({}) /\ Takes({})
<1>1. Return(s, luck, Replied("path", err, 0, 0))
  BY DEF PathCall
<1>2. Elsewise(With(luck), s, Free(fs) \cup {})
  BY DEF Elsewise
<1>3. Effect({}) /\ Ends(s, fs')
  BY <1>1, <1>2, ReturnStep
<1>4. Takes({})
  BY <1>3 DEF Takes, Free, Ends, SameTable
<1> QED
  BY <1>3, <1>4

(* Subfunction 01.                                                         *)
LEMMA RemoveDirStep ==
    ASSUME Typed, host # 0, NEW n \in Names, NEW stray \in BOOLEAN, NEW luck \in Lucks, RemoveDir(n, stray, luck)
    PROVE  Effect({}) /\ Takes({})
<1> DEFINE w == With(luck)
           s == Stat(w, host, n)
           t == PathOperation(s, host, "rmdir", n)
<1>1. w \in Libs /\ s \in Libs /\ Elsewise(w, s, Free(fs)) /\ Free(s) = Free(fs)
  BY LookedUp
<1>2. host \in HandleSet
  BY FujiFsAssumption DEF Typed, StateTyped, HandleSet
<1>3. RemoveKnowing(n, stray, luck, s)
  BY DEF RemoveDir
<1> HIDE DEF s
<1>4. t \in Libs /\ Elsewise(w, t, Free(fs)) /\ Free(t) = Free(fs)
  <2> HIDE DEF w, t
  <2> QED
    BY <1>1, <1>2, OperatedOn DEF t
<1>5. CASE \E err : PathCall(s, luck, err)
  BY <1>1, <1>5, PathCallStep
<1>6. CASE \E err : PathCall(t, luck, err)
  BY <1>4, <1>6, PathCallStep
<1>7. (\E err : PathCall(s, luck, err)) \/ (\E err : PathCall(t, luck, err))
  <2> HIDE DEF t, w
  <2>1. CASE s.err # "none"
    BY <1>3, <2>1 DEF RemoveKnowing
  <2>2. CASE s.err = "none" /\ ~stray
    BY <1>3, <2>2 DEF RemoveKnowing
  <2>3. CASE s.err = "none" /\ stray
    BY <1>3, <2>3 DEF RemoveKnowing, Operation, t
  <2> QED
    BY <2>1, <2>2, <2>3
<1> QED
  BY <1>5, <1>6, <1>7

(* Subfunction 03.                                                         *)
LEMMA MakeDirStep ==
    ASSUME Typed, host # 0, NEW n \in Names, NEW luck \in Lucks, MakeDir(n, luck)
    PROVE  Effect({}) /\ Takes({})
<1> DEFINE w == With(luck)
           s == Stat(w, host, n)
           t == PathOperation(s, host, "mkdir", n)
<1>1. w \in Libs /\ s \in Libs /\ Elsewise(w, s, Free(fs)) /\ Free(s) = Free(fs)
  BY LookedUp
<1>2. host \in HandleSet
  BY FujiFsAssumption DEF Typed, StateTyped, HandleSet
<1>3. MakeKnowing(n, luck, s)
  BY DEF MakeDir
<1> HIDE DEF s
<1>4. t \in Libs /\ Elsewise(w, t, Free(fs)) /\ Free(t) = Free(fs)
  <2> HIDE DEF w, t
  <2> QED
    BY <1>1, <1>2, OperatedOn DEF t
<1>5. CASE \E err : PathCall(s, luck, err)
  BY <1>1, <1>5, PathCallStep
<1>6. CASE \E err : PathCall(t, luck, err)
  BY <1>4, <1>6, PathCallStep
<1>7. (\E err : PathCall(s, luck, err)) \/ (\E err : PathCall(t, luck, err))
  <2> HIDE DEF t, w
  <2> QED
    BY <1>3 DEF MakeKnowing, Operation, t
<1> QED
  BY <1>5, <1>6, <1>7

(* Subfunctions 05, 0E and 0F.                                             *)
LEMMA AttributesStep ==
    ASSUME Typed, NEW fn, NEW n \in Names, NEW luck \in Lucks, Attributes(fn, n, luck)
    PROVE  Effect({}) /\ Takes({})
<1> DEFINE w == With(luck)
           s == Stat(w, host, n)
<1>1. w \in Libs /\ s \in Libs /\ Elsewise(w, s, Free(fs)) /\ Free(s) = Free(fs)
  BY LookedUp
<1>2. Lookup(fn, n, luck, s)
  BY DEF Attributes
<1> HIDE DEF s
<1>3. PICK err : PathCall(s, luck, err)
  BY <1>2 DEF Lookup
<1> QED
  BY <1>1, <1>3, PathCallStep

(* close_file reaches at most its own handle, and only for writing.        *)
Given(e) == IF e.mode # "read" /\ IsOpen(fs, e.handle) THEN {e.handle} ELSE {}

(* Subfunction 06.                                                         *)
LEMMA CloseStep ==
    ASSUME Typed, NEW f \in Files, NEW luck \in Lucks, CloseFile(f, luck)
    PROVE  /\ Effect(Given(sft[f]))
           /\ sloppy' = {} => Takes({}) /\ (sft[f].handle \in HandleSet => sft[f].handle \in Free(fs'))
<1> DEFINE w == With(luck)
           e == sft[f]
           c == Close(w, e.handle)
           T == Given(e)
<1>1. w \in Libs /\ SameTable(fs, w)
  BY WithTyped DEF Typed
<1>2. CASE e.mode = "read"
  <2>1. PICK reply : Return(w, luck, reply)
    BY <1>2 DEF CloseFile, Closing
  <2>2. Elsewise(w, w, Free(fs) \cup T)
    BY DEF Elsewise
  <2>3. sloppy' # {}
    BY <1>2 DEF CloseFile, Closing
  <2> QED
    BY <1>1, <2>1, <2>2, <2>3, ReturnStep
<1>3. CASE e.mode # "read"
  <2>1. PICK reply : Return(c, luck, reply)
    BY <1>3 DEF CloseFile, Closing
  <2>2. c \in Libs /\ Elsewise(w, c, Free(fs) \cup T)
        /\ Free(fs) \subseteq Free(c) /\ (e.handle \in HandleSet => e.handle \in Free(c))
    <3>1. IsOpen(fs, e.handle) <=> IsOpen(w, e.handle)
      BY <1>1, SameFree
    <3> HIDE DEF w
    <3>2. c \in Libs
      BY <1>1, CloseTyped
    <3>3. CASE IsOpen(w, e.handle)
      <4>1. T = {e.handle}
        BY <1>3, <3>1, <3>3 DEF Given
      <4>2. Elsewise(w, c, {e.handle}) /\ ~c.table[e.handle].open
        BY <1>1, <3>3, CloseTyped
      <4> HIDE DEF c, T, e
      <4>3. Free(fs) \subseteq Free(c) /\ (e.handle \in HandleSet => e.handle \in Free(c))
        BY <1>1, <4>2 DEF Elsewise, SameTable, Free
      <4> QED
        BY <3>2, <4>1, <4>2, <4>3 DEF Elsewise
    <3>4. CASE ~IsOpen(w, e.handle)
      <4>1. SameTable(w, c) /\ SameDev(w, c) /\ (w.fuse = 0 => c.fuse = 0)
        BY <1>1, <3>4, CloseTyped DEF Untouched
      <4> HIDE DEF c, T, e
      <4>2. Free(fs) \subseteq Free(c) /\ (e.handle \in HandleSet => e.handle \in Free(c))
        BY <1>1, <3>4, <4>1 DEF SameTable, Free, IsOpen
      <4> QED
        BY <3>2, <4>1, <4>2 DEF Elsewise, SameTable, SameDev
    <3> QED
      BY <3>3, <3>4
  <2> HIDE DEF c
  <2>3. Effect(T) /\ Ends(c, fs')
    BY <2>1, <2>2, ReturnStep
  <2>4. Free(fs') = Free(c)
    BY <2>3 DEF Ends, SameTable, Free
  <2> QED
    BY <2>2, <2>3, <2>4 DEF Takes
<1> QED
  BY <1>2, <1>3


-----------------------------------------------------------------------------
(* Calls on files.                                                         *)

(* What opening a file leaves, if it succeeds.                             *)
Opens(f, n, luck) ==
    \E h \in Free(fs), size \in Nat, mode \in Modes :
        /\ sft' = [sft EXCEPT ![f] = [count |-> 1, handle |-> h, pos |-> 0, last |-> 0, size |-> size, mode |-> mode]]
        /\ fileOf' = [fileOf EXCEPT ![f] = n] /\ lost' = lost \ {f}
        /\ slipped' = (IF Troubled(luck) THEN slipped \cup {f} ELSE slipped \ {f})
        /\ fs'.table[h].open /\ Takes({h})
        /\ ~Troubled(luck) => /\ fs'.dev[h].at = 0
                              /\ mode = "read" => fs'.dev[h].kind = "file" /\ fs'.dev[h].obj = n

(* A file opened on a library s that has looked the name up.               *)
LEMMA OpenReturnsStep ==
    ASSUME Typed, NEW f \in Files, NEW n \in Names, NEW how, NEW luck \in Lucks,
           NEW mode \in Modes \ {"invalid"}, NEW size \in Nat,
           NEW s \in Libs, Elsewise(With(luck), s, Free(fs)), Free(s) = Free(fs),
           ~Troubled(luck) => s.fuse = 0,
           OpenReturns(f, n, how, mode, luck, size, Open(s, host, n, mode, TRUE))
    PROVE  /\ Effect({}) /\ Ends(Open(s, host, n, mode, TRUE), fs')
           /\ Opens(f, n, luck) \/ (Takes({}) /\ UNCHANGED <<sft, fileOf, lost, slipped>>)
<1>0. PICK fq \in BOOLEAN : fq = TRUE
  OBVIOUS
<1> DEFINE t == Open(s, host, n, mode, fq)
           h == Lowest(Free(s))
           w == With(luck)
           new == IF how \in {"create", "create_new"} THEN "readwrite" ELSE mode
<1>1. Openable(n, mode) /\ host \in 0..Total
  BY DEF Openable, Objects, Modes, Typed, StateTyped
<1>2. /\ h = 0 => t \in Libs /\ t.err = "no_device" /\ t.h = 0 /\ Untouched(s, t) /\ t.fuse = s.fuse
      /\ h # 0 => h \in Free(s) /\ OpenedAt(s, t, h, n, mode)
      /\ fq => t.err # "service"
  BY <1>1, OpenTyped
<1>3. h \in {0} \cup Free(s)
  BY LowestIs
<1>4. OpenReturns(f, n, how, mode, luck, size, t)
  BY <1>0
<1>5. Return(t, luck, Replied(how, IF t.err = "none" THEN "none" ELSE "network", 0, 0))
  <2> HIDE DEF t
  <2> QED
    BY <1>4 DEF OpenReturns, Opened
<1>6. /\ t.err # "none" => UNCHANGED <<sft, fileOf, lost, slipped>>
      /\ t.err = "none" =>
            /\ sft' = [sft EXCEPT ![f] = [count |-> 1, handle |-> t.h, pos |-> 0, last |-> 0, size |-> size, mode |-> new]]
            /\ fileOf' = [fileOf EXCEPT ![f] = n] /\ lost' = lost \ {f}
            /\ slipped' = (IF Troubled(luck) THEN slipped \cup {f} ELSE slipped \ {f})
  <2> HIDE DEF t
  <2> QED
    BY <1>4 DEF OpenReturns, Opened
<1>7. t \in Libs /\ Elsewise(w, t, Free(fs) \cup {})
  <2>1. Elsewise(w, s, Free(fs))
    OBVIOUS
  <2> HIDE DEF t, w
  <2>2. CASE h = 0
    BY <1>2, <2>1, <2>2 DEF Elsewise, Untouched, SameTable, SameDev
  <2>3. CASE h # 0
    <3>1. h \in Free(fs) /\ t \in Libs /\ Elsewise(s, t, {h})
      BY <1>2, <2>3 DEF OpenedAt
    <3> HIDE DEF h
    <3> QED
      BY <2>1, <3>1 DEF Elsewise
  <2> QED
    BY <2>2, <2>3
<1> HIDE DEF t
<1>8. Effect({}) /\ Ends(t, fs')
  BY <1>5, <1>7, ReturnStep DEF w
<1>10. Free(fs') = Free(t)
  BY <1>8 DEF Ends, SameTable, Free
<1>11. ASSUME t.err # "none" PROVE Takes({})
  <2>1. CASE h = 0
    BY <1>2, <1>10, <2>1 DEF Untouched, SameTable, Free, Takes
  <2>2. CASE h # 0
    <3>1. Elsewise(s, t, {h}) /\ ~t.table[h].open
      BY <1>0, <1>2, <1>11, <2>2 DEF OpenedAt
    <3> HIDE DEF h
    <3> QED
      BY <1>10, <3>1 DEF Elsewise, Free, Takes
  <2> QED
    BY <2>1, <2>2
<1>9. ASSUME t.err = "none" PROVE Opens(f, n, luck)
  <2>1. h # 0 /\ h \in Free(fs) /\ OpenedAt(s, t, h, n, mode) /\ t.err # "service"
    BY <1>0, <1>2, <1>3, <1>9
  <2>2. t.h = h /\ t.table[h].open /\ Elsewise(s, t, {h})
    BY <1>9, <2>1 DEF OpenedAt
  <2>6. Takes({h})
    <3> HIDE DEF h
    <3> QED
      BY <1>10, <2>2 DEF Elsewise, Free, Takes
  <2>3. fs'.table = t.table /\ fs'.dev = t.dev
    BY <1>8 DEF Ends, SameTable, SameDev
  <2>4. new \in Modes /\ (new = "read" => mode # "write" /\ mode # "dir")
    BY DEF Modes
  <2>5. ASSUME ~Troubled(luck)
        PROVE  t.dev[h].at = 0 /\ (new = "read" => t.dev[h].kind = "file" /\ t.dev[h].obj = n)
    <3> DEFINE m == Made(s, n, mode)
    <3>1. t.dev[h] = StreamOf(m, n, mode) /\ (mode # "write" => Exists(s, n))
      BY <1>9, <2>1, <2>5 DEF OpenedAt
    <3>2. m \in Libs /\ (mode # "write" => m = s)
      BY <1>1, MadeTyped DEF Made
    <3> HIDE DEF m
    <3>3. StreamOf(m, n, mode).at = 0
      <4>1. mode # "dir"
        BY DEF Modes
      <4>2. CASE Exists(m, n)
        BY <1>1, <3>2, <4>1, <4>2, StreamTyped
      <4>3. CASE ~Exists(m, n)
        BY <1>1, <3>2, <4>3, StreamTyped DEF Closed
      <4> QED
        BY <4>2, <4>3
    <3>4. ASSUME new = "read" PROVE StreamOf(m, n, mode).kind = "file" /\ StreamOf(m, n, mode).obj = n
      <4>1. mode # "write" /\ mode # "dir" /\ Exists(m, n)
        BY <2>4, <3>1, <3>2, <3>4
      <4> QED
        BY <1>1, <3>2, <4>1, StreamTyped
    <3> QED
      BY <3>1, <3>3, <3>4
  <2> HIDE DEF new, h, Troubled
  <2> QED
    BY <1>6, <1>9, <2>1, <2>2, <2>3, <2>4, <2>5, <2>6 DEF Opens
<1> QED
  BY <1>0, <1>6, <1>8, <1>9, <1>11 DEF t

(* Subfunctions 16, 17 and 2E.                                             *)
LEMMA OpenStep ==
    ASSUME Typed, NEW f \in Files, NEW n \in Names, NEW how \in {"exist", "create", "create_new", "extended"},
           NEW action \in ActionsOf(how), NEW mode \in ModesOf(how), NEW luck \in Lucks,
           OpenExtended(f, n, how, action, mode, luck)
    PROVE  /\ Effect({})
           /\ Opens(f, n, luck) \/ (Takes({}) /\ UNCHANGED <<sft, fileOf, lost, slipped>>)
<1> DEFINE w == With(luck)
           s == Stat(w, host, n)
           refusal == OpenRefusal(s.err = "none", n, action, mode)
           size == IF s.err = "none" /\ "replace" \notin action THEN s.size[n] ELSE 0
<1>1. /\ w \in Libs /\ s \in Libs /\ Elsewise(w, s, Free(fs)) /\ Free(s) = Free(fs)
      /\ ~Troubled(luck) => s.fuse = 0
  BY LookedUp
<1>2. OpenKnowing(f, n, how, action, mode, luck, s, refusal)
  BY DEF OpenExtended, OpenAfter
<1> HIDE DEF s
<1>3. CASE refusal # "none"
  <2> HIDE DEF refusal
  <2>1. PICK err : err = refusal
    OBVIOUS
  <2>2. Opened(f, n, how, luck, s, 0, mode, err) /\ err # "none"
    BY <1>2, <1>3, <2>1 DEF OpenKnowing
  <2>3. Return(s, luck, Replied(how, err, 0, 0)) /\ UNCHANGED <<sft, fileOf, lost, slipped>>
    BY <2>2 DEF Opened
  <2>4. Elsewise(w, s, Free(fs) \cup {})
    BY <1>1 DEF Elsewise
  <2> HIDE DEF w
  <2>5. Effect({}) /\ Ends(s, fs')
    BY <1>1, <2>3, <2>4, ReturnStep DEF w
  <2>6. Takes({})
    BY <1>1, <2>5 DEF Ends, SameTable, Free, Takes
  <2> QED
    BY <2>3, <2>5, <2>6
<1>4. CASE refusal = "none"
  <2>1. OpenReturns(f, n, how, mode, luck, size, Open(s, host, n, mode, TRUE))
    <3> HIDE DEF refusal
    <3> QED
      BY <1>2, <1>4 DEF OpenKnowing
  <2>2. mode \in Modes
    BY DEF ModesOf, Modes
  <2>3. mode # "invalid"
    BY <1>4 DEF OpenRefusal
  <2>4. size \in Nat
    BY <1>1 DEF Libs
  <2> HIDE DEF size, refusal, Troubled
  <2> QED
    BY <1>1, <2>1, <2>2, <2>3, <2>4, OpenReturnsStep
<1> QED
  BY <1>3, <1>4


(* A stream may move, and nothing else of the handles.                     *)
Shifted(w, s, h) ==
    /\ s \in Libs /\ SameTable(w, s) /\ Elsewise(w, s, {h})
    /\ h \in HandleSet => SameStream(w.dev[h], s.dev[h])

(* A call on a file that has done nothing yet.                             *)
LEMMA ShiftedSame ==
    ASSUME NEW w \in Libs, NEW h
    PROVE  Shifted(w, w, h)
BY DEF Shifted, SameTable, Elsewise, SameStream

(* Two parts of a call on a file.                                          *)
LEMMA ShiftedOn ==
    ASSUME NEW w, NEW s, NEW t, NEW h, Shifted(w, s, h), Shifted(s, t, h)
    PROVE  Shifted(w, t, h)
BY DEF Shifted, SameTable, Elsewise, SameStream

(* A part that keeps the stream its own.                                   *)
LEMMA ShiftedBack ==
    ASSUME NEW w, NEW t \in Libs, NEW h, SameTable(w, t), w.fuse = 0 => t.fuse = 0,
           h \in HandleSet => Elsewise(w, t, {h}) /\ SameStream(w.dev[h], t.dev[h]),
           h \notin HandleSet => SameDev(w, t)
    PROVE  Shifted(w, t, h)
BY DEF Shifted, SameTable, Elsewise, SameDev

(* The stream stands where the file table has it, as far as the redirector *)
(* sees to it.                                                             *)
Standing(s, e, position) ==
    e.handle < Total \/ e.mode = "read" =>
        (IsOpen(s, e.handle) /\ s.dev[e.handle].kind = "file" => s.dev[e.handle].at = position)

(* The seek that a move of DOS's makes necessary.                          *)
LEMMA InPlaceTyped ==
    ASSUME NEW w \in Libs, NEW e \in OpenFiles
    PROVE  LET s == InPlace(w, e) IN
           /\ Shifted(w, s, e.handle)
           /\ w.fuse = 0 /\ Standing(w, e, e.last) => Standing(s, e, e.pos)
<1> DEFINE h == e.handle
           k == Seek(w, h, e.pos)
           s == InPlace(w, e)
<1>1. h \in 0..Total /\ e.pos \in Nat
  BY DEF OpenFiles
<1>2. CASE e.pos = e.last
  BY <1>2, ShiftedSame DEF InPlace
<1>3. CASE e.pos # e.last
  <2>1. s = k
    BY <1>3 DEF InPlace
  <2>2. /\ k \in Libs /\ SameTable(w, k)
        /\ h \in HandleSet => Elsewise(w, k, {h}) /\ SameStream(w.dev[h], k.dev[h])
        /\ h \notin HandleSet => SameDev(w, k)
        /\ (w.fuse = 0 => k.fuse = 0)
        /\ w.fuse = 0 /\ IsOpen(w, h) /\ w.dev[h].kind = "file" => k.dev[h].at = e.pos
    BY <1>1, SeekTyped
  <2> HIDE DEF k, h, s
  <2>3. Shifted(w, k, h)
    BY <2>2, ShiftedBack
  <2>4. IsOpen(k, h) <=> IsOpen(w, h)
    BY <2>2 DEF IsOpen, SameTable
  <2>5. IsOpen(w, h) => k.dev[h].kind = w.dev[h].kind
    BY <2>3 DEF Shifted, SameStream, IsOpen
  <2>6. w.fuse = 0 => Standing(k, e, e.pos)
    BY <2>2, <2>4, <2>5 DEF Standing, h
  <2> QED
    BY <2>1, <2>3, <2>6 DEF h, s
<1> QED
  BY <1>2, <1>3

(* A call on an open file: its stream moves with the position noted.       *)
Transfers(f, luck) ==
    LET h == sft[f].handle IN
    \E e \in OpenFiles :
        /\ sft' = [sft EXCEPT ![f] = e]
        /\ e.count = sft[f].count /\ e.mode = sft[f].mode /\ e.handle = h
        /\ slipped' = (IF Troubled(luck) THEN slipped \cup {f} ELSE slipped)
        /\ lost' = lost \cup (Holding(h) \ {f})
        /\ fs'.table = fs.table
        /\ h \in HandleSet => SameStream(fs.dev[h], fs'.dev[h])
        /\ ~Troubled(luck) /\ Standing(fs, e, sft[f].last) => Standing(fs', e, e.last)

(* A call on a file touches its own handle.                                *)
LEMMA FileCallStep ==
    ASSUME Typed, NEW f \in Files, NEW luck \in Lucks, NEW e \in OpenFiles, NEW s \in Libs, NEW reply,
           FileCall(f, e, s, luck, reply), Shifted(With(luck), s, sft[f].handle),
           e.count = sft[f].count, e.mode = sft[f].mode, e.handle = sft[f].handle,
           ~Troubled(luck) /\ Standing(With(luck), e, sft[f].last) => Standing(s, e, e.last)
    PROVE  Effect({sft[f].handle}) /\ Transfers(f, luck)
<1> DEFINE w == With(luck)
           h == sft[f].handle
<1>1. w \in Libs /\ SameTable(fs, w) /\ SameDev(fs, w)
  BY WithTyped DEF Typed
<1>2. Return(s, luck, reply)
  BY DEF FileCall
<1>3. Elsewise(w, s, Free(fs) \cup {h})
  BY DEF Shifted, Elsewise
<1>4. Effect({h}) /\ Ends(s, fs')
  BY <1>2, <1>3, ReturnStep
<1>5. Shifted(w, s, h) /\ (~Troubled(luck) /\ Standing(w, e, sft[f].last) => Standing(s, e, e.last))
  OBVIOUS
<1>6. /\ sft' = [sft EXCEPT ![f] = e]
      /\ slipped' = (IF Troubled(luck) THEN slipped \cup {f} ELSE slipped)
      /\ lost' = lost \cup (Holding(h) \ {f})
  BY DEF FileCall
<1> HIDE DEF w
<1>7. fs'.table = fs.table /\ (h \in HandleSet => SameStream(fs.dev[h], fs'.dev[h]))
  BY <1>1, <1>4, <1>5 DEF Ends, SameTable, SameDev, Shifted
<1>8. Standing(fs, e, sft[f].last) <=> Standing(w, e, sft[f].last)
  BY <1>1 DEF Standing, SameTable, SameDev, IsOpen
<1>9. Standing(fs', e, e.last) <=> Standing(s, e, e.last)
  BY <1>4 DEF Standing, SameTable, SameDev, IsOpen, Ends
<1> HIDE DEF h
<1>10. e.count = sft[f].count /\ e.mode = sft[f].mode /\ e.handle = h
  BY DEF h
<1>11. ~Troubled(luck) /\ Standing(fs, e, sft[f].last) => Standing(fs', e, e.last)
  BY <1>5, <1>8, <1>9
<1> HIDE DEF Troubled
<1>12. Transfers(f, luck)
  BY <1>6, <1>7, <1>10, <1>11 DEF Transfers, h
<1> QED
  BY <1>4, <1>12 DEF h

(* The count of read_file is no more than asked for, unless the file       *)
(* stands behind its end.                                                  *)
LEMMA CountFits ==
    ASSUME NEW e \in OpenFiles, NEW want \in Nat
    PROVE  CountToRead(e, want) \in Nat /\ (e.pos <= e.size => CountToRead(e, want) <= want)
<1> DEFINE p == e.pos
           z == e.size
           r == (z - p) % 65536
<1>1. p \in Nat /\ z \in Nat
  BY DEF OpenFiles
<1>2. CountToRead(e, want) = IF p + want > z THEN r ELSE want
  BY DEF CountToRead
<1> HIDE DEF p, z
<1>3. r \in Nat /\ (p <= z => r <= z - p)
  BY <1>1, SMT
<1> HIDE DEF r
<1>4. p <= z /\ p + want > z => r <= want
  BY <1>1, <1>3, SMT
<1> QED
  BY <1>2, <1>3, <1>4 DEF p, z

(* The positions move together; the size is only brought up to them.       *)
LEMMA AdvancedTyped ==
    ASSUME NEW e \in OpenFiles, NEW n \in Nat
    PROVE  LET d == Advanced(e, n) IN
           /\ d \in OpenFiles /\ d.count = e.count /\ d.mode = e.mode /\ d.handle = e.handle
           /\ d.last = e.pos + n
<1> DEFINE q == e.pos + n
           a == [e EXCEPT !.pos = q]
           d == [a EXCEPT !.last = q]
<1>1. q \in Nat
  BY DEF OpenFiles
<1>2. Advanced(e, n) = d
  BY DEF Advanced
<1> HIDE DEF q
<1>3. a \in OpenFiles /\ a.count = e.count /\ a.mode = e.mode /\ a.handle = e.handle
  BY <1>1 DEF OpenFiles
<1> HIDE DEF a
<1>4. d \in OpenFiles /\ d.count = e.count /\ d.mode = e.mode /\ d.handle = e.handle /\ d.last = q
  BY <1>1, <1>3 DEF OpenFiles
<1> QED
  BY <1>2, <1>4 DEF q

(* A write past the end of the file.                                       *)
LEMMA GrownTyped ==
    ASSUME NEW e \in OpenFiles
    PROVE  LET d == Grown(e) IN
           /\ d \in OpenFiles /\ d.count = e.count /\ d.mode = e.mode /\ d.handle = e.handle /\ d.last = e.last
<1> DEFINE z == IF e.pos > e.size THEN e.pos ELSE e.size
<1>1. z \in Nat /\ Grown(e) = [e EXCEPT !.size = z]
  BY DEF OpenFiles, Grown
<1> HIDE DEF z
<1> QED
  BY <1>1 DEF OpenFiles

(* Subfunction 08.                                                         *)
LEMMA ReadStep ==
    ASSUME Typed, NEW f \in Files, NEW want \in Wants, NEW luck \in Lucks, ReadFile(f, want, luck)
    PROVE  Effect({sft[f].handle}) /\ Transfers(f, luck) /\ ReadFitsBuffer'
<1> DEFINE w == With(luck)
           e == sft[f]
           h == e.handle
           k == CountToRead(e, want)
           i == InPlace(w, e)
           s == Read(i, h, k)
           d == Advanced(e, s.n)
<1>1. w \in Libs /\ (~Troubled(luck) => w.fuse = 0)
  BY WithTyped DEF Typed
<1>2. e \in OpenFiles /\ want \in Nat
  BY RedirectorAssumption DEF Typed, StateTyped
<1>3. k \in Nat /\ (e.pos <= e.size => k <= want)
  BY <1>2, CountFits
<1>4. CASE \E err : FileCall(f, e, w, luck, Replied("read", err, want, 0))
  <2>1. PICK err : FileCall(f, e, w, luck, Replied("read", err, want, 0))
    BY <1>4
  <2>2. Shifted(w, w, h)
    BY <1>1, ShiftedSame
  <2>3. ReadFitsBuffer'
    <3>1. answer' = Replied("read", err, want, 0)
      BY <2>1 DEF FileCall, Return
    <3> QED
      BY <1>2, <3>1 DEF ReadFitsBuffer, Replied
  <2> HIDE DEF w
  <2>4. Effect({h}) /\ Transfers(f, luck)
    BY <1>1, <1>2, <2>1, <2>2, FileCallStep DEF w
  <2> QED
    BY <2>3, <2>4
<1>5. CASE ReadDone(f, e, want, luck, s)
  <2>1. Shifted(w, i, h) /\ (w.fuse = 0 /\ Standing(w, e, e.last) => Standing(i, e, e.pos))
    <3> HIDE DEF w
    <3> QED
      BY <1>1, <1>2, InPlaceTyped
  <2> HIDE DEF i
  <2>2. i \in Libs
    BY <2>1 DEF Shifted
  <2>3. HasRead(i, s, h, k)
    BY <1>3, <2>2, ReadTyped
  <2> HIDE DEF s, k
  <2>4. s \in Libs /\ SameTable(i, s) /\ s.n \in 0..k /\ (i.fuse = 0 => s.fuse = 0)
    BY <2>3 DEF HasRead
  <2>5. Shifted(i, s, h)
    <3>1. h \in HandleSet => Elsewise(i, s, {h}) /\ SameStream(i.dev[h], s.dev[h])
      BY <2>3 DEF HasRead
    <3>2. h \notin HandleSet => SameDev(i, s)
      BY <2>3 DEF HasRead, IsOpen
    <3> QED
      BY <2>4, <3>1, <3>2, ShiftedBack
  <2>6. Shifted(w, s, h)
    BY <2>1, <2>5, ShiftedOn
  <2>7. s.n \in Nat
    BY <1>3, <2>4
  <2>8. d \in OpenFiles /\ d.count = e.count /\ d.mode = e.mode /\ d.handle = h /\ d.last = e.pos + s.n
    <3> HIDE DEF e
    <3> QED
      BY <1>2, <2>7, AdvancedTyped DEF h
  <2>9. ASSUME ~Troubled(luck), Standing(w, d, e.last) PROVE Standing(s, d, d.last)
    <3>1. Standing(w, e, e.last)
      BY <2>8, <2>9 DEF Standing
    <3>2. Standing(i, e, e.pos) /\ i.fuse = 0
      BY <1>1, <2>1, <2>9, <3>1 DEF Shifted, Elsewise
    <3>3. IsOpen(s, h) => IsOpen(i, h) /\ s.dev[h].kind = i.dev[h].kind
      BY <2>5 DEF Shifted, SameTable, IsOpen, SameStream
    <3>4. IsOpen(i, h) => s.dev[h].at = i.dev[h].at + s.n
      BY <2>3, <3>2 DEF HasRead, IsOpen
    <3> HIDE DEF e, d
    <3> QED
      BY <2>8, <3>2, <3>3, <3>4 DEF Standing
  <2>10. FileCall(f, d, s, luck, [Replied("read", "none", want, s.n) EXCEPT !.pastEnd = e.pos > e.size])
    BY <1>5 DEF ReadDone
  <2>11. ReadFitsBuffer'
    <3>1. answer' = [Replied("read", "none", want, s.n) EXCEPT !.pastEnd = e.pos > e.size]
      BY <2>10 DEF FileCall, Return
    <3>2. answer'.count = s.n /\ answer'.asked = want /\ answer'.pastEnd = (e.pos > e.size)
      BY <3>1 DEF Replied
    <3>3. e.pos \in Nat /\ e.size \in Nat
      BY <1>2 DEF OpenFiles
    <3>4. CASE e.pos <= e.size
      <4>1. s.n <= want
        BY <1>2, <1>3, <2>4, <2>7, <3>4
      <4> QED
        BY <1>2, <2>7, <3>2, <4>1 DEF ReadFitsBuffer
    <3>5. CASE e.pos > e.size
      BY <3>2, <3>5 DEF ReadFitsBuffer
    <3> QED
      BY <3>3, <3>4, <3>5
  <2> HIDE DEF w, d
  <2>12. Effect({h}) /\ Transfers(f, luck)
    BY <2>4, <2>6, <2>8, <2>9, <2>10, FileCallStep DEF w
  <2> QED
    BY <2>11, <2>12
<1>6. (\E err : FileCall(f, e, w, luck, Replied("read", err, want, 0))) \/ ReadDone(f, e, want, luck, s)
  <2> HIDE DEF w
  <2>1. CASE e.mode = "write"
    BY <2>1 DEF ReadFile, w
  <2>2. CASE e.mode # "write" /\ k = 0
    BY <2>2 DEF ReadFile, w
  <2>3. CASE e.mode # "write" /\ k # 0
    BY <2>3 DEF ReadFile, w
  <2> QED
    BY <2>1, <2>2, <2>3
<1> QED
  BY <1>4, <1>5, <1>6

(* Subfunction 09.                                                         *)
LEMMA WriteStep ==
    ASSUME Typed, NEW f \in Files, NEW want \in Wants, NEW luck \in Lucks, WriteFile(f, want, luck)
    PROVE  Effect({sft[f].handle}) /\ Transfers(f, luck)
<1> DEFINE w == With(luck)
           e == sft[f]
           h == e.handle
           i == InPlace(w, e)
           s == Write(i, h, want)
           d == Grown(Advanced(e, s.n))
<1>1. w \in Libs /\ (~Troubled(luck) => w.fuse = 0)
  BY WithTyped DEF Typed
<1>2. e \in OpenFiles /\ want \in Nat /\ h \in Int
  BY RedirectorAssumption DEF Typed, StateTyped, OpenFiles
<1>3. CASE e.mode = "read"
  <2>1. PICK reply : FileCall(f, e, w, luck, reply)
    BY <1>3 DEF WriteFile
  <2>2. Shifted(w, w, h)
    BY <1>1, ShiftedSame
  <2> HIDE DEF w
  <2> QED
    BY <1>1, <1>2, <2>1, <2>2, FileCallStep DEF w
<1>4. CASE e.mode # "read"
  <2>1. Shifted(w, i, h) /\ (w.fuse = 0 /\ Standing(w, e, e.last) => Standing(i, e, e.pos))
    <3> HIDE DEF w
    <3> QED
      BY <1>1, <1>2, InPlaceTyped
  <2>2. WriteDone(f, e, want, luck, s)
    <3> HIDE DEF i, w
    <3> QED
      BY <1>4 DEF WriteFile, i, w
  <2> HIDE DEF i
  <2>3. i \in Libs
    BY <2>1 DEF Shifted
  <2>4. HasWritten(i, s, h, want)
    BY <1>2, <2>3, WriteTyped
  <2> HIDE DEF s
  <2>5. s \in Libs /\ SameTable(i, s) /\ s.n \in {-1, want} /\ (i.fuse = 0 => s.fuse = 0)
    BY <2>4 DEF HasWritten
  <2>6. Shifted(i, s, h)
    <3>1. h \in HandleSet => Elsewise(i, s, {h}) /\ SameStream(i.dev[h], s.dev[h])
      BY <2>4 DEF HasWritten
    <3>2. h \notin HandleSet => SameDev(i, s)
      BY <2>4 DEF HasWritten
    <3> QED
      BY <2>5, <3>1, <3>2, ShiftedBack
  <2>7. Shifted(w, s, h)
    BY <2>1, <2>6, ShiftedOn
  <2>8. ASSUME ~Troubled(luck), Standing(w, e, e.last), h < Total, IsOpen(s, h), s.dev[h].kind = "file"
        PROVE  s.n = want /\ s.dev[h].at = e.pos + want
    <3>1. Standing(i, e, e.pos) /\ i.fuse = 0
      BY <1>1, <2>1, <2>8 DEF Shifted, Elsewise
    <3>2. h \in HandleSet /\ IsOpen(i, h) /\ i.dev[h].kind = "file"
      BY <2>6, <2>8 DEF Shifted, SameTable, IsOpen, SameStream
    <3>3. i.dev[h].at = e.pos
      BY <2>8, <3>1, <3>2 DEF Standing
    <3> HIDE DEF e, h
    <3> QED
      BY <2>4, <2>8, <3>1, <3>2, <3>3 DEF HasWritten
  <2>9. CASE s.n = -1
    <3>1. PICK reply : FileCall(f, e, s, luck, reply)
      BY <2>2, <2>9 DEF WriteDone
    <3>2. ASSUME ~Troubled(luck), Standing(w, e, e.last) PROVE Standing(s, e, e.last)
      <4>1. want # -1
        BY <1>2
      <4> QED
        BY <1>4, <2>8, <2>9, <3>2, <4>1 DEF Standing
    <3> HIDE DEF w
    <3> QED
      BY <1>2, <2>5, <2>7, <3>1, <3>2, FileCallStep DEF w
  <2>10. CASE s.n # -1
    <3>1. s.n = want
      BY <2>5, <2>10
    <3>2. PICK reply : FileCall(f, d, s, luck, reply)
      BY <2>2, <2>10 DEF WriteDone
    <3>3. d \in OpenFiles /\ d.count = e.count /\ d.mode = e.mode /\ d.handle = h /\ d.last = e.pos + want
      <4> DEFINE a == Advanced(e, s.n)
      <4>1. /\ a \in OpenFiles /\ a.count = e.count /\ a.mode = e.mode /\ a.handle = h
            /\ a.last = e.pos + want
        <5> HIDE DEF e
        <5> QED
          BY <1>2, <3>1, AdvancedTyped DEF h
      <4> HIDE DEF a, e, h
      <4> QED
        BY <4>1, GrownTyped DEF a
    <3>4. ASSUME ~Troubled(luck), Standing(w, d, e.last) PROVE Standing(s, d, d.last)
      <4>1. Standing(w, e, e.last)
        BY <3>3, <3>4 DEF Standing
      <4> HIDE DEF d, e
      <4> QED
        BY <1>4, <2>8, <3>3, <3>4, <4>1 DEF Standing
    <3> HIDE DEF w, d
    <3> QED
      BY <2>5, <2>7, <3>2, <3>3, <3>4, FileCallStep DEF w
  <2> QED
    BY <2>9, <2>10
<1> QED
  BY <1>3, <1>4


-----------------------------------------------------------------------------
(* What else happens on the PC and at the FujiNet.                         *)

(* The library just linked in.                                             *)
LEMMA NewFsTyped ==
    ASSUME NEW exist \in SUBSET Names, NEW size \in [Names -> Nat]
    PROVE  NewFs(exist, size) \in Libs /\ Quiet(NewFs(exist, size))
<1> DEFINE t == NewFs(exist, size)
<1>1. FreeHandle \in Handles /\ <<"spent", 1>> \in Pieces /\ Closed \in Streams
  <2>1. FreeHandle \in Handles
    BY FujiFsAssumption DEF FreeHandle, Handles
  <2>2. Closed \in Streams
    BY FujiFsAssumption DEF Closed, Streams, Kinds, Objects
  <2> QED
    BY <2>1, <2>2 DEF Pieces
<1>2. [len |-> 0, err |-> "ok"] \in Statuses
  BY DEF Statuses
<1>3. 0 \in 0..Total /\ 0 \in Int /\ 0 \in Nat /\ "none" \in Errors /\ "none" \in Entries /\ << >> \in Seq(Pieces)
  BY FujiFsAssumption DEF Errors, Entries
<1>4. PICK b \in BOOLEAN : b = TRUE
  OBVIOUS
<1>5. t = [table |-> [h \in HandleSet |-> FreeHandle], buf |-> [i \in 1..BufSize |-> <<"spent", 1>>],
           status |-> [len |-> 0, err |-> "ok"], dev |-> [h \in HandleSet |-> Closed],
           exist |-> exist, size |-> size, fuse |-> 0, trouble |-> "none", reply |-> b,
           h |-> 0, n |-> 0, err |-> "none", ent |-> "none", data |-> << >>]
  BY <1>4 DEF NewFs
<1> DEFINE table == [h \in HandleSet |-> FreeHandle]
           buf == [i \in 1..BufSize |-> <<"spent", 1>>]
           status == [len |-> 0, err |-> "ok"]
           dev == [h \in HandleSet |-> Closed]
<1>6. table \in [HandleSet -> Handles] /\ buf \in [1..BufSize -> Pieces] /\ status \in Statuses
      /\ dev \in [HandleSet -> Streams]
  BY <1>1, <1>2
<1>7. t = [table |-> table, buf |-> buf, status |-> status, dev |-> dev,
           exist |-> exist, size |-> size, fuse |-> 0, trouble |-> "none", reply |-> b,
           h |-> 0, n |-> 0, err |-> "none", ent |-> "none", data |-> << >>]
  BY <1>5
<1> HIDE DEF table, buf, status, dev, t
<1>8. t \in Libs
  BY <1>3, <1>6, <1>7 DEF Libs
<1>9. Quiet(t)
  BY <1>4, <1>7 DEF Quiet
<1> QED
  BY <1>8, <1>9 DEF t

(* Two libraries over the same devices and the same share.                 *)
LEMMA JoinedTyped ==
    ASSUME NEW m \in Libs, NEW s \in Libs
    PROVE  LET t == Joined(m, s) IN
           /\ t \in Libs /\ SameTable(m, t) /\ SameText(m, t) /\ SameDev(s, t) /\ SameShare(s, t)
           /\ (Quiet(m) => Quiet(t)) /\ t.fuse = m.fuse
<1> DEFINE a == [m EXCEPT !.dev = s.dev]
           b == [a EXCEPT !.exist = s.exist]
           t == [b EXCEPT !.size = s.size]
<1>1. s.dev \in [HandleSet -> Streams] /\ s.exist \in SUBSET Names /\ s.size \in [Names -> Nat]
  BY DEF Libs
<1>2. Joined(m, s) = t
  BY DEF Joined
<1>3. a \in Libs
  BY <1>1, FieldSet
<1>4. /\ SameTable(m, a) /\ SameText(m, a) /\ a.dev = s.dev /\ a.fuse = m.fuse /\ (Quiet(m) => Quiet(a))
  BY DEF Libs, SameTable, SameText, Quiet
<1> HIDE DEF a
<1>5. b \in Libs
  BY <1>1, <1>3, FieldSet
<1>6. /\ SameTable(m, b) /\ SameText(m, b) /\ b.dev = s.dev /\ b.exist = s.exist /\ b.fuse = m.fuse
      /\ (Quiet(m) => Quiet(b))
  BY <1>3, <1>4 DEF Libs, SameTable, SameText, Quiet
<1> HIDE DEF b
<1>7. t \in Libs
  BY <1>1, <1>5, FieldSet
<1>8. /\ SameTable(m, t) /\ SameText(m, t) /\ SameDev(s, t) /\ SameShare(s, t) /\ t.fuse = m.fuse
      /\ (Quiet(m) => Quiet(t))
  BY <1>5, <1>6 DEF Libs, SameTable, SameText, SameDev, SameShare, Quiet
<1> HIDE DEF t
<1> QED
  BY <1>2, <1>7, <1>8

(* A program that uses unit 1 of the device for itself.                    *)
LEMMA OtherProgramStep ==
    ASSUME Typed, OtherProgram
    PROVE  Effect({1}) /\ SameTable(fs, fs')
<1> DEFINE dev == [fs.dev EXCEPT ![1] = Closed]
           t == [fs EXCEPT !.dev = dev]
<1>1. fs \in Libs /\ Quiet(fs) /\ faults \in 0..MaxFaults
  BY DEF Typed, StateTyped
<1>2. 1 \in HandleSet /\ Closed \in Streams
  BY FujiFsAssumption DEF Closed, Streams, Kinds, Objects, HandleSet
<1>3. fs.dev \in [HandleSet -> Streams]
  BY <1>1 DEF Libs
<1>4. dev \in [HandleSet -> Streams] /\ \A h \in HandleSet \ {1} : dev[h] = fs.dev[h]
  BY <1>2, <1>3
<1>5. fs' = t /\ host' = host /\ faults' = faults
  BY DEF OtherProgram
<1> HIDE DEF dev
<1>6. t \in Libs
  BY <1>1, <1>4, FieldSet
<1>7. SameTable(fs, t) /\ t.dev = dev /\ Quiet(t) /\ t.fuse = fs.fuse
  BY <1>1 DEF Libs, SameTable, Quiet
<1> HIDE DEF t
<1>8. Elsewise(fs, t, Free(fs) \cup {1})
  BY <1>1, <1>4, <1>7 DEF Elsewise, SameTable
<1> QED
  BY <1>1, <1>5, <1>6, <1>7, <1>8 DEF Effect, Reaches

(* Another computer on the share only adds to it.                          *)
LEMMA OtherClientStep ==
    ASSUME Typed, NEW n \in Names, OtherClient(n)
    PROVE  /\ Effect({}) /\ SameTable(fs, fs') /\ SameDev(fs, fs') /\ SameText(fs, fs')
           /\ \A x \in Names : fs'.size[x] >= fs.size[x]
<1> DEFINE size == [fs.size EXCEPT ![n] = MaxPos]
           t == [fs EXCEPT !.size = size]
<1>1. fs \in Libs /\ Quiet(fs) /\ faults \in 0..MaxFaults
  BY DEF Typed, StateTyped
<1>2. MaxPos \in Nat
  BY RedirectorAssumption
<1>3. fs.size \in [Names -> Nat]
  BY <1>1 DEF Libs
<1>4. fs.size[n] < MaxPos
  BY DEF OtherClient
<1>5. size \in [Names -> Nat] /\ \A x \in Names : size[x] >= fs.size[x]
  BY <1>2, <1>3, <1>4
<1>6. fs' = t /\ host' = host /\ faults' = faults
  BY DEF OtherClient
<1> HIDE DEF size
<1>7. t \in Libs
  BY <1>1, <1>5, FieldSet
<1>8. SameTable(fs, t) /\ SameDev(fs, t) /\ SameText(fs, t) /\ t.size = size /\ Quiet(t) /\ t.fuse = fs.fuse
  BY <1>1 DEF Libs, SameTable, SameDev, SameText, Quiet
<1> HIDE DEF t
<1>9. Elsewise(fs, t, Free(fs) \cup {})
  BY <1>1, <1>8 DEF Elsewise, SameTable, SameDev
<1> QED
  BY <1>1, <1>5, <1>6, <1>7, <1>8, <1>9 DEF Effect, Reaches

(* The share is mapped; nobody holds a handle then, and none is kept.      *)
LEMMA MapStep ==
    ASSUME Typed, NEW luck \in Lucks, Map(luck)
    PROVE  /\ host = 0 /\ fs' \in Libs /\ Quiet(fs') /\ host' \in 0..Total /\ faults' \in 0..MaxFaults
           /\ SameShare(fs, fs') /\ UNCHANGED <<sda, dta, sft, answer, steps, history>>
           /\ Takes({})
<1> DEFINE w == With(luck)
           a == OpenUrl(w, FALSE)
           b == IF a.err = "none" THEN a ELSE OpenUrl(a, TRUE)
           s == Close(b, b.h)
<1>0. PICK no \in BOOLEAN, yes \in BOOLEAN : no = FALSE /\ yes = TRUE
  OBVIOUS
<1>1. w \in Libs /\ SameShare(fs, w) /\ SameTable(fs, w)
  BY WithTyped DEF Typed
<1>2. Mapped(b, s, luck) /\ host = 0
  BY DEF Map, MapAgain, GivenBack
<1> HIDE DEF w
<1>3. a \in Libs /\ SameShare(w, a) /\ (a.err = "none" => a.h \in HandleSet) /\ OneOpened(w, a)
  <2> DEFINE o == OpenUrl(w, no)
  <2>1. o \in Libs /\ SameShare(w, o) /\ (o.err = "none" => o.h \in HandleSet) /\ OneOpened(w, o)
    BY <1>1, OpenUrlTyped
  <2> QED
    BY <1>0, <2>1
<1> HIDE DEF a
<1>4. b \in Libs /\ SameShare(a, b) /\ (b.err = "none" => b.h \in HandleSet) /\ OneOpened(w, b)
  <2> DEFINE o == OpenUrl(a, yes)
  <2>1. o \in Libs /\ SameShare(a, o) /\ (o.err = "none" => o.h \in HandleSet) /\ OneOpened(a, o)
    BY <1>3, OpenUrlTyped
  <2>2. o = OpenUrl(a, TRUE)
    BY <1>0
  <2> HIDE DEF o
  <2>3. a.err # "none" => OneOpened(w, o)
    BY <1>3, <2>1 DEF OneOpened
  <2> QED
    BY <1>3, <2>1, <2>2, <2>3 DEF SameShare
<1> HIDE DEF b
<1>5. s \in Libs /\ SameShare(b, s)
  BY <1>4, CloseTyped
<1> HIDE DEF s
<1>6. /\ b.err = "none" /\ host' = b.h /\ fs' = Settled(s) /\ faults' = (IF Troubled(luck) THEN 1 ELSE 0)
      /\ UNCHANGED <<sda, dta, sft, answer, steps, history>>
  BY <1>2 DEF Mapped
<1>7. Ends(s, fs')
  BY <1>5, <1>6, SettledTyped
<1>8. faults' \in 0..MaxFaults
  <2>1. (Troubled(luck) => faults < MaxFaults) /\ faults \in 0..MaxFaults /\ MaxFaults \in Nat
    BY LuckTyped, RedirectorAssumption DEF Typed, StateTyped
  <2> HIDE DEF Troubled
  <2> QED
    BY <1>6, <2>1
<1>9. b.h \in 0..Total
  BY <1>4, <1>6, FujiFsAssumption DEF HandleSet
<1>10. SameShare(fs, fs')
  BY <1>1, <1>3, <1>4, <1>5, <1>7 DEF SameShare, Ends
<1>11. Takes({})
  <2>1. Free(w) \subseteq Free(s)
    BY <1>4, <1>6, OneClosed DEF s
  <2> QED
    BY <1>1, <1>7, <2>1 DEF Takes, Free, Ends, SameTable
<1> QED
  BY <1>2, <1>6, <1>7, <1>8, <1>9, <1>10, <1>11 DEF Ends


-----------------------------------------------------------------------------
(* NCOPY's steps.                                                          *)

(* What a copy is about, and which of its stages hold a handle.            *)
Stages == {"absent", "prompt", "get", "put", "close", "gone"}
CopyOpen(c) == c \in Copies /\ (c.pc \in {"get", "put", "close"} => c.h \in HandleSet)
CopyTyped == lib \in Libs /\ CopyOpen(copy)

(* What a step of NCOPY does to the state of the redirector: the streams   *)
(* of T are not what they were, and their holders have lost them.          *)
CopyGoes ==
    \E T \in SUBSET HandleSet :
        /\ Effect(T) /\ SameTable(fs, fs') /\ \A h \in T : Holding(h) \subseteq lost'
        /\ lost \subseteq lost' /\ lost' \subseteq lost \cup Programs \cup Files
        /\ list' = Watched(fs', {}) /\ answer' = Replied("none", "none", 0, 0)
        /\ lib' \in Libs /\ CopyOpen(copy')
        /\ UNCHANGED <<host, sda, dta, sft, steps, fileOf, slipped, sloppy>>

(* A copy with one field set.                                              *)
LEMMA CopySet ==
    ASSUME NEW c \in Copies
    PROVE  /\ \A v \in Stages : [c EXCEPT !.pc = v] \in Copies
           /\ \A v \in {"none", "get", "put"} : [c EXCEPT !.cmd = v] \in Copies
           /\ \A v \in Objects : [c EXCEPT !.name = v] \in Copies
           /\ \A v \in 0..Total : [c EXCEPT !.host = v] \in Copies
           /\ \A v \in 0..Total : [c EXCEPT !.h = v] \in Copies
           /\ \A v \in Seq(Nat) : [c EXCEPT !.local = v] \in Copies
           /\ \A v \in 0..LocalSize : [c EXCEPT !.sent = v] \in Copies
           /\ \A v \in BOOLEAN : [c EXCEPT !.failed = v] \in Copies
           /\ \A v \in BOOLEAN : [c EXCEPT !.clean = v] \in Copies
           /\ \A v \in SUBSET Stages : [c EXCEPT !.rough = v] \in Copies
<1> DEFINE S == Seq(Nat)
           R == SUBSET Stages
           Z == 0..LocalSize
           O == Objects
           H == 0..Total
           Cs == {"none", "get", "put"}
           Ps == Stages
<1>1. Copies = [pc : Ps, cmd : Cs, name : O, host : H, h : H, local : S, sent : Z, failed : BOOLEAN,
                rough : R, clean : BOOLEAN]
  BY DEF Copies, Stages
<1> HIDE DEF S, R, Z, O, H, Cs, Ps
<1>2. /\ \A v \in Ps : [c EXCEPT !.pc = v] \in Copies
      /\ \A v \in Cs : [c EXCEPT !.cmd = v] \in Copies
      /\ \A v \in O : [c EXCEPT !.name = v] \in Copies
      /\ \A v \in H : [c EXCEPT !.host = v] \in Copies
      /\ \A v \in H : [c EXCEPT !.h = v] \in Copies
  BY <1>1
<1>3. /\ \A v \in S : [c EXCEPT !.local = v] \in Copies
      /\ \A v \in Z : [c EXCEPT !.sent = v] \in Copies
      /\ \A v \in BOOLEAN : [c EXCEPT !.failed = v] \in Copies
      /\ \A v \in BOOLEAN : [c EXCEPT !.clean = v] \in Copies
      /\ \A v \in R : [c EXCEPT !.rough = v] \in Copies
  BY <1>1
<1> QED
  BY <1>2, <1>3 DEF S, R, Z, O, H, Cs, Ps

(* The copy program's call of the library.                                 *)
LEMMA UsingTyped ==
    ASSUME Typed, CopyTyped, NEW luck \in CopyLucks
    PROVE  /\ Using(luck) \in Libs
           /\ (Troubled(luck) => faults < MaxFaults) /\ Troubled(luck) \in BOOLEAN
<1>1. /\ luck[1] \in Nat /\ luck[2] \in {"none", "refused", "unacked", "short", "empty"}
      /\ Troubled(luck) \in BOOLEAN /\ (Troubled(luck) => faults < MaxFaults)
  BY NcopyAssumption DEF CopyLucks, Troubled
<1> DEFINE k == luck[1]
           kind == luck[2]
           j == Joined(lib, fs)
<1> HIDE DEF k, kind
<1>2. k \in Nat /\ kind \in {"none", "refused", "unacked", "short", "empty"}
  BY <1>1 DEF k, kind
<1>3. j \in Libs
  BY JoinedTyped DEF CopyTyped, Typed, StateTyped
<1> HIDE DEF j
<1>4. Facing(j, k, kind) \in Libs
  BY <1>2, <1>3, FacingTyped
<1> HIDE DEF Troubled
<1> QED
  BY <1>1, <1>4 DEF Using, j, k, kind

(* The copy goes on.                                                       *)
LEMMA ContinuesStep ==
    ASSUME Typed, CopyTyped, NEW luck \in CopyLucks, NEW s \in Libs, NEW c, CopyOpen(c), Continues(c, s, luck)
    PROVE  CopyGoes
<1> DEFINE T == {x \in HandleSet : s.dev[x] # fs.dev[x]}
           z == Settled(s)
           t == Joined(fs, s)
<1>1. fs \in Libs /\ Quiet(fs) /\ faults \in 0..MaxFaults /\ host \in 0..Total /\ lost \in SUBSET (Programs \cup Files)
  BY DEF Typed, StateTyped, HistoryTyped
<1>2. t \in Libs /\ SameTable(fs, t) /\ SameDev(s, t) /\ Quiet(t) /\ t.fuse = fs.fuse
  BY <1>1, JoinedTyped
<1>3. /\ fs' = t /\ host' = host /\ lib' = Joined(z, Nowhere)
      /\ faults' = faults + (IF Troubled(luck) THEN 1 ELSE 0)
      /\ list' = Watched(fs', {}) /\ answer' = Replied("none", "none", 0, 0)
      /\ UNCHANGED <<host, sda, dta, sft, steps, fileOf, slipped, sloppy>>
  BY DEF Continues
<1>4. lost' = lost \cup UNION {Holding(h) : h \in T}
  BY DEF Continues
<1> HIDE DEF t
<1>5. Elsewise(fs, t, Free(fs) \cup T)
  BY <1>1, <1>2 DEF Elsewise, SameTable, SameDev, Quiet
<1>6. faults' \in 0..MaxFaults
  <2>1. Troubled(luck) => faults < MaxFaults
    BY UsingTyped
  <2>2. MaxFaults \in Nat
    BY RedirectorAssumption
  <2> HIDE DEF Troubled
  <2> QED
    BY <1>1, <1>3, <2>1, <2>2
<1>7. Effect(T)
  BY <1>1, <1>2, <1>3, <1>5, <1>6 DEF Effect, Reaches
<1>8. lib' \in Libs
  <2>1. z \in Libs
    BY SettledTyped DEF Ends
  <2>2. Nowhere \in Libs
    <3>1. {} \in SUBSET Names /\ [n \in Names |-> 0] \in [Names -> Nat]
      OBVIOUS
    <3> DEFINE none == {}
               zero == [n \in Names |-> 0]
    <3>2. none \in SUBSET Names /\ zero \in [Names -> Nat]
      BY <3>1
    <3> HIDE DEF none, zero
    <3>3. NewFs(none, zero) \in Libs
      BY <3>2, NewFsTyped
    <3> QED
      BY <3>3 DEF Nowhere, none, zero
  <2> HIDE DEF z
  <2> QED
    BY <1>3, <2>1, <2>2, JoinedTyped
<1>9. CopyOpen(copy')
  <2> DEFINE r == IF luck[2] \notin {"none", "short"} THEN c.rough \cup {copy.pc} ELSE c.rough
  <2>1. copy' = [c EXCEPT !.rough = r]
    BY DEF Continues
  <2>2. r \in SUBSET Stages
    <3>1. copy.pc \in Stages /\ c.rough \in SUBSET Stages
      BY DEF CopyTyped, CopyOpen, Copies, Stages
    <3> QED
      BY <3>1
  <2> HIDE DEF r
  <2>3. c \in Copies
    BY DEF CopyOpen
  <2>4. copy' \in Copies /\ copy'.pc = c.pc /\ copy'.h = c.h
    <3>1. copy' \in Copies
      BY <2>1, <2>2, <2>3, CopySet
    <3>2. copy'.pc = c.pc /\ copy'.h = c.h
      BY <2>1, <2>3 DEF Copies
    <3> QED
      BY <3>1, <3>2
  <2> QED
    BY <2>4 DEF CopyOpen
<1>10. lost' \subseteq lost \cup Programs \cup Files
  BY <1>4 DEF Holding, Live
<1>11. (\A h \in T : Holding(h) \subseteq lost') /\ lost \subseteq lost'
  BY <1>4
<1>12. T \in SUBSET HandleSet
  OBVIOUS
<1> HIDE DEF T
<1>13. SameTable(fs, fs')
  BY <1>2, <1>3
<1> QED
  BY <1>3, <1>7, <1>8, <1>9, <1>10, <1>11, <1>12, <1>13 DEF CopyGoes

(* The program ends.                                                       *)
LEMMA ExitsTyped ==
    ASSUME NEW c \in Copies
    PROVE  CopyOpen(Exits(c))
<1>1. "gone" \in Stages
  BY DEF Stages
<1>2. [c EXCEPT !.pc = "gone"] \in Copies
  BY <1>1, CopySet
<1>3. [c EXCEPT !.pc = "gone"].pc = "gone"
  BY DEF Copies
<1> QED
  BY <1>2, <1>3 DEF Exits, CopyOpen

(* A command opens its file.                                               *)
LEMMA BeginsStep ==
    ASSUME Typed, CopyTyped, NEW luck \in CopyLucks, NEW cmd \in {"get", "put"}, NEW n \in Names,
           NEW mode \in {"read", "write"},
           Begins(Command(cmd, n), Open(Using(luck), copy.host, n, mode, FALSE), luck)
    PROVE  CopyGoes
<1>0. PICK no \in BOOLEAN : no = FALSE
  OBVIOUS
<1>00. PICK yes \in BOOLEAN : yes = TRUE
  OBVIOUS
<1> DEFINE u == Using(luck)
           o == Open(u, copy.host, n, mode, no)
           c == Command(cmd, n)
           h == Lowest(Free(u))
<1>1. u \in Libs /\ copy \in Copies /\ copy.host \in 0..Total
  BY UsingTyped DEF CopyTyped, CopyOpen, Copies
<1>2. Openable(n, mode)
  BY DEF Openable, Objects
<1> HIDE DEF u
<1>3. /\ h = 0 => o \in Libs /\ o.err = "no_device"
      /\ h # 0 => h \in Free(u) /\ OpenedAt(u, o, h, n, mode)
  BY <1>1, <1>2, OpenTyped
<1>4. c \in Copies /\ c.cmd = cmd
  <2>1. n \in Objects
    BY DEF Objects
  <2>0. PICK k \in Copies : k = copy
    BY <1>1
  <2> DEFINE c1 == [k EXCEPT !.cmd = cmd]
             c2 == [c1 EXCEPT !.name = n]
             c3 == [c2 EXCEPT !.clean = yes]
  <2>2. c = c3
    BY <1>00, <2>0 DEF Command
  <2>3. c1 \in Copies /\ c1.cmd = cmd
    <3>1. cmd \in {"none", "get", "put"}
      OBVIOUS
    <3>2. c1 \in Copies
      BY <2>0, <3>1, CopySet
    <3>3. c1.cmd = cmd
      BY <2>0 DEF Copies
    <3> QED
      BY <3>2, <3>3
  <2> HIDE DEF c1
  <2>4. c2 \in Copies /\ c2.cmd = cmd
    <3>1. c2 \in Copies
      BY <2>1, <2>3, CopySet
    <3>2. c2.cmd = cmd
      BY <2>3 DEF Copies
    <3> QED
      BY <3>1, <3>2
  <2> HIDE DEF c2
  <2>5. c3 \in Copies /\ c3.cmd = cmd
    <3>1. c3 \in Copies
      BY <2>4, CopySet
    <3>2. c3.cmd = cmd
      BY <2>4 DEF Copies
    <3> QED
      BY <3>1, <3>2
  <2> HIDE DEF c3, c
  <2> QED
    BY <2>2, <2>5
<1>5. Begins(c, o, luck)
  BY <1>0 DEF u
<1> HIDE DEF o, c, h
<1>6. o \in Libs /\ (o.err = "none" => o.h \in HandleSet)
  BY <1>3 DEF OpenedAt, Free
<1>7. CASE o.err # "none"
  <2> DEFINE d == [c EXCEPT !.failed = yes]
  <2>1. d \in Copies
    BY <1>4, CopySet
  <2>2. Continues(Exits(d), o, luck)
    BY <1>00, <1>5, <1>7 DEF Begins
  <2> HIDE DEF d
  <2>3. CopyOpen(Exits(d))
    BY <2>1, ExitsTyped
  <2> DEFINE e == Exits(d)
  <2> HIDE DEF e
  <2>4. CopyOpen(e) /\ Continues(e, o, luck)
    BY <2>2, <2>3 DEF e
  <2> QED
    BY <1>6, <2>4, ContinuesStep
<1>8. CASE o.err = "none"
  <2> DEFINE d == [c EXCEPT !.pc = c.cmd]
             e == [d EXCEPT !.h = o.h]
             q == c.cmd
             v == o.h
  <2>1. q \in Stages /\ q = cmd
    BY <1>4 DEF Stages
  <2>2. v \in 0..Total /\ v \in HandleSet
    BY <1>6, <1>8, FujiFsAssumption DEF HandleSet
  <2>3. Continues(e, o, luck)
    BY <1>5, <1>8 DEF Begins
  <2> HIDE DEF q, v
  <2>4. d \in Copies
    <3>1. d = [c EXCEPT !.pc = q]
      BY DEF q
    <3> HIDE DEF d
    <3> QED
      BY <1>4, <2>1, <3>1, CopySet
  <2> HIDE DEF d
  <2>5. e \in Copies /\ e.h = v
    <3>1. e = [d EXCEPT !.h = v]
      BY DEF v
    <3>2. v \in 0..Total
      BY <2>2
    <3>3. [d EXCEPT !.h = v] \in Copies /\ [d EXCEPT !.h = v].h = v
      <4>1. [d EXCEPT !.h = v] \in Copies
        BY <2>4, <3>2, CopySet
      <4>2. [d EXCEPT !.h = v].h = v
        BY <2>4 DEF Copies
      <4> QED
        BY <4>1, <4>2
    <3> HIDE DEF e
    <3> QED
      BY <3>1, <3>3
  <2> HIDE DEF e
  <2>6. CopyOpen(e)
    BY <2>2, <2>5 DEF CopyOpen
  <2> QED
    BY <1>6, <2>3, <2>6, ContinuesStep
<1> QED
  BY <1>7, <1>8


(* The prompt's first opening.                                             *)
LEMMA ConnectStep ==
    ASSUME Typed, CopyTyped, NEW luck \in CopyLucks, Connect(luck)
    PROVE  CopyGoes
<1> DEFINE w == Using(luck)
           a == OpenUrl(w, FALSE)
           b == IF a.err = "none" THEN a ELSE OpenUrl(a, TRUE)
           s == Close(b, b.h)
<1>0. PICK no \in BOOLEAN, yes \in BOOLEAN : no = FALSE /\ yes = TRUE
  OBVIOUS
<1>1. w \in Libs /\ copy \in Copies
  BY UsingTyped DEF CopyTyped, CopyOpen
<1>2. ConnectedBy(b, luck)
  BY DEF Connect, ConnectAgain
<1> HIDE DEF w
<1>3. a \in Libs
  <2>1. OpenUrl(w, no) \in Libs
    BY <1>1, OpenUrlTyped
  <2> QED
    BY <1>0, <2>1
<1> HIDE DEF a
<1>4. b \in Libs /\ (b.err = "none" => b.h \in HandleSet)
  <2> DEFINE o == OpenUrl(a, yes)
             o2 == OpenUrl(w, no)
  <2>1. o \in Libs /\ (o.err = "none" => o.h \in HandleSet)
    BY <1>3, OpenUrlTyped
  <2>2. o2.err = "none" => o2.h \in HandleSet
    BY <1>1, OpenUrlTyped
  <2>3. o = OpenUrl(a, TRUE) /\ a = o2
    BY <1>0 DEF a
  <2> HIDE DEF o, o2
  <2> QED
    BY <1>3, <2>1, <2>2, <2>3
<1> HIDE DEF b
<1>5. s \in Libs
  BY <1>4, CloseTyped
<1>6. CASE b.err # "none"
  <2> DEFINE e == Exits(copy)
  <2>1. Continues(e, b, luck)
    BY <1>2, <1>6 DEF ConnectedBy
  <2>2. CopyOpen(e)
    BY <1>1, ExitsTyped
  <2> HIDE DEF e
  <2> QED
    BY <1>4, <2>1, <2>2, ContinuesStep
<1>7. CASE b.err = "none"
  <2>0. PICK k \in Copies : k = copy
    BY <1>1
  <2> DEFINE d == [k EXCEPT !.pc = "prompt"]
             e == [d EXCEPT !.host = b.h]
             v == b.h
  <2>1. Continues(e, s, luck)
    BY <1>2, <1>7, <2>0 DEF ConnectedBy
  <2>2. v \in 0..Total
    BY <1>4, <1>7, FujiFsAssumption DEF HandleSet
  <2>3. d \in Copies
    <3>1. "prompt" \in Stages
      BY DEF Stages
    <3> QED
      BY <2>0, <3>1, CopySet
  <2>4. d.pc = "prompt"
    BY <2>0 DEF Copies
  <2> HIDE DEF d, v
  <2>5. e \in Copies /\ e.pc = "prompt"
    <3>1. e = [d EXCEPT !.host = v]
      BY DEF v
    <3> HIDE DEF e
    <3>2. [d EXCEPT !.host = v] \in Copies
      BY <2>2, <2>3, CopySet
    <3>3. [d EXCEPT !.host = v].pc = "prompt"
      BY <2>3, <2>4 DEF Copies
    <3> QED
      BY <3>1, <3>2, <3>3
  <2> HIDE DEF e, s
  <2>6. CopyOpen(e)
    BY <2>5 DEF CopyOpen
  <2> QED
    BY <1>5, <2>1, <2>6, ContinuesStep
<1> QED
  BY <1>6, <1>7

(* The directory command.                                                  *)
LEMMA ListDirStep ==
    ASSUME Typed, CopyTyped, NEW luck \in CopyLucks, ListDir(luck)
    PROVE  CopyGoes
<1> DEFINE w == Using(luck)
           d == copy.host
           o == OpenDir(w, d, Root)
           z == Scan(o, o.h, {})
           s == IF o.err = "none" THEN Close(z, o.h) ELSE o
           e == Exits(copy)
<1>1. w \in Libs /\ copy \in Copies /\ d \in 0..Total
  BY UsingTyped DEF CopyTyped, CopyOpen, Copies
<1>2. Root \in Objects
  BY DEF Objects
<1>3. Continues(e, s, luck)
  BY DEF ListDir, Listed
<1> HIDE DEF w, d
<1>4. o \in Libs /\ (o.err = "none" => o.h \in HandleSet)
  <2> DEFINE h == Lowest(Free(w))
  <2>1. /\ h = 0 => o \in Libs /\ o.err = "no_device"
        /\ h # 0 => h \in Free(w) /\ h \in HandleSet /\ DirOpenedAt(w, o, h, Root)
    BY <1>1, <1>2, OpenDirTyped
  <2> HIDE DEF o, h
  <2> QED
    BY <2>1 DEF DirOpenedAt
<1> HIDE DEF o
<1>5. s \in Libs
  <2>1. CASE o.err = "none"
    <3> DEFINE k == o.h
    <3> HIDE DEF k
    <3>1. k \in HandleSet
      BY <1>4, <2>1 DEF k
    <3>2. PICK none \in SUBSET (Names \cup {"junk"}) : none = {}
      OBVIOUS
    <3>3. Turned(o, Scan(o, k, none), k)
      BY <1>4, <3>1, <3>2, ScanTyped
    <3>4. Scan(o, k, none) = z
      BY <3>2 DEF k
    <3> HIDE DEF z
    <3>5. z \in Libs
      BY <3>3, <3>4 DEF Turned, Stays
    <3>6. Close(z, k) \in Libs
      BY <3>5, CloseTyped
    <3> QED
      BY <2>1, <3>6 DEF k
  <2>2. CASE o.err # "none"
    BY <1>4, <2>2
  <2> QED
    BY <2>1, <2>2
<1>6. CopyOpen(e)
  BY <1>1, ExitsTyped
<1> HIDE DEF s, e
<1> QED
  BY <1>3, <1>5, <1>6, ContinuesStep

(* A turn of the loop of get.                                              *)
LEMMA GetLoopStep ==
    ASSUME Typed, CopyTyped, NEW room \in BOOLEAN, NEW luck \in CopyLucks, GetLoop(room, luck)
    PROVE  CopyGoes
<1> DEFINE w == Using(luck)
           h == copy.h
           s == Read(w, h, Chunk)
           n == s.n
           e == GotOn(copy, n, room)
<1>0. PICK yes \in BOOLEAN : yes = TRUE
  OBVIOUS
<1>1. w \in Libs /\ h \in HandleSet /\ Chunk \in Nat
  BY UsingTyped, NcopyAssumption DEF CopyTyped, CopyOpen, GetLoop
<1>2. PICK k \in Copies : k = copy
  BY DEF CopyTyped, CopyOpen
<1>3. Continues(e, s, luck) /\ k.pc = "get" /\ k.h = h
  BY <1>2 DEF GetLoop, GetMore
<1>4. HasRead(w, s, h, Chunk)
  BY <1>1, ReadTyped
<1>5. s \in Libs /\ n \in 0..Chunk
  BY <1>4 DEF HasRead
<1>6. n \in Nat
  BY <1>1, <1>5
<1> HIDE DEF s, n, w
<1>7. CopyOpen(e)
  <2> DEFINE c1 == [k EXCEPT !.pc = "close"]
             c2 == [c1 EXCEPT !.failed = yes]
             l == k.local
             m == [j \in 1..n |-> PieceAt(fs.dev[k.h], j)]
             c3 == [k EXCEPT !.local = l \o m]
  <2>1. e = IF n = 0 THEN c1 ELSE IF ~room THEN c2 ELSE c3
    <3>1. n > 0 <=> n # 0
      BY <1>6
    <3>2. CASE n = 0
      BY <1>2, <3>1, <3>2 DEF GotOn
    <3>3. CASE n # 0 /\ ~room
      BY <1>0, <1>2, <3>1, <3>3 DEF GotOn
    <3>4. CASE n # 0 /\ room
      BY <1>2, <3>1, <3>4 DEF GotOn
    <3> QED
      BY <3>2, <3>3, <3>4
  <2>2. c1 \in Copies
    <3>1. "close" \in Stages
      BY DEF Stages
    <3> QED
      BY <1>2, <3>1, CopySet
  <2>3. c1.h = h
    BY <1>2, <1>3 DEF Copies
  <2> HIDE DEF c1
  <2>4. c2 \in Copies /\ c2.h = h
    <3>1. c2 \in Copies
      BY <2>2, CopySet
    <3>2. c2.h = h
      BY <2>2, <2>3 DEF Copies
    <3> QED
      BY <3>1, <3>2
  <2>5. c3 \in Copies /\ c3.h = h
    <3>1. fs.dev[k.h].at \in Nat
      BY <1>1, <1>3 DEF Typed, StateTyped, Libs, Streams
    <3>2. \A j \in 1..n : PieceAt(fs.dev[k.h], j) \in Nat
      BY <1>6, <3>1 DEF PieceAt
    <3>3. m \in Seq(Nat) /\ l \in Seq(Nat)
      <4>1. l \in Seq(Nat)
        BY <1>2 DEF Copies
      <4>2. m \in [1..n -> Nat]
        BY <3>2
      <4> HIDE DEF m
      <4>3. m \in Seq(Nat)
        BY <1>6, <4>2
      <4> QED
        BY <4>1, <4>3
    <3> HIDE DEF m, l
    <3>4. l \o m \in Seq(Nat)
      BY <3>3
    <3> DEFINE q == l \o m
    <3> HIDE DEF q
    <3>5. q \in Seq(Nat)
      BY <3>4 DEF q
    <3>6. [k EXCEPT !.local = q] \in Copies
      BY <1>2, <3>5, CopySet
    <3>7. [k EXCEPT !.local = q].h = h
      BY <1>2, <1>3 DEF Copies
    <3> QED
      BY <3>6, <3>7 DEF q
  <2> HIDE DEF c2, c3, e
  <2>6. e \in Copies /\ e.h = h
    BY <2>1, <2>2, <2>3, <2>4, <2>5
  <2> QED
    BY <1>1, <2>6 DEF CopyOpen
<1> HIDE DEF e
<1> QED
  BY <1>3, <1>5, <1>7, ContinuesStep

(* A turn of the loop of put.                                              *)
LEMMA PutLoopStep ==
    ASSUME Typed, CopyTyped, NEW luck \in CopyLucks, PutLoop(luck)
    PROVE  CopyGoes
<1> DEFINE w == Using(luck)
           h == copy.h
           k == next
           s == Write(w, h, k)
           e == PutOn(copy, s.n, k)
<1>0. PICK yes \in BOOLEAN : yes = TRUE
  OBVIOUS
<1>1. w \in Libs /\ copy \in Copies /\ h \in HandleSet /\ h \in Int
  BY UsingTyped DEF CopyTyped, CopyOpen, PutLoop, HandleSet
<1>2. PICK c \in Copies : c = copy
  BY <1>1
<1>3. /\ c.sent \in 0..LocalSize /\ c.h = h /\ k = Smaller(Chunk, LocalSize - c.sent) /\ k > 0
      /\ Chunk \in Nat /\ LocalSize \in Nat
  BY <1>2, NcopyAssumption DEF Copies, next, PutLoop
<1>4. Continues(e, s, luck)
  BY DEF PutLoop, PutMore
<1> DEFINE z == c.sent
<1> HIDE DEF z
<1>5. k \in Nat /\ z + k \in 0..LocalSize
  BY <1>3 DEF Smaller, z
<1> HIDE DEF k, w
<1>6. s \in Libs
  BY <1>1, <1>5, WriteTyped DEF HasWritten
<1>7. CopyOpen(e)
  <2> DEFINE c1 == [c EXCEPT !.pc = "close"]
             c2 == [c1 EXCEPT !.failed = yes]
             v == z + k
             c3 == [c EXCEPT !.sent = v]
  <2>1. e = IF s.n = k THEN c3 ELSE c2
    <3> HIDE DEF s
    <3> QED
      BY <1>0, <1>2 DEF PutOn, z
  <2>2. c1 \in Copies
    <3>1. "close" \in Stages
      BY DEF Stages
    <3> QED
      BY <1>2, <3>1, CopySet
  <2>3. c1.h = h
    BY <1>2, <1>3 DEF Copies
  <2> HIDE DEF c1, v
  <2>4. c2 \in Copies /\ c2.h = h
    <3>1. c2 \in Copies
      BY <2>2, CopySet
    <3>2. c2.h = h
      BY <2>2, <2>3 DEF Copies
    <3> QED
      BY <3>1, <3>2
  <2>5. v \in 0..LocalSize
    BY <1>5 DEF v
  <2>6. c3 \in Copies /\ c3.h = h
    <3>1. c3 \in Copies
      BY <1>2, <2>5, CopySet
    <3>2. c3.h = h
      BY <1>2, <1>3 DEF Copies
    <3> QED
      BY <3>1, <3>2
  <2> HIDE DEF c2, c3, e
  <2>7. e \in Copies /\ e.h = h
    BY <2>1, <2>4, <2>6
  <2> QED
    BY <1>1, <2>7 DEF CopyOpen
<1> HIDE DEF e, s
<1> QED
  BY <1>4, <1>6, <1>7, ContinuesStep

(* The file is closed.                                                     *)
LEMMA CloseCopyStep ==
    ASSUME Typed, CopyTyped, NEW luck \in CopyLucks, CloseCopy(luck)
    PROVE  CopyGoes
<1> DEFINE w == Using(luck)
           h == copy.h
           s == Close(w, h)
           e == Exits(copy)
<1>1. w \in Libs /\ copy \in Copies
  BY UsingTyped DEF CopyTyped, CopyOpen
<1>2. Continues(e, s, luck)
  BY DEF CloseCopy
<1> HIDE DEF w, h
<1>3. s \in Libs
  BY <1>1, CloseTyped
<1>4. CopyOpen(e)
  BY <1>1, ExitsTyped
<1> HIDE DEF s, e
<1> QED
  BY <1>2, <1>3, <1>4, ContinuesStep

(* Every step of NCOPY's.                                                  *)
LEMMA NcopyGoes ==
    ASSUME Typed, CopyTyped, NcopyStep
    PROVE  CopyGoes
<1>1. PICK luck \in CopyLucks :
          \/ Connect(luck) \/ ListDir(luck)
          \/ \E n \in Names \ Dirs : Get(n, luck) \/ Put(n, luck)
          \/ \E room \in BOOLEAN : GetLoop(room, luck)
          \/ PutLoop(luck) \/ CloseCopy(luck)
  BY DEF NcopyStep
<1>2. CASE \E n \in Names \ Dirs : Get(n, luck) \/ Put(n, luck)
  <2>1. PICK n \in Names : Get(n, luck) \/ Put(n, luck)
    BY <1>2
  <2>2. CASE Get(n, luck)
    <3>0. PICK cmd \in {"get", "put"}, mode \in {"read", "write"} : cmd = "get" /\ mode = "read"
      OBVIOUS
    <3>1. Begins(Command(cmd, n), Open(Using(luck), copy.host, n, mode, FALSE), luck)
      BY <2>2, <3>0 DEF Get
    <3> QED
      BY <3>1, BeginsStep
  <2>3. CASE Put(n, luck)
    <3>0. PICK cmd \in {"get", "put"}, mode \in {"read", "write"} : cmd = "put" /\ mode = "write"
      OBVIOUS
    <3>1. Begins(Command(cmd, n), Open(Using(luck), copy.host, n, mode, FALSE), luck)
      BY <2>3, <3>0 DEF Put
    <3> QED
      BY <3>1, BeginsStep
  <2> QED
    BY <2>1, <2>2, <2>3
<1> QED
  BY <1>1, <1>2, ConnectStep, ListDirStep, GetLoopStep, PutLoopStep, CloseCopyStep


-----------------------------------------------------------------------------
(* Types are kept.                                                         *)

(* The inductive invariant of the types.                                   *)
Types == Typed /\ CopyTyped /\ steps \in 0..MaxSteps

(* What is left to show of a step once its effect on the library is known. *)
LEMMA TypedOn ==
    ASSUME NEW T, Effect(T), host \in 0..Total, sda' \in Nat \cup {NoHandle},
           dta' \in [Programs -> Records], \A p \in Programs : dta'[p].live => dta'[p].handle \in HandleSet,
           sft' \in [Files -> OpenFiles], HistoryTyped'
    PROVE  Typed'
BY DEF Effect, Typed, StateTyped

(* A search returns.                                                       *)
LEMMA SearchDoneTyped ==
    ASSUME Typed, NEW p \in Programs, NEW r, NEW luck \in Lucks, NEW expect \in Seq(Names), NEW seen \in Seq(Entries),
           NEW clean \in BOOLEAN, SearchDone(p, r, luck, expect, seen, clean), NEW T, Effect(T),
           r.rec \in Records, r.rec.live, r.err = "none" => r.rec.handle \in HandleSet /\ r.ent \in Names \cup {"junk"},
           r.rec.handle \in HandleSet \cup {NoHandle},
           lost' \in SUBSET (Programs \cup Files), slipped' \in SUBSET (Programs \cup Files)
    PROVE  Typed'
<1> DEFINE entry == [expect |-> expect, seen |-> IF r.err = "none" THEN Append(seen, r.ent) ELSE seen,
                     clean |-> clean /\ ~Troubled(luck) /\ r.err # "network", done |-> r.err # "none"]
           rec == IF r.err = "none" THEN r.rec ELSE NoSearch
<1>1. /\ sda' = r.rec.handle /\ dta' = [dta EXCEPT ![p] = rec]
      /\ list' = [Watched(r.s, {p}) EXCEPT ![p] = entry]
      /\ UNCHANGED <<sft, fileOf, sloppy>>
  BY DEF SearchDone
<1>2. entry \in Findings
  <2>1. r.err = "none" => r.ent \in Entries
    BY DEF Entries
  <2>2. (IF r.err = "none" THEN Append(seen, r.ent) ELSE seen) \in Seq(Entries)
    BY <2>1
  <2>3. (clean /\ ~Troubled(luck) /\ r.err # "network") \in BOOLEAN /\ (r.err # "none") \in BOOLEAN
    OBVIOUS
  <2> DEFINE a == IF r.err = "none" THEN Append(seen, r.ent) ELSE seen
             b == clean /\ ~Troubled(luck) /\ r.err # "network"
             c == r.err # "none"
  <2>4. a \in Seq(Entries) /\ b \in BOOLEAN /\ c \in BOOLEAN
    BY <2>2, <2>3
  <2> HIDE DEF a, b, c
  <2>5. [expect |-> expect, seen |-> a, clean |-> b, done |-> c] \in Findings
    BY <2>4 DEF Findings
  <2> QED
    BY <2>5 DEF a, b, c
<1>3. rec \in Records /\ (rec.live => rec.handle \in HandleSet)
  BY DEF NoSearch, Records
<1> HIDE DEF entry, rec
<1>4. list' \in [Programs -> Findings]
  <2>1. Watched(r.s, {p}) \in [Programs -> Findings]
    BY WatchedTyped DEF Typed
  <2> QED
    BY <1>1, <1>2, <2>1
<1>5. HistoryTyped'
  BY <1>1, <1>4 DEF HistoryTyped, Typed
<1>6. dta' \in [Programs -> Records] /\ \A q \in Programs : dta'[q].live => dta'[q].handle \in HandleSet
  BY <1>1, <1>3 DEF Typed, StateTyped
<1>7. sda' \in Nat \cup {NoHandle} /\ sft' \in [Files -> OpenFiles] /\ host \in 0..Total
  BY <1>1 DEF Typed, StateTyped, HandleSet
<1> QED
  BY <1>5, <1>6, <1>7, TypedOn

(* The types, function by function.                                        *)
LEMMA FindFirstTypes ==
    ASSUME Typed, NEW p \in Programs, NEW x \in Searches, NEW luck \in Lucks, FindFirst(p, x, luck)
    PROVE  Typed'
<1> DEFINE r == FindFirstIn(With(luck), x)
           T == Stolen(fs)
           l == Listing(fs, x.dir)
           W == Wanted(x)
           m == Matching(l, W)
<1>1. /\ r.s \in Libs /\ Ends(r.s, fs') /\ Reaches(T) /\ host' = host /\ faults' \in 0..MaxFaults
      /\ SameSearch(Search(x), r.rec)
      /\ r.err = "none" => r.rec.handle \in HandleSet /\ r.ent \in Names \cup {"junk"}
      /\ r.err # "none" => r.rec.handle = NoHandle
  BY FindFirstStep
<1>2. x \in Requests
  BY RedirectorAssumption DEF Requests, All
<1>3. Effect(T)
  BY <1>1 DEF Effect, Ends
<1>4. r.rec \in Records /\ r.rec.live /\ r.rec.handle \in HandleSet \cup {NoHandle}
  BY <1>1, <1>2, SearchTyped DEF SameSearch
<1>5. m \in Seq(Names)
  <2>1. l \in Seq(Names)
    BY ListingTyped DEF Typed, StateTyped
  <2> HIDE DEF l
  <2>2. UpTo(l, W) \in [0..Len(l) -> Seq(Names)] /\ Len(l) \in 0..Len(l)
    BY <2>1, UpToIs
  <2> HIDE DEF W
  <2> QED
    BY <2>2, MatchingIs
<1> HIDE DEF m
<1>6. SearchDone(p, r, luck, m, << >>, TRUE)
  BY DEF FindFirst, m
<1>7. PICK none \in Seq(Entries), yes \in BOOLEAN : none = << >> /\ yes = TRUE
  <2>1. << >> \in Seq(Entries) /\ TRUE \in BOOLEAN
    OBVIOUS
  <2>2. \E none \in Seq(Entries) : none = << >>
    BY <2>1
  <2> QED
    BY <2>1, <2>2
<1>8. SearchDone(p, r, luck, m, none, yes)
  BY <1>6, <1>7
<1>9. lost' \in SUBSET (Programs \cup Files) /\ slipped' \in SUBSET (Programs \cup Files)
  <2>1. Robbed \subseteq Programs \cup Files
    BY DEF Robbed, Holding, Live
  <2>2. lost' = (lost \cup Robbed) \ {p} /\ slipped' \in {slipped \cup {p}, slipped \ {p}}
    BY DEF FindFirst
  <2>3. lost \subseteq Programs \cup Files /\ slipped \subseteq Programs \cup Files
    BY DEF Typed, HistoryTyped
  <2> QED
    BY <2>1, <2>2, <2>3
<1> HIDE DEF r, T
<1>10. r.err = "none" => r.rec.handle \in HandleSet /\ r.ent \in Names \cup {"junk"}
  BY <1>1 DEF r
<1> QED
  BY <1>3, <1>4, <1>5, <1>7, <1>8, <1>9, <1>10, SearchDoneTyped

(* and 1C.                                                                *)
LEMMA FindNextTypes ==
    ASSUME Typed, NEW p \in Programs, NEW luck \in Lucks, FindNext(p, luck)
    PROVE  Typed'
<1> DEFINE r == FindNextIn(With(luck), dta[p])
           h == dta[p].handle
           f == list[p]
<1>1. /\ r.s \in Libs /\ Ends(r.s, fs') /\ Reaches({h}) /\ host' = host /\ faults' \in 0..MaxFaults
      /\ h \in HandleSet /\ SameSearch(dta[p], r.rec)
      /\ r.err = "none" => r.rec.handle = h /\ r.ent \in Names \cup {"junk"}
      /\ r.err # "none" => r.rec.handle = NoHandle
  BY FindNextStep
<1>2. Effect({h})
  BY <1>1 DEF Effect, Ends
<1>3. r.rec \in Records /\ r.rec.live /\ r.rec.handle \in HandleSet \cup {NoHandle}
  BY <1>1 DEF SameSearch, FindNext
<1>4. f \in Findings
  BY DEF Typed, HistoryTyped
<1>5. f.expect \in Seq(Names) /\ f.seen \in Seq(Entries) /\ f.clean \in BOOLEAN
  BY <1>4 DEF Findings
<1>6. SearchDone(p, r, luck, f.expect, f.seen, f.clean)
  BY DEF FindNext
<1>7. lost' \in SUBSET (Programs \cup Files) /\ slipped' \in SUBSET (Programs \cup Files)
  <2>1. Holding(HandleOf(p)) \subseteq Programs \cup Files
    BY DEF Holding, Live
  <2>2. lost' = lost \cup (Holding(HandleOf(p)) \ {p}) /\ slipped' \in {slipped \cup {p}, slipped}
    BY DEF FindNext
  <2>3. lost \subseteq Programs \cup Files /\ slipped \subseteq Programs \cup Files
    BY DEF Typed, HistoryTyped
  <2> QED
    BY <2>1, <2>2, <2>3
<1> DEFINE a == f.expect
           b == f.seen
           c == f.clean
<1>8. SearchDone(p, r, luck, a, b, c) /\ a \in Seq(Names) /\ b \in Seq(Entries) /\ c \in BOOLEAN
  BY <1>5, <1>6
<1>9. r.err = "none" => r.rec.handle \in HandleSet /\ r.ent \in Names \cup {"junk"}
  BY <1>1
<1> HIDE DEF a, b, c, r, h
<1> QED
  BY <1>2, <1>3, <1>7, <1>8, <1>9, SearchDoneTyped

(* A call that leaves the records of DOS alone.                            *)
LEMMA LeftTypes ==
    ASSUME Typed, NEW T, Effect(T), sda' \in Nat \cup {NoHandle}, UNCHANGED <<dta, sft, fileOf>>,
           list' \in [Programs -> Findings],
           lost' \in SUBSET (Programs \cup Files), slipped' \in SUBSET (Programs \cup Files),
           sloppy' \in SUBSET {"read only", "abandoned", "broken off"}
    PROVE  Typed'
<1>1. HistoryTyped'
  BY DEF Typed, HistoryTyped
<1>2. /\ dta' \in [Programs -> Records] /\ \A p \in Programs : dta'[p].live => dta'[p].handle \in HandleSet
      /\ sft' \in [Files -> OpenFiles] /\ host \in 0..Total
  BY DEF Typed, StateTyped
<1> QED
  BY <1>1, <1>2, TypedOn

(* A wildcard function returns.                                            *)
LEMMA WildcardTypes ==
    ASSUME Typed, NEW fn, NEW r, NEW luck, WildcardDone(fn, r, luck), Effect(Stolen(fs)),
           sda' \in HandleSet \cup {NoHandle}
    PROVE  Typed'
<1>1. list' = Watched(r.s, {}) /\ lost' = lost \cup Robbed /\ UNCHANGED <<dta, sft, fileOf, slipped>>
      /\ sloppy' \in {sloppy \cup {"broken off"}, sloppy}
  BY DEF WildcardDone
<1>2. list' \in [Programs -> Findings]
  BY <1>1, WatchedTyped DEF Typed
<1>3. /\ lost' \in SUBSET (Programs \cup Files) /\ slipped' \in SUBSET (Programs \cup Files)
      /\ sloppy' \in SUBSET {"read only", "abandoned", "broken off"}
  <2>1. Robbed \subseteq Programs \cup Files
    BY DEF Robbed, Holding, Live
  <2> QED
    BY <1>1, <2>1 DEF Typed, HistoryTyped
<1>4. sda' \in Nat \cup {NoHandle}
  BY DEF HandleSet
<1> QED
  BY <1>1, <1>2, <1>3, <1>4, LeftTypes

(* Subfunction 13,                                                        *)
LEMMA DeleteTypes ==
    ASSUME Typed, host # 0, NEW x \in Searches, NEW luck \in Lucks, DeleteFiles(x, luck)
    PROVE  Typed'
<1> DEFINE r == Deletion(With(luck), x)
<1>1. Ends(r.s, fs') /\ Reaches(Stolen(fs)) /\ host' = host /\ faults' \in 0..MaxFaults /\ sda' \in HandleSet \cup {NoHandle}
  BY DeleteStep
<1>2. WildcardDone("delete", r, luck)
  BY DEF DeleteFiles
<1> HIDE DEF r
<1>3. Effect(Stolen(fs))
  BY <1>1 DEF Effect, Ends
<1> QED
  BY <1>1, <1>2, <1>3, WildcardTypes

(* and 11.                                                                *)
LEMMA RenameTypes ==
    ASSUME Typed, NEW x \in Searches, NEW luck \in Lucks, RenameFiles(x, luck)
    PROVE  Typed'
<1> DEFINE r == Renaming(FindFirstIn(With(luck), [x EXCEPT !.dirs = FALSE]))
<1>1. Ends(r.s, fs') /\ Reaches(Stolen(fs)) /\ host' = host /\ faults' \in 0..MaxFaults /\ sda' \in HandleSet \cup {NoHandle}
  BY RenameStep
<1>2. WildcardDone("rename", r, luck)
  BY DEF RenameFiles
<1> HIDE DEF r
<1>3. Effect(Stolen(fs))
  BY <1>1 DEF Effect, Ends
<1> QED
  BY <1>1, <1>2, <1>3, WildcardTypes

(* A call on a path returns.                                               *)
LEMMA PathTypes ==
    ASSUME Typed, Effect({}), NEW s, NEW luck, NEW err, PathCall(s, luck, err)
    PROVE  Typed'
<1>1. list' = Watched(s, {}) /\ UNCHANGED <<sda, dta, sft, fileOf, lost, slipped, sloppy>>
  BY DEF PathCall
<1>2. list' \in [Programs -> Findings]
  BY <1>1, WatchedTyped DEF Typed
<1>3. /\ lost' \in SUBSET (Programs \cup Files) /\ slipped' \in SUBSET (Programs \cup Files)
      /\ sloppy' \in SUBSET {"read only", "abandoned", "broken off"} /\ sda' \in Nat \cup {NoHandle}
  BY <1>1 DEF Typed, HistoryTyped, StateTyped
<1> QED
  BY <1>1, <1>2, <1>3, LeftTypes


(* Subfunctions 01, 03, 05, 0E and 0F reach no handle that is taken.      *)
LEMMA DirTypes ==
    ASSUME Typed, host # 0, NEW luck \in Lucks, NEW n \in Names,
           \/ \E stray \in BOOLEAN : RemoveDir(n, stray, luck)
           \/ MakeDir(n, luck)
           \/ \E fn \in {"chdir", "get_attr", "set_attr"} : Attributes(fn, n, luck)
    PROVE  Typed' /\ Effect({}) /\ Takes({}) /\ (\E s, err : PathCall(s, luck, err))
<1>1. Effect({}) /\ Takes({})
  BY RemoveDirStep, MakeDirStep, AttributesStep
<1>2. \E s, err : PathCall(s, luck, err)
  <2> DEFINE s == Stat(With(luck), host, n)
  <2>1. CASE \E stray \in BOOLEAN : RemoveDir(n, stray, luck)
    <3>1. PICK stray \in BOOLEAN : RemoveKnowing(n, stray, luck, s)
      BY <2>1 DEF RemoveDir
    <3> DEFINE t == PathOperation(s, host, "rmdir", n)
    <3> HIDE DEF s
    <3>2. CASE s.err # "none"
      BY <3>1, <3>2 DEF RemoveKnowing
    <3>3. CASE s.err = "none" /\ ~stray
      BY <3>1, <3>3 DEF RemoveKnowing
    <3>4. CASE s.err = "none" /\ stray
      <4>1. Operation(t, luck)
        BY <3>1, <3>4 DEF RemoveKnowing
      <4> HIDE DEF t
      <4> QED
        BY <4>1 DEF Operation
    <3> QED
      BY <3>2, <3>3, <3>4
  <2>2. CASE MakeDir(n, luck)
    <3>1. MakeKnowing(n, luck, s)
      BY <2>2 DEF MakeDir
    <3> DEFINE t == PathOperation(s, host, "mkdir", n)
    <3> HIDE DEF s
    <3>2. PathCall(s, luck, "file_exists") \/ Operation(t, luck)
      BY <3>1 DEF MakeKnowing
    <3> HIDE DEF t
    <3> QED
      BY <3>2 DEF Operation
  <2>3. CASE \E fn \in {"chdir", "get_attr", "set_attr"} : Attributes(fn, n, luck)
    <3>1. PICK fn : Lookup(fn, n, luck, s)
      BY <2>3 DEF Attributes
    <3> HIDE DEF s
    <3> QED
      BY <3>1 DEF Lookup
  <2> QED
    BY <2>1, <2>2, <2>3
<1> QED
  BY <1>1, <1>2, PathTypes

(* Opening a file, or not.                                                 *)
LEMMA OpenRest ==
    ASSUME Typed, NEW f \in Files, NEW n \in Names, NEW how, NEW action, NEW mode, NEW luck \in Lucks,
           OpenExtended(f, n, how, action, mode, luck)
    PROVE  /\ list' \in [Programs -> Findings] /\ (\E s : list' = Watched(s, {}) /\ fs' = Settled(s))
           /\ answer'.fn = how /\ UNCHANGED <<sda, dta, sloppy>>
<1> DEFINE s == Stat(With(luck), host, n)
           o == Open(s, host, n, mode, TRUE)
           refusal == OpenRefusal(s.err = "none", n, action, mode)
<1>1. OpenKnowing(f, n, how, action, mode, luck, s, refusal)
  BY DEF OpenExtended, OpenAfter
<1> HIDE DEF s, refusal
<1>2. \E t, size, err : Opened(f, n, how, luck, t, size, mode, err)
  <2>1. CASE refusal # "none"
    BY <1>1, <2>1 DEF OpenKnowing
  <2>2. CASE refusal = "none"
    <3> DEFINE size == IF s.err = "none" /\ "replace" \notin action THEN s.size[n] ELSE 0
    <3>1. OpenReturns(f, n, how, mode, luck, size, o)
      BY <1>1, <2>2 DEF OpenKnowing
    <3> HIDE DEF o, size
    <3> QED
      BY <3>1 DEF OpenReturns
  <2> QED
    BY <2>1, <2>2
<1>3. PICK t, err : /\ list' = Watched(t, {}) /\ UNCHANGED <<sda, dta, sloppy>> /\ fs' = Settled(t)
                    /\ answer' = Replied(how, err, 0, 0)
  BY <1>2 DEF Opened, Return
<1>4. answer'.fn = how
  BY <1>3 DEF Replied
<1> QED
  BY <1>3, <1>4, WatchedTyped DEF Typed

(* Subfunctions 16, 17 and 2E.                                            *)
LEMMA OpenTypes ==
    ASSUME Typed, NEW f \in Files, NEW n \in Names, NEW how \in {"exist", "create", "create_new", "extended"},
           NEW action \in ActionsOf(how), NEW mode \in ModesOf(how), NEW luck \in Lucks,
           OpenExtended(f, n, how, action, mode, luck)
    PROVE  Typed'
<1>1. Effect({}) /\ (Opens(f, n, luck) \/ UNCHANGED <<sft, fileOf, lost, slipped>>)
  BY OpenStep
<1>2. list' \in [Programs -> Findings] /\ UNCHANGED <<sda, dta, sloppy>>
  BY OpenRest
<1>3. /\ sft' \in [Files -> OpenFiles] /\ fileOf' \in [Files -> Objects]
      /\ lost' \in SUBSET (Programs \cup Files) /\ slipped' \in SUBSET (Programs \cup Files)
  <2>1. /\ sft \in [Files -> OpenFiles] /\ fileOf \in [Files -> Objects]
        /\ lost \in SUBSET (Programs \cup Files) /\ slipped \in SUBSET (Programs \cup Files)
    BY DEF Typed, StateTyped, HistoryTyped
  <2>2. CASE Opens(f, n, luck)
    <3>1. PICK h \in Free(fs), size \in Nat, mo \in Modes :
              /\ sft' = [sft EXCEPT ![f] = [count |-> 1, handle |-> h, pos |-> 0, last |-> 0, size |-> size, mode |-> mo]]
              /\ fileOf' = [fileOf EXCEPT ![f] = n] /\ lost' = lost \ {f}
              /\ slipped' = (IF Troubled(luck) THEN slipped \cup {f} ELSE slipped \ {f})
      BY <2>2 DEF Opens
    <3>2. [count |-> 1, handle |-> h, pos |-> 0, last |-> 0, size |-> size, mode |-> mo] \in OpenFiles
      <4>1. h \in 0..Total
        BY <3>1, FujiFsAssumption DEF Free, HandleSet
      <4> QED
        BY <3>1, <4>1 DEF OpenFiles
    <3>3. n \in Objects
      BY DEF Objects
    <3>4. slipped' \in {slipped \cup {f}, slipped \ {f}}
      BY <3>1
    <3> QED
      BY <2>1, <3>1, <3>2, <3>3, <3>4
  <2>3. CASE UNCHANGED <<sft, fileOf, lost, slipped>>
    BY <2>1, <2>3
  <2> QED
    BY <1>1, <2>2, <2>3
<1>4. HistoryTyped'
  BY <1>2, <1>3 DEF HistoryTyped, Typed
<1>5. /\ dta' \in [Programs -> Records] /\ \A p \in Programs : dta'[p].live => dta'[p].handle \in HandleSet
      /\ sda' \in Nat \cup {NoHandle} /\ host \in 0..Total
  BY <1>2 DEF Typed, StateTyped
<1> QED
  BY <1>1, <1>3, <1>4, <1>5, TypedOn

(* Subfunction 06.                                                        *)
LEMMA CloseTypes ==
    ASSUME Typed, NEW f \in Files, NEW luck \in Lucks, CloseFile(f, luck)
    PROVE  Typed'
<1> DEFINE e == sft[f]
           w == With(luck)
           s == IF e.mode = "read" THEN w ELSE Close(w, e.handle)
<1>1. Effect(Given(e))
  BY CloseStep
<1>2. Closing(f, e, luck, s) /\ e.count > 0
  BY DEF CloseFile
<1>3. e \in OpenFiles
  BY DEF Typed, StateTyped
<1> HIDE DEF e, s
<1>4. /\ sft' = [sft EXCEPT ![f] = IF e.count = 1 THEN FreeSft ELSE [e EXCEPT !.count = @ - 1]]
      /\ list' = Watched(s, {}) /\ UNCHANGED <<sda, dta>>
      /\ lost' = (IF e.mode # "read" /\ IsOpen(fs, e.handle) THEN lost \cup Holding(e.handle) ELSE lost)
                     \ (IF e.count = 1 THEN {f} ELSE {})
      /\ slipped' = (IF e.count = 1 THEN slipped \ {f} ELSE slipped)
      /\ fileOf' = (IF e.count = 1 THEN [fileOf EXCEPT ![f] = Root] ELSE fileOf)
      /\ sloppy' = (IF e.mode = "read" THEN sloppy \cup {"read only"} ELSE sloppy)
  BY <1>2 DEF Closing
<1>5. list' \in [Programs -> Findings]
  BY <1>4, WatchedTyped DEF Typed
<1>6. sft' \in [Files -> OpenFiles]
  <2>1. FreeSft \in OpenFiles
    BY FujiFsAssumption DEF FreeSft, OpenFiles, Modes
  <2>2. [e EXCEPT !.count = @ - 1] \in OpenFiles
    BY <1>2, <1>3 DEF OpenFiles
  <2> QED
    BY <1>4, <2>1, <2>2 DEF Typed, StateTyped
<1>7. /\ fileOf' \in [Files -> Objects]
      /\ lost' \in SUBSET (Programs \cup Files) /\ slipped' \in SUBSET (Programs \cup Files)
      /\ sloppy' \in SUBSET {"read only", "abandoned", "broken off"}
  <2>1. Holding(e.handle) \subseteq Programs \cup Files
    BY DEF Holding, Live
  <2>2. /\ fileOf \in [Files -> Objects] /\ Root \in Objects
        /\ lost \in SUBSET (Programs \cup Files) /\ slipped \in SUBSET (Programs \cup Files)
        /\ sloppy \in SUBSET {"read only", "abandoned", "broken off"}
    BY DEF Typed, HistoryTyped, Objects
  <2> QED
    BY <1>4, <2>1, <2>2
<1>8. HistoryTyped'
  BY <1>5, <1>7 DEF HistoryTyped
<1>9. /\ dta' \in [Programs -> Records] /\ \A p \in Programs : dta'[p].live => dta'[p].handle \in HandleSet
      /\ sda' \in Nat \cup {NoHandle} /\ host \in 0..Total
  BY <1>4 DEF Typed, StateTyped
<1> DEFINE T == Given(e)
<1>10. Effect(T)
  BY <1>1 DEF e
<1> HIDE DEF T
<1> QED
  BY <1>6, <1>8, <1>9, <1>10, TypedOn

(* A call on a file returns.                                               *)
LEMMA TransferTypes ==
    ASSUME Typed, NEW f \in Files, NEW luck \in Lucks, NEW T, Effect(T), Transfers(f, luck),
           list' \in [Programs -> Findings], UNCHANGED <<sda, dta, fileOf, sloppy>>
    PROVE  Typed'
<1>1. PICK e \in OpenFiles :
          /\ sft' = [sft EXCEPT ![f] = e]
          /\ slipped' = (IF Troubled(luck) THEN slipped \cup {f} ELSE slipped)
          /\ lost' = lost \cup (Holding(sft[f].handle) \ {f})
  BY DEF Transfers
<1>2. sft' \in [Files -> OpenFiles]
  BY <1>1 DEF Typed, StateTyped
<1>3. HistoryTyped'
  <2>1. Holding(sft[f].handle) \subseteq Programs \cup Files
    BY DEF Holding, Live
  <2>2. slipped' \in {slipped \cup {f}, slipped}
    BY <1>1
  <2> QED
    BY <1>1, <2>1, <2>2 DEF HistoryTyped, Typed
<1>4. /\ dta' \in [Programs -> Records] /\ \A p \in Programs : dta'[p].live => dta'[p].handle \in HandleSet
      /\ sda' \in Nat \cup {NoHandle} /\ host \in 0..Total
  BY DEF Typed, StateTyped
<1> QED
  BY <1>2, <1>3, <1>4, TypedOn

(* What a call on a file leaves alone.                                     *)
LEMMA FileCallRest ==
    ASSUME Typed, NEW f, NEW e, NEW s, NEW luck, NEW reply, FileCall(f, e, s, luck, reply)
    PROVE  /\ list' \in [Programs -> Findings] /\ list' = Watched(s, {}) /\ fs' = Settled(s)
           /\ UNCHANGED <<sda, dta, fileOf, sloppy>>
BY WatchedTyped DEF Typed, FileCall, Return

(* A read answers as a read,                                               *)
LEMMA ReadRest ==
    ASSUME Typed, NEW f \in Files, NEW want, NEW luck, ReadFile(f, want, luck)
    PROVE  \E e, s, reply : FileCall(f, e, s, luck, reply) /\ reply.fn = "read"
<1> DEFINE w == With(luck)
           e == sft[f]
           s == Read(InPlace(w, e), e.handle, CountToRead(e, want))
<1>1. CASE e.mode = "write"
  <2> HIDE DEF w
  <2> QED
    BY <1>1 DEF ReadFile, w, Replied
<1>2. CASE e.mode # "write" /\ CountToRead(e, want) = 0
  <2> HIDE DEF w
  <2> QED
    BY <1>2 DEF ReadFile, w, Replied
<1>3. CASE e.mode # "write" /\ CountToRead(e, want) # 0
  <2>1. ReadDone(f, e, want, luck, s)
    BY <1>3 DEF ReadFile
  <2> HIDE DEF s
  <2> QED
    BY <2>1 DEF ReadDone, Replied
<1> QED
  BY <1>1, <1>2, <1>3

(* and a write as a write.                                                 *)
LEMMA WriteRest ==
    ASSUME Typed, NEW f \in Files, NEW want, NEW luck, WriteFile(f, want, luck)
    PROVE  \E e, s, reply : FileCall(f, e, s, luck, reply) /\ reply.fn = "write"
<1> DEFINE w == With(luck)
           e == sft[f]
           s == Write(InPlace(w, e), e.handle, want)
<1>1. CASE e.mode = "read"
  <2> HIDE DEF w
  <2> QED
    BY <1>1 DEF WriteFile, w, Replied
<1>2. CASE e.mode # "read"
  <2>1. WriteDone(f, e, want, luck, s)
    BY <1>2 DEF WriteFile
  <2> HIDE DEF s
  <2> QED
    BY <2>1 DEF WriteDone, Replied
<1> QED
  BY <1>1, <1>2

(* Subfunction 08,                                                        *)
LEMMA ReadTypes ==
    ASSUME Typed, NEW f \in Files, NEW want \in Wants, NEW luck \in Lucks, ReadFile(f, want, luck)
    PROVE  Typed'
<1>1. Effect({sft[f].handle}) /\ Transfers(f, luck)
  BY ReadStep
<1>2. list' \in [Programs -> Findings] /\ UNCHANGED <<sda, dta, fileOf, sloppy>>
  BY ReadRest, FileCallRest
<1> QED
  BY <1>1, <1>2, TransferTypes

(* and 09.                                                                *)
LEMMA WriteTypes ==
    ASSUME Typed, NEW f \in Files, NEW want \in Wants, NEW luck \in Lucks, WriteFile(f, want, luck)
    PROVE  Typed'
<1>1. Effect({sft[f].handle}) /\ Transfers(f, luck)
  BY WriteStep
<1>2. list' \in [Programs -> Findings] /\ UNCHANGED <<sda, dta, fileOf, sloppy>>
  BY WriteRest, FileCallRest
<1> QED
  BY <1>1, <1>2, TransferTypes


(* A step that leaves the library alone.                                   *)
LEMMA StillStep ==
    ASSUME Typed, UNCHANGED <<fs, host, faults>>
    PROVE  Effect({})
BY DEF Typed, StateTyped, Effect, Reaches, Elsewise

(* The rest of the steps: those that do not call the library, those of other *)
(* programs and computers, and the mapping of a drive.                     *)
LEMMA MoveTypes ==
    ASSUME Typed, NEW f \in Files, NEW pos \in Moves, MoveFile(f, pos)
    PROVE  Typed' /\ Effect({})
<1>1. Effect({}) /\ sft' = [sft EXCEPT ![f].pos = pos] /\ UNCHANGED <<sda, dta, history>>
  BY StillStep DEF MoveFile
<1>2. sft' \in [Files -> OpenFiles]
  <2> DEFINE e == [sft[f] EXCEPT !.pos = pos]
  <2>1. sft' = [sft EXCEPT ![f] = e]
    BY <1>1
  <2>2. e \in OpenFiles
    BY RedirectorAssumption DEF Typed, StateTyped, OpenFiles
  <2> HIDE DEF e
  <2> QED
    BY <2>1, <2>2 DEF Typed, StateTyped
<1>3. HistoryTyped' /\ dta' \in [Programs -> Records] /\ sda' \in Nat \cup {NoHandle} /\ host \in 0..Total
      /\ \A p \in Programs : dta'[p].live => dta'[p].handle \in HandleSet
  BY <1>1 DEF Typed, StateTyped, HistoryTyped, history
<1> QED
  BY <1>1, <1>2, <1>3, TypedOn

(* A handle duplicated,                                                   *)
LEMMA DuplicateTypes ==
    ASSUME Typed, NEW f \in Files, Duplicate(f)
    PROVE  Typed' /\ Effect({})
<1>1. Effect({}) /\ sft' = [sft EXCEPT ![f].count = 2] /\ UNCHANGED <<sda, dta, history>>
  BY StillStep DEF Duplicate
<1>2. sft' \in [Files -> OpenFiles]
  <2> DEFINE e == [sft[f] EXCEPT !.count = 2]
  <2>1. sft' = [sft EXCEPT ![f] = e]
    BY <1>1
  <2>2. e \in OpenFiles
    BY DEF Typed, StateTyped, OpenFiles
  <2> HIDE DEF e
  <2> QED
    BY <2>1, <2>2 DEF Typed, StateTyped
<1>3. HistoryTyped' /\ dta' \in [Programs -> Records] /\ sda' \in Nat \cup {NoHandle} /\ host \in 0..Total
      /\ \A p \in Programs : dta'[p].live => dta'[p].handle \in HandleSet
  BY <1>1 DEF Typed, StateTyped, HistoryTyped, history
<1> QED
  BY <1>1, <1>2, <1>3, TypedOn

(* a search given up,                                                     *)
LEMMA AbandonTypes ==
    ASSUME Typed, NEW p \in Programs, Abandon(p)
    PROVE  Typed' /\ Effect({})
<1>1. /\ Effect({}) /\ dta' = [dta EXCEPT ![p] = NoSearch] /\ list' = [list EXCEPT ![p] = NoList]
      /\ lost' = lost \ {p} /\ slipped' = slipped \ {p} /\ sloppy' = sloppy \cup {"abandoned"}
      /\ UNCHANGED <<sda, sft, fileOf>>
  BY StillStep DEF Abandon
<1>2. NoSearch \in Records /\ ~NoSearch.live /\ NoList \in Findings
  BY DEF NoSearch, Records, NoList, Findings
<1>3. HistoryTyped'
  BY <1>1, <1>2 DEF Typed, HistoryTyped
<1>4. /\ dta' \in [Programs -> Records] /\ sda' \in Nat \cup {NoHandle} /\ host \in 0..Total
      /\ \A q \in Programs : dta'[q].live => dta'[q].handle \in HandleSet
      /\ sft' \in [Files -> OpenFiles]
  BY <1>1, <1>2 DEF Typed, StateTyped
<1> QED
  BY <1>1, <1>3, <1>4, TypedOn

(* a search on another drive,                                             *)
LEMMA OtherDriveTypes ==
    ASSUME Typed, NEW cluster \in Clusters, OtherDrive(cluster)
    PROVE  Typed' /\ Effect({})
<1>1. Effect({}) /\ sda' = cluster /\ UNCHANGED <<dta, sft, history>>
  BY StillStep DEF OtherDrive
<1>2. /\ HistoryTyped' /\ dta' \in [Programs -> Records] /\ host \in 0..Total
      /\ \A p \in Programs : dta'[p].live => dta'[p].handle \in HandleSet
      /\ sft' \in [Files -> OpenFiles]
  BY <1>1 DEF Typed, StateTyped, HistoryTyped, history
<1>3. sda' \in Nat \cup {NoHandle}
  BY <1>1, RedirectorAssumption
<1> QED
  BY <1>1, <1>2, <1>3, TypedOn

(* a program that uses the first device,                                  *)
LEMMA OtherProgramTypes ==
    ASSUME Typed, OtherProgram
    PROVE  Typed' /\ Effect({1})
<1>1. Effect({1})
  BY OtherProgramStep
<1>2. list' = Watched(fs', {}) /\ lost' = lost \cup Holding(1) /\ UNCHANGED <<sda, dta, sft, fileOf, slipped, sloppy>>
  BY DEF OtherProgram
<1>3. HistoryTyped'
  <2>1. Holding(1) \subseteq Programs \cup Files
    BY DEF Holding, Live
  <2>2. list' \in [Programs -> Findings]
    BY <1>2, WatchedTyped DEF Typed
  <2> QED
    BY <1>2, <2>1, <2>2 DEF Typed, HistoryTyped
<1>4. /\ dta' \in [Programs -> Records] /\ sda' \in Nat \cup {NoHandle} /\ host \in 0..Total
      /\ \A p \in Programs : dta'[p].live => dta'[p].handle \in HandleSet
      /\ sft' \in [Files -> OpenFiles]
  BY <1>2 DEF Typed, StateTyped
<1>5. PICK T : T = {1}
  OBVIOUS
<1>6. Effect(T)
  BY <1>1, <1>5
<1>7. Typed'
  BY <1>3, <1>4, <1>6, TypedOn
<1> QED
  BY <1>1, <1>7

(* a file made longer elsewhere,                                          *)
LEMMA OtherClientTypes ==
    ASSUME Typed, NEW n \in Names, OtherClient(n)
    PROVE  Typed' /\ Effect({})
<1>1. Effect({})
  BY OtherClientStep
<1>2. UNCHANGED <<sda, dta, sft, history>>
  BY DEF OtherClient
<1>3. /\ HistoryTyped' /\ dta' \in [Programs -> Records] /\ sda' \in Nat \cup {NoHandle} /\ host \in 0..Total
      /\ \A p \in Programs : dta'[p].live => dta'[p].handle \in HandleSet
      /\ sft' \in [Files -> OpenFiles]
  BY <1>2 DEF Typed, StateTyped, HistoryTyped, history
<1> QED
  BY <1>1, <1>3, TypedOn

(* the share mapped,                                                      *)
LEMMA MapTypes ==
    ASSUME Typed, NEW luck \in Lucks, Map(luck)
    PROVE  Typed'
<1>1. /\ fs' \in Libs /\ Quiet(fs') /\ host' \in 0..Total /\ faults' \in 0..MaxFaults
      /\ UNCHANGED <<sda, dta, sft, history>>
  BY MapStep
<1> QED
  BY <1>1 DEF Typed, StateTyped, HistoryTyped, history

(* and nothing at all.                                                    *)
LEMMA StillTypes ==
    ASSUME Typed, UNCHANGED vars
    PROVE  Typed'
BY DEF Typed, StateTyped, HistoryTyped, vars, history

(* Every call.                                                             *)
LEMMA CallTypes ==
    ASSUME Typed, host # 0, NEW luck \in Lucks, Call(luck)
    PROVE  Typed'
<1>1. Dirs \subseteq Names
  BY FujiFsAssumption
<1>2. CASE \/ \E n \in Dirs, stray \in BOOLEAN : RemoveDir(n, stray, luck)
           \/ \E n \in Dirs : MakeDir(n, luck)
           \/ \E fn \in {"chdir", "get_attr", "set_attr"}, n \in Dirs : Attributes(fn, n, luck)
  <2>1. PICK n \in Names :
            \/ \E stray \in BOOLEAN : RemoveDir(n, stray, luck)
            \/ MakeDir(n, luck)
            \/ \E fn \in {"chdir", "get_attr", "set_attr"} : Attributes(fn, n, luck)
    BY <1>1, <1>2
  <2> QED
    BY <2>1, DirTypes
<1>3. CASE \E f \in Files, n \in Names, how \in {"exist", "create", "create_new", "extended"} :
               \E action \in ActionsOf(how), mode \in ModesOf(how) : OpenExtended(f, n, how, action, mode, luck)
  BY <1>3, OpenTypes
<1> QED
  BY <1>2, <1>3, FindFirstTypes, FindNextTypes, DeleteTypes, RenameTypes, CloseTypes, ReadTypes, WriteTypes DEF Call

(* Every step outside the redirector.                                      *)
LEMMA ElsewhereTypes ==
    ASSUME Typed, Elsewhere
    PROVE  Typed'
BY MoveTypes, DuplicateTypes, AbandonTypes, OtherDriveTypes, OtherProgramTypes, OtherClientTypes DEF Elsewhere

(* Every step of the redirector's system.                                  *)
LEMMA NextTypes ==
    ASSUME Typed, steps \in 0..MaxSteps, Next
    PROVE  Typed' /\ steps' \in 0..MaxSteps
<1>1. CASE \E pc \in Machines : Refused(pc) \/ \E luck \in Lucks : Install(pc, luck)
  <2>1. CASE \E pc \in Machines : Refused(pc)
    <3>1. UNCHANGED vars
      BY <2>1 DEF Refused
    <3> QED
      BY <3>1, StillTypes DEF vars
  <2>2. CASE \E luck \in Lucks : Map(luck)
    BY <2>2, MapTypes, MapStep
  <2> QED
    BY <1>1, <2>1, <2>2 DEF Install
<1>2. CASE host # 0 /\ steps < MaxSteps /\ steps' = steps + 1 /\ (Elsewhere \/ \E luck \in Lucks : Call(luck))
  <2>1. steps' \in 0..MaxSteps
    BY <1>2, RedirectorAssumption
  <2> QED
    BY <1>2, <2>1, ElsewhereTypes, CallTypes
<1>3. CASE NoEffect \/ ChainOn
  <2>1. UNCHANGED vars
    BY <1>3 DEF NoEffect, ChainOn
  <2> QED
    BY <2>1, StillTypes DEF vars
<1> QED
  BY <1>1, <1>2, <1>3 DEF Next

(* Every step of the copy.                                                 *)
LEMMA CopyTypes ==
    ASSUME Typed, CopyGoes
    PROVE  Typed' /\ CopyTyped'
<1>1. PICK T \in SUBSET HandleSet :
          /\ Effect(T) /\ lost' \subseteq lost \cup Programs \cup Files
          /\ list' = Watched(fs', {}) /\ lib' \in Libs /\ CopyOpen(copy')
          /\ UNCHANGED <<host, sda, dta, sft, steps, fileOf, slipped, sloppy>>
  BY DEF CopyGoes
<1>2. HistoryTyped'
  <2>1. list' \in [Programs -> Findings]
    BY <1>1, WatchedTyped DEF Typed
  <2> QED
    BY <1>1, <2>1 DEF Typed, HistoryTyped
<1>3. /\ dta' \in [Programs -> Records] /\ sda' \in Nat \cup {NoHandle} /\ host \in 0..Total
      /\ \A p \in Programs : dta'[p].live => dta'[p].handle \in HandleSet
      /\ sft' \in [Files -> OpenFiles]
  BY <1>1 DEF Typed, StateTyped
<1>4. Typed'
  BY <1>1, <1>2, <1>3, TypedOn
<1> QED
  BY <1>1, <1>4 DEF CopyTyped

(* Every step.                                                             *)
LEMMA TypesStep ==
    ASSUME Types, [CopyNext]_copyVars
    PROVE  Types'
<1>1. CASE NcopyStep
  <2>1. CopyGoes
    BY <1>1, NcopyGoes DEF Types
  <2>2. steps' = steps
    BY <2>1 DEF CopyGoes
  <2> QED
    BY <2>1, <2>2, CopyTypes DEF Types
<1>2. CASE RedirectorStep
  <2>1. Typed' /\ steps' \in 0..MaxSteps
    BY <1>2, NextTypes DEF Types, RedirectorStep
  <2>2. CopyTyped'
    <3> DEFINE b == copy.clean /\ Undisturbed /\ fs'.size = fs.size /\ fs'.exist = fs.exist
    <3>1. copy' = [copy EXCEPT !.clean = b] /\ lib' = lib
      BY <1>2 DEF RedirectorStep
    <3>2. copy \in Copies /\ b \in BOOLEAN
      BY DEF Types, CopyTyped, CopyOpen, Copies
    <3> HIDE DEF b
    <3>3. copy' \in Copies /\ copy'.pc = copy.pc /\ copy'.h = copy.h
      <4>1. copy' \in Copies
        BY <3>1, <3>2, CopySet
      <4>2. copy'.pc = copy.pc /\ copy'.h = copy.h
        BY <3>1, <3>2 DEF Copies
      <4> QED
        BY <4>1, <4>2
    <3> QED
      BY <3>1, <3>3 DEF Types, CopyTyped, CopyOpen
  <2> QED
    BY <2>1, <2>2 DEF Types
<1>3. CASE UNCHANGED copyVars
  <2>1. Typed'
    BY <1>3, StillTypes DEF copyVars, Types
  <2> QED
    BY <1>3, <2>1 DEF Types, CopyTyped, copyVars, vars
<1> QED
  BY <1>1, <1>2, <1>3 DEF CopyNext, AllDone

(* At the start.                                                           *)
LEMMA TypesInit ==
    ASSUME CopyInit
    PROVE  Types
<1>1. FirstNames \in SUBSET Names /\ FirstSize \in [Names -> Nat]
  BY RedirectorAssumption
<1>2. fs \in Libs /\ Quiet(fs)
  BY <1>1, NewFsTyped DEF CopyInit, Init
<1>3. StateTyped
  <2>1. NoSearch \in Records /\ ~NoSearch.live
    BY DEF NoSearch, Records
  <2>2. FreeSft \in OpenFiles
    BY FujiFsAssumption DEF FreeSft, OpenFiles, Modes
  <2>3. host \in 0..Total /\ faults \in 0..MaxFaults /\ sda \in Nat
    BY FujiFsAssumption, RedirectorAssumption DEF CopyInit, Init
  <2>4. dta = [p \in Programs |-> NoSearch] /\ sft = [f \in Files |-> FreeSft]
    BY DEF CopyInit, Init
  <2> QED
    BY <1>2, <2>1, <2>2, <2>3, <2>4 DEF StateTyped
<1>4. HistoryTyped
  <2>1. NoList \in Findings /\ Root \in Objects
    BY DEF NoList, Findings, Objects
  <2> QED
    BY <2>1 DEF CopyInit, Init, HistoryTyped
<1>5. steps \in 0..MaxSteps
  BY RedirectorAssumption DEF CopyInit, Init
<1>6. CopyTyped
  <2>1. {} \in SUBSET Names /\ [n \in Names |-> 0] \in [Names -> Nat]
    OBVIOUS
  <2> DEFINE none == {}
             zero == [n \in Names |-> 0]
  <2>2. none \in SUBSET Names /\ zero \in [Names -> Nat]
    BY <2>1
  <2> HIDE DEF none, zero
  <2>3. NewFs(none, zero) \in Libs
    BY <2>2, NewFsTyped
  <2>4. lib \in Libs
    BY <2>3 DEF CopyInit, Nowhere, none, zero
  <2>5. NoCopy \in Copies
    BY FujiFsAssumption, NcopyAssumption DEF NoCopy, Copies, Objects
  <2> QED
    BY <2>4, <2>5 DEF CopyTyped, CopyInit, CopyOpen, NoCopy
<1> QED
  BY <1>3, <1>4, <1>5, <1>6 DEF Types, Typed

(* Every variable is of the set Types gives it, in every reachable state: the *)
(* invariant behind TypeCorrect, and what the other proofs take for granted. *)
LEMMA TypesHold == CopySpec => []Types
<1>1. CopyInit => Types
  BY TypesInit
<1>2. Types /\ [CopyNext]_copyVars => Types'
  BY TypesStep
<1> QED
  BY <1>1, <1>2, PTL DEF CopySpec

(* The variables of the redirector have their types.                       *)
THEOREM TypeCorrect == CopySpec => []TypeOK
<1>1. Types => TypeOK
  <2> SUFFICES ASSUME Types PROVE TypeOK
    OBVIOUS
  <2>1. StateTyped /\ HistoryTyped /\ fs \in Libs /\ Quiet(fs)
    BY DEF Types, Typed, StateTyped
  <2>2. fs = Settled(fs)
    BY <2>1, QuietSettled
  <2>3. FsTypeOK(fs)
    <3>1. fs.table \in [HandleSet -> Handles] /\ fs.buf \in [1..BufSize -> Pieces] /\ fs.status \in Statuses
          /\ fs.dev \in [HandleSet -> Streams] /\ fs.exist \in SUBSET Names /\ fs.size \in [Names -> Nat]
      BY <2>1 DEF Libs
    <3>2. \A h \in HandleSet : /\ fs.dev[h].kind \in {"closed", "dir", "file"}
                               /\ fs.dev[h].obj \in Names \cup {Root} /\ fs.dev[h].at \in Nat
      <4> TAKE h \in HandleSet
      <4>1. fs.dev[h] \in [kind : Kinds, obj : Objects, text : Seq(Pieces), at : Nat]
        BY <3>1 DEF Streams
      <4> QED
        BY <4>1 DEF Kinds, Objects
    <3> QED
      BY <3>1, <3>2 DEF FsTypeOK, Handles, Statuses
  <2>4. \A p \in Programs : dta[p].live => HandleOf(p) \in HandleSet
    BY <2>1 DEF StateTyped, HandleOf
  <2> QED
    BY <2>1, <2>2, <2>3, <2>4 DEF StateTyped, HistoryTyped, OpenFiles, Types, TypeOK
<1> QED
  BY <1>1, TypesHold, PTL


-----------------------------------------------------------------------------
(* What a call answers.                                                    *)

(* Which call an answer is of.                                             *)
LEMMA CallAnswers ==
    ASSUME Typed, host # 0, NEW luck \in Lucks, Call(luck)
    PROVE  \/ answer'.fn \in {"find", "delete", "rename", "path", "close", "write"}
           \/ \E f \in Files, want \in Wants : ReadFile(f, want, luck) /\ answer'.fn = "read"
           \/ \E f \in Files, n \in Names, how \in {"exist", "create", "create_new", "extended"} :
                  /\ answer'.fn = how
                  /\ \E action \in ActionsOf(how), mode \in ModesOf(how) : OpenExtended(f, n, how, action, mode, luck)
<1>1. ASSUME NEW p \in Programs, NEW x \in Searches, FindFirst(p, x, luck) PROVE answer'.fn = "find"
  <2> DEFINE r == FindFirstIn(With(luck), x)
             l == Matching(Listing(fs, x.dir), Wanted(x))
  <2>1. SearchDone(p, r, luck, l, << >>, TRUE)
    BY <1>1 DEF FindFirst
  <2> HIDE DEF r, l
  <2> QED
    BY <2>1 DEF SearchDone, Return, Replied
<1>2. ASSUME NEW p \in Programs, FindNext(p, luck) PROVE answer'.fn = "find"
  <2> DEFINE r == FindNextIn(With(luck), dta[p])
  <2>1. SearchDone(p, r, luck, list[p].expect, list[p].seen, list[p].clean)
    BY <1>2 DEF FindNext
  <2> HIDE DEF r
  <2> QED
    BY <2>1 DEF SearchDone, Return, Replied
<1>3. ASSUME NEW x \in Searches, DeleteFiles(x, luck) PROVE answer'.fn = "delete"
  <2> DEFINE r == Deletion(With(luck), x)
  <2>1. WildcardDone("delete", r, luck)
    BY <1>3 DEF DeleteFiles
  <2> HIDE DEF r
  <2> QED
    BY <2>1 DEF WildcardDone, Return, Replied
<1>4. ASSUME NEW x \in Searches, RenameFiles(x, luck) PROVE answer'.fn = "rename"
  <2> DEFINE r == Renaming(FindFirstIn(With(luck), [x EXCEPT !.dirs = FALSE]))
  <2>1. WildcardDone("rename", r, luck)
    BY <1>4 DEF RenameFiles
  <2> HIDE DEF r
  <2> QED
    BY <2>1 DEF WildcardDone, Return, Replied
<1>5. ASSUME NEW n \in Dirs,
             \/ \E stray \in BOOLEAN : RemoveDir(n, stray, luck)
             \/ MakeDir(n, luck)
             \/ \E fn \in {"chdir", "get_attr", "set_attr"} : Attributes(fn, n, luck)
      PROVE  answer'.fn = "path"
  <2>1. n \in Names
    BY FujiFsAssumption
  <2>2. PICK s, err : PathCall(s, luck, err)
    BY <1>5, <2>1, DirTypes
  <2> QED
    BY <2>2 DEF PathCall, Return, Replied
<1>6. ASSUME NEW f \in Files, CloseFile(f, luck) PROVE answer'.fn = "close"
  <2> DEFINE s == IF sft[f].mode = "read" THEN With(luck) ELSE Close(With(luck), sft[f].handle)
  <2>1. Closing(f, sft[f], luck, s)
    BY <1>6 DEF CloseFile
  <2> HIDE DEF s
  <2> QED
    BY <2>1 DEF Closing, Return, Replied
<1>7. ASSUME NEW f \in Files, NEW want \in Wants, WriteFile(f, want, luck) PROVE answer'.fn = "write"
  BY <1>7, WriteRest DEF FileCall, Return
<1>8. ASSUME NEW f \in Files, NEW want \in Wants, ReadFile(f, want, luck) PROVE answer'.fn = "read"
  BY <1>8, ReadRest DEF FileCall, Return
<1>9. ASSUME NEW f \in Files, NEW n \in Names, NEW how \in {"exist", "create", "create_new", "extended"},
             NEW action \in ActionsOf(how), NEW mode \in ModesOf(how), OpenExtended(f, n, how, action, mode, luck)
      PROVE  answer'.fn = how
  BY <1>9, OpenRest
<1>10. CASE \/ \E n \in Dirs, stray \in BOOLEAN : RemoveDir(n, stray, luck)
            \/ \E n \in Dirs : MakeDir(n, luck)
            \/ \E fn \in {"chdir", "get_attr", "set_attr"}, n \in Dirs : Attributes(fn, n, luck)
  BY <1>5, <1>10
<1>11. CASE \E f \in Files, n \in Names, how \in {"exist", "create", "create_new", "extended"} :
               \E action \in ActionsOf(how), mode \in ModesOf(how) : OpenExtended(f, n, how, action, mode, luck)
  BY <1>9, <1>11
<1> QED
  BY <1>1, <1>2, <1>3, <1>4, <1>6, <1>7, <1>8, <1>10, <1>11 DEF Call

(* What happens elsewhere answers nothing and shortens no file.            *)
LEMMA ElsewhereSpares ==
    ASSUME Typed, Elsewhere
    PROVE  answer' = answer /\ \A n \in Names : fs'.size[n] >= fs.size[n]
<1>1. \A n \in Names : fs.size[n] \in Nat
  BY DEF Typed, StateTyped, Libs
<1>2. CASE fs' = fs /\ answer' = answer
  BY <1>1, <1>2
<1>3. CASE OtherProgram
  <2>1. answer' = answer /\ fs'.size = fs.size
    <3>1. fs \in Libs
      BY DEF Typed, StateTyped
    <3> QED
      BY <1>3, <3>1 DEF OtherProgram, Libs
  <2> QED
    BY <1>1, <2>1
<1>4. CASE \E n \in Names : OtherClient(n)
  BY <1>4, OtherClientStep DEF OtherClient
<1> QED
  BY <1>2, <1>3, <1>4 DEF Elsewhere, MoveFile, Duplicate, Abandon, OtherDrive

(* Only a read answers as one.                                             *)
LEMMA ReadsFitStep ==
    ASSUME Types, ReadFitsBuffer, [CopyNext]_copyVars
    PROVE  ReadFitsBuffer'
<1>1. CASE answer' = answer
  BY <1>1 DEF ReadFitsBuffer
<1>2. CASE answer'.fn # "read"
  BY <1>2 DEF ReadFitsBuffer
<1>3. CASE NcopyStep
  <2>1. answer' = Replied("none", "none", 0, 0)
    BY <1>3, NcopyGoes DEF Types, CopyGoes
  <2> QED
    BY <1>2, <2>1 DEF Replied
<1>4. CASE Next
  <2>1. CASE \E pc \in Machines : Refused(pc) \/ \E luck \in Lucks : Install(pc, luck)
    <3>1. answer' = answer
      BY <2>1, MapStep DEF Types, Refused, Install, vars
    <3> QED
      BY <1>1, <3>1
  <2>2. CASE host # 0 /\ (Elsewhere \/ \E luck \in Lucks : Call(luck))
    <3>1. CASE Elsewhere
      BY <1>1, <3>1, ElsewhereSpares DEF Types
    <3>2. CASE \E luck \in Lucks : Call(luck)
      <4>1. PICK luck \in Lucks : Call(luck)
        BY <3>2
      <4>2. \/ answer'.fn \in {"find", "delete", "rename", "path", "close", "write"}
            \/ \E f \in Files, want \in Wants : ReadFile(f, want, luck)
            \/ answer'.fn \in {"exist", "create", "create_new", "extended"}
        BY <2>2, <4>1, CallAnswers DEF Types
      <4>3. CASE \E f \in Files, want \in Wants : ReadFile(f, want, luck)
        BY <4>3, ReadStep DEF Types
      <4> QED
        BY <1>2, <4>2, <4>3
    <3> QED
      BY <2>2, <3>1, <3>2
  <2>3. CASE NoEffect \/ ChainOn
    BY <1>1, <2>3 DEF NoEffect, ChainOn, vars
  <2> QED
    BY <1>4, <2>1, <2>2, <2>3 DEF Next
<1>5. CASE UNCHANGED copyVars
  BY <1>1, <1>5 DEF copyVars, vars
<1> QED
  BY <1>3, <1>4, <1>5 DEF CopyNext, RedirectorStep, AllDone

(* read_file puts no more into the program's buffer than the program asked *)
(* for, whatever DOS did to the position in between, unless the file stood *)
(* behind the end that DOS knows of.                                       *)
THEOREM ReadsFit == CopySpec => []ReadFitsBuffer
<1>1. CopyInit => ReadFitsBuffer
  BY DEF CopyInit, Init, ReadFitsBuffer, Replied
<1>2. Types /\ ReadFitsBuffer /\ [CopyNext]_copyVars => ReadFitsBuffer'
  BY ReadsFitStep
<1> QED
  BY <1>1, <1>2, TypesHold, PTL DEF CopySpec

-----------------------------------------------------------------------------
(* Creating a file.                                                        *)

(* OPEN for writing empties only a file that can be made.                  *)
LEMMA MadeSpares ==
    ASSUME NEW s \in Libs, NEW n \in Names, ~(n \in s.exist /\ Exists(s, Parent[n]))
    PROVE  \A m \in s.exist : Made(s, n, "write").size[m] = s.size[m]
<1>1. CASE n \notin Dirs /\ Exists(s, Parent[n])
  <2> DEFINE a == [s EXCEPT !.exist = @ \cup {n}]
             b == [a EXCEPT !.size[n] = 0]
  <2>1. Made(s, n, "write") = b
    BY <1>1 DEF Made
  <2>2. s.size \in [Names -> Nat] /\ s.exist \subseteq Names
    BY DEF Libs
  <2>3. a.size = s.size /\ b.size = [a.size EXCEPT ![n] = 0]
    BY DEF Libs
  <2> HIDE DEF a, b
  <2> QED
    BY <1>1, <2>1, <2>2, <2>3
<1>2. CASE ~(n \notin Dirs /\ Exists(s, Parent[n]))
  BY <1>2 DEF Made
<1> QED
  BY <1>1, <1>2

(* A create that meets no trouble empties only a file that was not there.  *)
LEMMA OpenSpares ==
    ASSUME Typed, NEW f \in Files, NEW n \in Names, NEW action \in ActionsOf("create"), NEW mode \in ModesOf("create"),
           NEW luck \in Lucks, OpenExtended(f, n, "create", action, mode, luck), ~Troubled(luck)
    PROVE  \A m \in fs.exist : fs'.size[m] = fs.size[m]
<1>0. PICK fq \in BOOLEAN : fq = TRUE
  OBVIOUS
<1> DEFINE w == With(luck)
           s == Stat(w, host, n)
           refusal == OpenRefusal(s.err = "none", n, action, mode)
           t == Open(s, host, n, mode, fq)
           h == Lowest(Free(s))
<1>1. action = {"create"} /\ mode = "write"
  BY DEF ActionsOf, ModesOf
<1>2. BufSize >= 2
  BY FujiFsAssumption
<1>3. /\ s \in Libs /\ Free(s) = Free(fs) /\ SameShare(fs, s) /\ s.fuse = 0
      /\ n \in fs.exist /\ Exists(fs, Parent[n]) /\ Free(fs) # {} => s.err = "none"
  BY <1>2, LookedUp
<1>4. OpenKnowing(f, n, "create", action, mode, luck, s, refusal)
  BY DEF OpenExtended, OpenAfter
<1> HIDE DEF s
<1>5. CASE refusal # "none"
  <2>1. PICK err : Opened(f, n, "create", luck, s, 0, mode, err)
    BY <1>4, <1>5 DEF OpenKnowing
  <2>2. fs' = Settled(s)
    BY <2>1 DEF Opened, Return
  <2>3. SameShare(s, fs')
    BY <1>3, <2>2, SettledTyped DEF Ends
  <2> QED
    BY <1>3, <2>3 DEF SameShare
<1>6. CASE refusal = "none"
  <2> DEFINE size == IF s.err = "none" /\ "replace" \notin action THEN s.size[n] ELSE 0
  <2>1. s.err # "none"
    BY <1>1, <1>6 DEF OpenRefusal
  <2>2. ~(n \in s.exist /\ Exists(s, Parent[n])) \/ Free(s) = {}
    <3>1. s.exist = fs.exist /\ (Exists(s, Parent[n]) <=> Exists(fs, Parent[n]))
      BY <1>3 DEF SameShare, Exists
    <3> QED
      BY <1>3, <2>1, <3>1
  <2>3. OpenReturns(f, n, "create", mode, luck, size, t)
    <3> HIDE DEF refusal
    <3> QED
      BY <1>0, <1>4, <1>6 DEF OpenKnowing
  <2>4. Openable(n, mode) /\ host \in 0..Total
    BY <1>1 DEF Openable, Objects, Typed, StateTyped
  <2>5. /\ h = 0 => t \in Libs /\ Untouched(s, t)
        /\ h # 0 => h \in Free(s) /\ OpenedAt(s, t, h, n, mode)
        /\ fq => t.err # "service"
    BY <1>3, <2>4, OpenTyped
  <2>6. fs' = Settled(t)
    <3> HIDE DEF t, size
    <3> QED
      BY <2>3 DEF OpenReturns, Opened, Return
  <2> HIDE DEF t, h
  <2>7. t \in Libs /\ \A m \in s.exist : t.size[m] = s.size[m]
    <3>1. CASE h = 0
      BY <2>5, <3>1 DEF Untouched, SameShare
    <3>2. CASE h # 0
      <4>1. t \in Libs /\ SameShare(Made(s, n, mode), t)
        BY <1>0, <1>3, <2>5, <3>2 DEF OpenedAt
      <4>2. ~(n \in s.exist /\ Exists(s, Parent[n]))
        BY <2>2, <2>5, <3>2
      <4>3. \A m \in s.exist : Made(s, n, "write").size[m] = s.size[m]
        BY <1>3, <4>2, MadeSpares
      <4> QED
        BY <1>1, <4>1, <4>3 DEF SameShare
    <3> QED
      BY <3>1, <3>2
  <2>8. SameShare(t, fs')
    BY <2>6, <2>7, SettledTyped DEF Ends
  <2> QED
    BY <1>3, <2>7, <2>8 DEF SameShare
<1> QED
  BY <1>5, <1>6

(* Only a create answers as one.                                           *)
LEMMA CreateSparesStep ==
    ASSUME Types, [CopyNext]_copyVars
    PROVE  [\A n \in fs.exist : fs'.size[n] < fs.size[n] /\ answer'.fn = "create" => faults' > faults]_vars
<1>1. \A n \in fs.exist : n \in Names /\ fs.size[n] \in Nat
  BY DEF Types, Typed, StateTyped, Libs
<1>2. CASE answer'.fn # "create"
  BY <1>2
<1>3. CASE \A n \in fs.exist : fs'.size[n] >= fs.size[n]
  <2>1. ASSUME NEW n \in fs.exist, fs'.size[n] < fs.size[n] PROVE FALSE
    <3>1. fs'.size[n] \in Nat /\ fs.size[n] \in Nat
      BY <1>1, TypesStep DEF Types, Typed, StateTyped, Libs
    <3> QED
      BY <1>3, <2>1, <3>1
  <2> QED
    BY <2>1
<1>4. CASE NcopyStep
  <2>1. answer' = Replied("none", "none", 0, 0)
    BY <1>4, NcopyGoes DEF Types, CopyGoes
  <2> QED
    BY <1>2, <2>1 DEF Replied
<1>5. CASE Next
  <2>1. CASE \E pc \in Machines : Refused(pc) \/ \E luck \in Lucks : Install(pc, luck)
    <3>1. SameShare(fs, fs')
      BY <2>1, MapStep DEF Types, Refused, Install, vars, SameShare
    <3> QED
      BY <1>1, <1>3, <3>1 DEF SameShare
  <2>2. CASE host # 0 /\ (Elsewhere \/ \E luck \in Lucks : Call(luck))
    <3>1. CASE Elsewhere
      BY <1>1, <1>3, <3>1, ElsewhereSpares DEF Types
    <3>2. CASE \E luck \in Lucks : Call(luck)
      <4>1. PICK luck \in Lucks : Call(luck)
        BY <3>2
      <4>2. CASE answer'.fn = "create"
        <5>1. PICK f \in Files, n \in Names :
                  \E action \in ActionsOf("create"), mode \in ModesOf("create") :
                      OpenExtended(f, n, "create", action, mode, luck)
          BY <2>2, <4>1, <4>2, CallAnswers DEF Types
        <5>2. CASE Troubled(luck)
          <6>1. faults' > faults
            <7>1. PICK action, mode : OpenExtended(f, n, "create", action, mode, luck)
              BY <5>1
            <7> DEFINE s == Stat(With(luck), host, n)
                       refusal == OpenRefusal(s.err = "none", n, action, mode)
            <7>2. OpenKnowing(f, n, "create", action, mode, luck, s, refusal)
              BY <7>1 DEF OpenExtended, OpenAfter
            <7> HIDE DEF s, refusal
            <7>3. \E t, size, err : Opened(f, n, "create", luck, t, size, mode, err)
              <8>1. CASE refusal # "none"
                BY <7>2, <8>1 DEF OpenKnowing
              <8>2. CASE refusal = "none"
                <9> DEFINE size == IF s.err = "none" /\ "replace" \notin action THEN s.size[n] ELSE 0
                           o == Open(s, host, n, mode, TRUE)
                <9>1. OpenReturns(f, n, "create", mode, luck, size, o)
                  BY <7>2, <8>2 DEF OpenKnowing
                <9> HIDE DEF o, size
                <9> QED
                  BY <9>1 DEF OpenReturns
              <8> QED
                BY <8>1, <8>2
            <7>4. faults' = faults + (IF Troubled(luck) THEN 1 ELSE 0)
              BY <7>3 DEF Opened, Return
            <7>5. faults \in Nat
              BY RedirectorAssumption DEF Types, Typed, StateTyped
            <7> HIDE DEF Troubled
            <7> QED
              BY <5>2, <7>4, <7>5
          <6> QED
            BY <6>1
        <5>3. CASE ~Troubled(luck)
          <6>1. \A m \in fs.exist : fs'.size[m] = fs.size[m]
            BY <5>1, <5>3, OpenSpares DEF Types
          <6> QED
            BY <1>1, <1>3, <6>1
        <5> QED
          BY <5>2, <5>3
      <4> QED
        BY <1>2, <4>2
    <3> QED
      BY <2>2, <3>1, <3>2
  <2>3. CASE NoEffect \/ ChainOn
    BY <2>3 DEF NoEffect, ChainOn
  <2> QED
    BY <1>5, <2>1, <2>2, <2>3 DEF Next
<1>6. CASE UNCHANGED copyVars
  BY <1>6 DEF copyVars
<1> QED
  BY <1>4, <1>5, <1>6 DEF CopyNext, RedirectorStep, AllDone

(* Creating a file, unless it must be a new one, empties none that exists: *)
(* if fujifs_stat meets no trouble it finds every entry of a directory     *)
(* that exists, and without a free handle to look with there is none to    *)
(* open with either.                                                       *)
THEOREM CreatesSpare == CopySpec => CreateSpares
<1>1. Types /\ [CopyNext]_copyVars =>
          [\A n \in fs.exist : fs'.size[n] < fs.size[n] /\ answer'.fn = "create" => faults' > faults]_vars
  BY CreateSparesStep
<1> QED
  BY <1>1, TypesHold, PTL DEF CopySpec, CreateSpares


-----------------------------------------------------------------------------
(* Who holds a handle.                                                     *)

(* An open file or a search whose handle is its own: the handle is marked, *)
(* and its device streams what was opened, as far as the program has got.  *)
Sound(o) ==
    /\ IsOpen(fs, HandleOf(o))
    /\ o \in Programs \ slipped => fs.dev[HandleOf(o)].kind = "dir" /\ fs.dev[HandleOf(o)].obj = dta[o].dir
    /\ o \in Files \ slipped =>
           /\ sft[o].mode = "read" => fs.dev[HandleOf(o)].kind = "file" /\ fs.dev[HandleOf(o)].obj = fileOf[o]
           /\ Standing(fs, sft[o], sft[o].last)
(* The inductive invariant of the handles: nobody is live without a host, what *)
(* a live search or file has is sound, and no two have the same.           *)
Apart == \A o, q \in Live \ lost : HandleOf(o) = HandleOf(q) => o = q
Holders ==
    /\ host = 0 => Live = {}
    /\ \A o \in Live \ lost : Sound(o)
    /\ Apart

(* The call in hand leaves what is kept of o alone.                        *)
Unmoved(o) ==
    /\ o \in Programs => dta'[o].handle = dta[o].handle /\ dta'[o].dir = dta[o].dir
    /\ o \in Files => /\ sft'[o].handle = sft[o].handle /\ sft'[o].mode = sft[o].mode
                      /\ sft'[o].last = sft[o].last /\ fileOf'[o] = fileOf[o]
    /\ o \in slipped => o \in slipped'

(* What a call leaves of the objects other than those acting.              *)
Spared(A, T) == \A o \in (Live \ lost)' \ A : o \in Live \ lost /\ HandleOf(o) \notin T /\ Unmoved(o)

(* What it makes of the one acting: it goes on with its handle, or has one *)
(* that was free, or that the call has taken from its holders.             *)
Acted(A, T) ==
    \A o \in A \cap (Live \ lost)' :
        /\ Sound(o)'
        /\ HandleOf(o)' \in Free(fs) \cup T \/ (o \in Live \ lost /\ HandleOf(o)' = HandleOf(o))

(* A live owner is a search or a file.                                     *)
LEMMA LiveIs ==
    ASSUME NEW o \in Live
    PROVE  \/ o \in Programs /\ o \notin Files /\ HandleOf(o) = dta[o].handle
           \/ o \in Files /\ o \notin Programs /\ HandleOf(o) = sft[o].handle
BY RedirectorAssumption DEF Live, HandleOf

(* Who does not move keeps the handle.                                     *)
LEMMA KeptHandle ==
    ASSUME NEW o \in Live, Unmoved(o)
    PROVE  HandleOf(o)' = HandleOf(o)
BY RedirectorAssumption DEF Live, HandleOf, Unmoved

(* A step that does not reach a handle does it no harm.                    *)
LEMMA Unharmed ==
    ASSUME Typed, NEW T, Effect(T), NEW o \in Live, Sound(o), HandleOf(o) \notin T, Unmoved(o)
    PROVE  Sound(o)'
<1> DEFINE h == HandleOf(o)
<1>1. h \in HandleSet /\ fs.table[h].open
  BY DEF Sound, IsOpen
<1>2. h \notin Free(fs) \cup T
  BY <1>1 DEF Free
<1>3. fs'.table[h] = fs.table[h] /\ fs'.dev[h] = fs.dev[h]
  BY <1>1, <1>2 DEF Effect, Reaches, Elsewise
<1>4. HandleOf(o)' = h
  BY KeptHandle
<1> HIDE DEF h
<1>5. IsOpen(fs', h)
  BY <1>1, <1>3 DEF IsOpen
<1>6. CASE o \in Programs /\ o \notin Files
  <2>1. o \in Programs \ slipped => fs.dev[h].kind = "dir" /\ fs.dev[h].obj = dta[o].dir
    BY DEF Sound, h
  <2>2. dta'[o].dir = dta[o].dir /\ (o \in slipped => o \in slipped')
    BY <1>6 DEF Unmoved
  <2> QED
    BY <1>3, <1>4, <1>5, <1>6, <2>1, <2>2 DEF Sound
<1>7. CASE o \in Files /\ o \notin Programs
  <2> DEFINE e == sft[o]
             g == sft'[o]
  <2>1. o \notin slipped => /\ e.mode = "read" => fs.dev[h].kind = "file" /\ fs.dev[h].obj = fileOf[o]
                            /\ Standing(fs, e, e.last)
    BY <1>7 DEF Sound, h
  <2>2. g.handle = e.handle /\ g.mode = e.mode /\ g.last = e.last /\ fileOf'[o] = fileOf[o] /\ (o \in slipped => o \in slipped')
    BY <1>7 DEF Unmoved
  <2>3. e.handle = h
    BY <1>7, LiveIs DEF h
  <2> HIDE DEF e, g
  <2>4. Standing(fs, e, e.last) => Standing(fs', g, g.last)
    BY <1>1, <1>3, <1>5, <2>2, <2>3 DEF Standing, IsOpen
  <2>5. o \notin slipped' => /\ g.mode = "read" => fs'.dev[h].kind = "file" /\ fs'.dev[h].obj = fileOf'[o]
                             /\ Standing(fs', g, g.last)
    BY <1>3, <2>1, <2>2, <2>4
  <2> QED
    BY <1>4, <1>5, <1>7, <2>5 DEF Sound, g
<1> QED
  BY <1>6, <1>7, LiveIs

(* A step with one owner acting, and those robbed of their handles lost.   *)
LEMMA HoldersStep ==
    ASSUME Typed, Holders, NEW T, Effect(T), host # 0 \/ (Live = {})', NEW A, \A a, b \in A : a = b,
           Spared(A, T), Acted(A, T)
    PROVE  Holders'
<1> DEFINE N == (Live \ lost)'
<1>1. \A o \in N \ A : /\ o \in Live \ lost /\ HandleOf(o) \notin T /\ HandleOf(o) \notin Free(fs)
                       /\ HandleOf(o)' = HandleOf(o) /\ Sound(o)'
  <2> TAKE o \in N \ A
  <2>1. o \in Live \ lost /\ o \in Live /\ HandleOf(o) \notin T /\ Unmoved(o)
    BY DEF Spared
  <2>2. Sound(o)
    BY <2>1 DEF Holders
  <2>3. HandleOf(o)' = HandleOf(o)
    BY <2>1, KeptHandle
  <2>4. HandleOf(o) \notin Free(fs)
    BY <2>2 DEF Sound, IsOpen, Free
  <2> QED
    BY <2>1, <2>2, <2>3, <2>4, Unharmed
<1>2. \A o \in A \cap N : /\ Sound(o)'
                          /\ HandleOf(o)' \in Free(fs) \cup T \/ (o \in Live \ lost /\ HandleOf(o)' = HandleOf(o))
  BY DEF Acted
<1>3. \A o \in N : Sound(o)'
  BY <1>1, <1>2
<1>4. ASSUME NEW o \in N, NEW q \in N, HandleOf(o)' = HandleOf(q)'
      PROVE  o = q
  <2>1. CASE o \in A /\ q \in A
    BY <2>1
  <2>2. CASE o \notin A /\ q \notin A
    BY <1>1, <1>4, <2>2 DEF Holders, Apart
  <2>3. CASE o \in A /\ q \notin A
    BY <1>1, <1>2, <1>4, <2>3 DEF Holders, Apart
  <2>4. CASE o \notin A /\ q \in A
    BY <1>1, <1>2, <1>4, <2>4 DEF Holders, Apart
  <2> QED
    BY <2>1, <2>2, <2>3, <2>4
<1>5. Apart'
  BY <1>4 DEF Apart
<1>6. host' = 0 => Live' = {}
  BY DEF Effect
<1> QED
  BY <1>3, <1>5, <1>6 DEF Holders


(* A step of a search.                                                     *)
LEMMA SearchHolders ==
    ASSUME Typed, Typed', Holders, host # 0, NEW p \in Programs, NEW T, Effect(T), NEW rec \in Records, NEW on \in BOOLEAN,
           dta' = [dta EXCEPT ![p] = IF on THEN rec ELSE NoSearch], UNCHANGED <<sft, fileOf>>,
           slipped \ {p} \subseteq slipped', lost \ {p} \subseteq lost',
           \A o \in Live \ {p} : HandleOf(o) \in T => o \in lost',
           on /\ p \notin lost' => /\ fs'.table[rec.handle].open /\ rec.handle \in HandleSet
                                   /\ p \notin slipped' => fs'.dev[rec.handle].kind = "dir" /\ fs'.dev[rec.handle].obj = rec.dir
                                   /\ rec.handle \in Free(fs) \cup T \/ (p \in Live \ lost /\ rec.handle = HandleOf(p))
    PROVE  Holders'
<1> DEFINE A == {p}
<1>1. \A a, b \in A : a = b
  OBVIOUS
<1>2. /\ dta'[p] = IF on THEN rec ELSE NoSearch
      /\ \A o \in Programs \ {p} : dta'[o] = dta[o]
  BY DEF Typed, StateTyped
<1>3. ~NoSearch.live
  BY DEF NoSearch
<1>4. Spared(A, T)
  <2> SUFFICES ASSUME NEW o \in (Live \ lost)', o # p
               PROVE  o \in Live \ lost /\ HandleOf(o) \notin T /\ Unmoved(o)
    BY DEF Spared
  <2>1. o \in Live /\ o \notin lost'
    BY <1>2 DEF Live
  <2>2. Unmoved(o)
    BY <1>2 DEF Unmoved
  <2> QED
    BY <2>1, <2>2
<1>5. Acted(A, T)
  <2> SUFFICES ASSUME p \in (Live \ lost)'
               PROVE  /\ Sound(p)'
                      /\ HandleOf(p)' \in Free(fs) \cup T \/ (p \in Live \ lost /\ HandleOf(p)' = HandleOf(p))
    BY DEF Acted
  <2>1. p \notin Files /\ p \notin lost'
    BY RedirectorAssumption
  <2>2. dta'[p].live
    BY <2>1 DEF Live
  <2>3. on /\ dta'[p] = rec
    BY <1>2, <1>3, <2>2
  <2>4. HandleOf(p)' = rec.handle
    BY <2>3 DEF HandleOf
  <2>5. /\ fs'.table[rec.handle].open /\ rec.handle \in HandleSet
        /\ p \notin slipped' => fs'.dev[rec.handle].kind = "dir" /\ fs'.dev[rec.handle].obj = rec.dir
        /\ rec.handle \in Free(fs) \cup T \/ (p \in Live \ lost /\ rec.handle = HandleOf(p))
    BY <2>1, <2>3
  <2>6. Sound(p)'
    BY <2>1, <2>3, <2>4, <2>5 DEF Sound, IsOpen
  <2> QED
    BY <2>4, <2>5, <2>6
<1> HIDE DEF A
<1> QED
  BY <1>1, <1>4, <1>5, HoldersStep

(* A search whose handle find_first takes away is robbed.                  *)
LEMMA RobbedAre ==
    ASSUME NEW o \in Live, HandleOf(o) \in Stolen(fs)
    PROVE  o \in Robbed
BY DEF Stolen, Robbed, Holding

(* Subfunction 1B,                                                         *)
LEMMA FindFirstHolders ==
    ASSUME Typed, Holders, host # 0, NEW p \in Programs, NEW x \in Searches, NEW luck \in Lucks, FindFirst(p, x, luck)
    PROVE  Holders'
<1> DEFINE r == FindFirstIn(With(luck), x)
           T == Stolen(fs)
           rec == r.rec
           on == r.err = "none"
<1>1. Typed'
  BY FindFirstTypes
<1>2. /\ r.s \in Libs /\ Ends(r.s, fs') /\ Reaches(T) /\ host' = host /\ faults' \in 0..MaxFaults
      /\ SameSearch(Search(x), rec)
      /\ on => /\ rec.handle \in HandleSet /\ rec.handle \in Free(fs) \cup T
               /\ fs'.table[rec.handle].open
               /\ ~Troubled(luck) => fs'.dev[rec.handle].kind = "dir" /\ fs'.dev[rec.handle].obj = x.dir
  BY FindFirstStep
<1>3. Effect(T)
  BY <1>2 DEF Effect, Ends
<1>4. rec \in Records /\ rec.dir = x.dir
  BY <1>2 DEF SameSearch, Search
<1>5. /\ dta' = [dta EXCEPT ![p] = IF on THEN rec ELSE NoSearch] /\ UNCHANGED <<sft, fileOf>>
      /\ lost' = (lost \cup Robbed) \ {p}
      /\ slipped' = IF Troubled(luck) THEN slipped \cup {p} ELSE slipped \ {p}
  BY DEF FindFirst, SearchDone
<1> HIDE DEF r, T, rec, on
<1>6. on \in BOOLEAN
  BY DEF on
<1>7. \A o \in Live \ {p} : HandleOf(o) \in T => o \in lost'
  BY <1>5, RobbedAre DEF T
<1>8. slipped \ {p} \subseteq slipped' /\ lost \ {p} \subseteq lost' /\ (p \notin slipped' => ~Troubled(luck))
  BY <1>5
<1>9. on /\ p \notin lost' => /\ fs'.table[rec.handle].open /\ rec.handle \in HandleSet
                              /\ p \notin slipped' => fs'.dev[rec.handle].kind = "dir" /\ fs'.dev[rec.handle].obj = rec.dir
                              /\ rec.handle \in Free(fs) \cup T \/ (p \in Live \ lost /\ rec.handle = HandleOf(p))
  BY <1>2, <1>4, <1>8
<1>10. dta' = [dta EXCEPT ![p] = IF on THEN rec ELSE NoSearch] /\ UNCHANGED <<sft, fileOf>>
  BY <1>5
<1> QED
  BY <1>1, <1>3, <1>4, <1>6, <1>7, <1>8, <1>9, <1>10, SearchHolders

(* and 1C.                                                                 *)
LEMMA FindNextHolders ==
    ASSUME Typed, Holders, host # 0, NEW p \in Programs, NEW luck \in Lucks, FindNext(p, luck)
    PROVE  Holders'
<1> DEFINE r == FindNextIn(With(luck), dta[p])
           h == dta[p].handle
           T == {h}
           rec == r.rec
           on == r.err = "none"
<1>1. Typed'
  BY FindNextTypes
<1>2. /\ r.s \in Libs /\ Ends(r.s, fs') /\ Reaches(T) /\ host' = host /\ faults' \in 0..MaxFaults
      /\ h \in HandleSet /\ SameSearch(dta[p], rec)
      /\ on => rec.handle = h /\ SameStream(fs.dev[h], fs'.dev[h]) /\ fs'.table[h].open = fs.table[h].open
  BY FindNextStep
<1>3. Effect(T)
  BY <1>2 DEF Effect, Ends
<1>4. rec \in Records /\ rec.dir = dta[p].dir
  BY <1>2 DEF SameSearch
<1>5. /\ dta' = [dta EXCEPT ![p] = IF on THEN rec ELSE NoSearch] /\ UNCHANGED <<sft, fileOf>>
      /\ lost' = lost \cup (Holding(HandleOf(p)) \ {p})
      /\ slipped' = (IF Troubled(luck) THEN slipped \cup {p} ELSE slipped) /\ p \in Live
  BY DEF FindNext, SearchDone, Live
<1>6. HandleOf(p) = h
  BY DEF HandleOf
<1> HIDE DEF r, T, rec, on, h
<1>7. on \in BOOLEAN
  BY DEF on
<1>8. \A o \in Live \ {p} : HandleOf(o) \in T => o \in lost'
  BY <1>5, <1>6 DEF T, Holding
<1>9. slipped \ {p} \subseteq slipped' /\ lost \ {p} \subseteq lost'
  BY <1>5
<1>10. on /\ p \notin lost' => /\ fs'.table[rec.handle].open /\ rec.handle \in HandleSet
                               /\ p \notin slipped' => fs'.dev[rec.handle].kind = "dir" /\ fs'.dev[rec.handle].obj = rec.dir
                               /\ rec.handle \in Free(fs) \cup T \/ (p \in Live \ lost /\ rec.handle = HandleOf(p))
  <2> SUFFICES ASSUME on, p \notin lost'
               PROVE  /\ fs'.table[rec.handle].open /\ rec.handle \in HandleSet
                      /\ p \notin slipped' => fs'.dev[rec.handle].kind = "dir" /\ fs'.dev[rec.handle].obj = rec.dir
                      /\ rec.handle \in Free(fs) \cup T \/ (p \in Live \ lost /\ rec.handle = HandleOf(p))
    OBVIOUS
  <2>1. p \in Live \ lost /\ (p \notin slipped' => p \notin slipped)
    BY <1>5
  <2>2. Sound(p)
    BY <2>1 DEF Holders
  <2>3. fs.table[h].open /\ (p \notin slipped' => fs.dev[h].kind = "dir" /\ fs.dev[h].obj = dta[p].dir)
    BY <1>6, <2>1, <2>2 DEF Sound, IsOpen
  <2>4. /\ rec.handle = h /\ h \in HandleSet /\ fs'.table[h].open
        /\ fs'.dev[h].kind = fs.dev[h].kind /\ fs'.dev[h].obj = fs.dev[h].obj
    BY <1>2, <2>3 DEF SameStream
  <2> QED
    BY <1>4, <1>6, <2>1, <2>3, <2>4
<1>11. dta' = [dta EXCEPT ![p] = IF on THEN rec ELSE NoSearch] /\ UNCHANGED <<sft, fileOf>>
  BY <1>5
<1> QED
  BY <1>1, <1>3, <1>4, <1>7, <1>8, <1>9, <1>10, <1>11, SearchHolders

(* A step in which nobody's handle changes.                                *)
LEMMA StayHolders ==
    ASSUME Typed, Holders, host # 0 \/ Live = {}, NEW T, Effect(T), UNCHANGED <<dta, sft, fileOf>>, slipped \subseteq slipped', lost \subseteq lost',
           \A o \in Live : HandleOf(o) \in T => o \in lost'
    PROVE  Holders'
<1> PICK A : A = {}
  OBVIOUS
<1>1. \A a, b \in A : a = b
  OBVIOUS
<1>2. Live' = Live /\ (host # 0 \/ (Live = {})')
  BY DEF Live
<1>3. Spared(A, T)
  BY <1>2 DEF Spared, Unmoved
<1>4. Acted(A, T)
  BY DEF Acted
<1> QED
  BY <1>1, <1>2, <1>3, <1>4, HoldersStep


(* A step of a file.                                                       *)
LEMMA FileHolders ==
    ASSUME Typed, Holders, host # 0, NEW f \in Files, NEW T, Effect(T), NEW e \in OpenFiles,
           sft' = [sft EXCEPT ![f] = e], UNCHANGED dta, \A g \in Files \ {f} : fileOf'[g] = fileOf[g],
           slipped \ {f} \subseteq slipped', lost \ {f} \subseteq lost',
           \A o \in Live \ {f} : HandleOf(o) \in T => o \in lost',
           f \in (Live \ lost)' =>
               /\ IsOpen(fs', e.handle)
               /\ f \notin slipped' =>
                      /\ e.mode = "read" => fs'.dev[e.handle].kind = "file" /\ fs'.dev[e.handle].obj = fileOf'[f]
                      /\ Standing(fs', e, e.last)
               /\ e.handle \in Free(fs) \cup T \/ (f \in Live \ lost /\ e.handle = sft[f].handle)
    PROVE  Holders'
<1> DEFINE A == {f}
<1>1. \A a, b \in A : a = b
  OBVIOUS
<1>2. sft'[f] = e /\ \A o \in Files \ {f} : sft'[o] = sft[o]
  BY DEF Typed, StateTyped
<1>3. f \notin Programs
  BY RedirectorAssumption
<1>4. HandleOf(f)' = e.handle /\ HandleOf(f) = sft[f].handle
  BY <1>2, <1>3 DEF HandleOf
<1>5. Spared(A, T)
  <2> SUFFICES ASSUME NEW o \in (Live \ lost)', o # f
               PROVE  o \in Live \ lost /\ HandleOf(o) \notin T /\ Unmoved(o)
    BY DEF Spared
  <2>1. o \in Live /\ o \notin lost'
    BY <1>2 DEF Live
  <2>2. Unmoved(o)
    BY <1>2 DEF Unmoved
  <2> QED
    BY <2>1, <2>2
<1>6. Acted(A, T)
  <2> SUFFICES ASSUME f \in (Live \ lost)'
               PROVE  /\ Sound(f)'
                      /\ HandleOf(f)' \in Free(fs) \cup T \/ (f \in Live \ lost /\ HandleOf(f)' = HandleOf(f))
    BY DEF Acted
  <2>1. /\ IsOpen(fs', e.handle)
        /\ f \notin slipped' =>
               /\ e.mode = "read" => fs'.dev[e.handle].kind = "file" /\ fs'.dev[e.handle].obj = fileOf'[f]
               /\ Standing(fs', e, e.last)
        /\ e.handle \in Free(fs) \cup T \/ (f \in Live \ lost /\ e.handle = sft[f].handle)
    OBVIOUS
  <2>2. Sound(f)'
    BY <1>2, <1>3, <1>4, <2>1 DEF Sound
  <2> QED
    BY <1>4, <2>1, <2>2
<1> HIDE DEF A
<1> QED
  BY <1>1, <1>5, <1>6, HoldersStep

(* The rest of the functions.                                              *)
LEMMA OpenHolders ==
    ASSUME Typed, Holders, host # 0, NEW f \in Files, NEW n \in Names, NEW how \in {"exist", "create", "create_new", "extended"},
           NEW action \in ActionsOf(how), NEW mode \in ModesOf(how), NEW luck \in Lucks,
           OpenExtended(f, n, how, action, mode, luck)
    PROVE  Holders'
<1>1. PICK T : T = {}
  OBVIOUS
<1>2. Effect(T) /\ (Opens(f, n, luck) \/ UNCHANGED <<sft, fileOf, lost, slipped>>)
  BY <1>1, OpenStep
<1>3. UNCHANGED dta
  BY OpenRest
<1>4. CASE UNCHANGED <<sft, fileOf, lost, slipped>>
  BY <1>1, <1>2, <1>3, <1>4, StayHolders
<1>5. CASE Opens(f, n, luck)
  <2>1. PICK h \in Free(fs), size \in Nat, how2 \in Modes :
            /\ sft' = [sft EXCEPT ![f] = [count |-> 1, handle |-> h, pos |-> 0, last |-> 0, size |-> size, mode |-> how2]]
            /\ fileOf' = [fileOf EXCEPT ![f] = n] /\ lost' = lost \ {f}
            /\ slipped' = (IF Troubled(luck) THEN slipped \cup {f} ELSE slipped \ {f})
            /\ fs'.table[h].open
            /\ ~Troubled(luck) => /\ fs'.dev[h].at = 0
                                  /\ how2 = "read" => fs'.dev[h].kind = "file" /\ fs'.dev[h].obj = n
    BY <1>5 DEF Opens
  <2> DEFINE e == [count |-> 1, handle |-> h, pos |-> 0, last |-> 0, size |-> size, mode |-> how2]
  <2>2. h \in HandleSet /\ h \in 0..Total
    BY DEF Free, HandleSet
  <2>3. e \in OpenFiles /\ e.handle = h /\ e.mode = how2 /\ e.last = 0
    BY <2>2 DEF OpenFiles
  <2>4. fileOf'[f] = n /\ \A g \in Files \ {f} : fileOf'[g] = fileOf[g]
    BY <2>1 DEF Typed, HistoryTyped
  <2>5. sft' = [sft EXCEPT ![f] = e] /\ slipped \ {f} \subseteq slipped' /\ lost \ {f} \subseteq lost'
        /\ (f \notin slipped' => ~Troubled(luck))
    BY <2>1
  <2> HIDE DEF e
  <2>6. Standing(fs', e, e.last) \/ f \in slipped'
    BY <2>1, <2>3, <2>5 DEF Standing
  <2>7. IsOpen(fs', e.handle) /\ e.handle \in Free(fs) \cup T
    BY <2>1, <2>2, <2>3 DEF IsOpen
  <2>8. f \notin slipped' /\ e.mode = "read" => fs'.dev[e.handle].kind = "file" /\ fs'.dev[e.handle].obj = fileOf'[f]
    BY <2>1, <2>3, <2>4, <2>5
  <2>9. \A o \in Live \ {f} : HandleOf(o) \in T => o \in lost'
    BY <1>1
  <2> QED
    BY <1>2, <1>3, <2>3, <2>4, <2>5, <2>6, <2>7, <2>8, <2>9, FileHolders
<1> QED
  BY <1>2, <1>4, <1>5

(* Subfunction 06: the other duplicates lose their handle.                *)
LEMMA CloseHolders ==
    ASSUME Typed, Holders, host # 0, NEW f \in Files, NEW luck \in Lucks, CloseFile(f, luck)
    PROVE  Holders'
<1> DEFINE e == sft[f]
           w == With(luck)
           s == IF e.mode = "read" THEN w ELSE Close(w, e.handle)
           T == Given(e)
           g == IF e.count = 1 THEN FreeSft ELSE [e EXCEPT !.count = e.count - 1]
<1>1. Effect(T) /\ Typed'
  BY CloseStep, CloseTypes
<1>2. Closing(f, e, luck, s) /\ e.count > 0 /\ e \in OpenFiles
  BY DEF CloseFile, Typed, StateTyped
<1> HIDE DEF s
<1>3. /\ sft' = [sft EXCEPT ![f] = g] /\ UNCHANGED dta
      /\ lost' = (IF e.mode # "read" /\ IsOpen(fs, e.handle) THEN lost \cup Holding(e.handle) ELSE lost)
                     \ (IF e.count = 1 THEN {f} ELSE {})
      /\ slipped' = IF e.count = 1 THEN slipped \ {f} ELSE slipped
      /\ fileOf' = IF e.count = 1 THEN [fileOf EXCEPT ![f] = Root] ELSE fileOf
  BY <1>2 DEF Closing
<1>4. \A o \in Files \ {f} : fileOf'[o] = fileOf[o]
  BY <1>3 DEF Typed, HistoryTyped
<1>5. slipped \ {f} \subseteq slipped' /\ lost \ {f} \subseteq lost'
  BY <1>3
<1>6. \A o \in Live \ {f} : HandleOf(o) \in T => o \in lost'
  BY <1>3 DEF Given, Holding
<1>7. g \in OpenFiles /\ sft'[f] = g
  <2>1. sft' \in [Files -> OpenFiles] /\ sft \in [Files -> OpenFiles]
    BY <1>1 DEF Typed, StateTyped
  <2> HIDE DEF g
  <2>2. sft'[f] = g
    BY <1>3, <2>1
  <2> QED
    BY <2>1, <2>2
<1>8. ASSUME f \in (Live \ lost)'
      PROVE  /\ IsOpen(fs', g.handle)
             /\ f \notin slipped' =>
                    /\ g.mode = "read" => fs'.dev[g.handle].kind = "file" /\ fs'.dev[g.handle].obj = fileOf'[f]
                    /\ Standing(fs', g, g.last)
             /\ g.handle \in Free(fs) \cup T \/ (f \in Live \ lost /\ g.handle = sft[f].handle)
  <2>1. f \notin Programs /\ f \notin lost'
    BY <1>8, RedirectorAssumption
  <2>2. g.count > 0
    BY <1>7, <1>8, <2>1 DEF Live
  <2>3. e.count # 1
    BY <2>2 DEF FreeSft
  <2>4. g.handle = e.handle /\ g.mode = e.mode /\ g.last = e.last
    BY <1>2, <2>3 DEF OpenFiles
  <2>5. f \in Live
    BY <1>2 DEF Live
  <2>6. f \notin lost /\ (f \notin Holding(e.handle) \/ T = {})
    BY <1>3, <2>1, <2>3 DEF Given
  <2>7. HandleOf(f) = e.handle
    BY <2>1 DEF HandleOf
  <2>8. T = {} /\ f \in Live \ lost
    BY <2>5, <2>6, <2>7 DEF Holding
  <2>9. Sound(f) /\ slipped' = slipped /\ fileOf' = fileOf
    BY <1>3, <2>3, <2>8 DEF Holders
  <2> HIDE DEF g, e, T
  <2>10. Unmoved(f)
    BY <1>7, <2>1, <2>4, <2>9 DEF Unmoved, e
  <2>11. Sound(f)'
    BY <1>1, <2>5, <2>8, <2>9, <2>10, Unharmed
  <2>12. HandleOf(f)' = g.handle /\ sft'[f] = g
    BY <1>7, <2>1 DEF HandleOf
  <2> QED
    BY <2>1, <2>4, <2>7, <2>8, <2>11, <2>12 DEF Sound, e
<1> HIDE DEF g, e, T
<1> QED
  BY <1>1, <1>3, <1>4, <1>5, <1>6, <1>7, <1>8, FileHolders

(* A transfer keeps its file's handle sound, whoever shares it loses it.  *)
LEMMA TransferHolders ==
    ASSUME Typed, Holders, host # 0, NEW f \in Files, NEW luck \in Lucks, NEW T, T = {sft[f].handle}, Effect(T), Transfers(f, luck),
           UNCHANGED <<dta, fileOf>>, sft[f].count > 0
    PROVE  Holders'
<1> DEFINE h == sft[f].handle
<1>1. PICK e \in OpenFiles :
          /\ sft' = [sft EXCEPT ![f] = e]
          /\ e.count = sft[f].count /\ e.mode = sft[f].mode /\ e.handle = h
          /\ slipped' = (IF Troubled(luck) THEN slipped \cup {f} ELSE slipped)
          /\ lost' = lost \cup (Holding(h) \ {f})
          /\ fs'.table = fs.table
          /\ h \in HandleSet => SameStream(fs.dev[h], fs'.dev[h])
          /\ ~Troubled(luck) /\ Standing(fs, e, sft[f].last) => Standing(fs', e, e.last)
  BY DEF Transfers
<1>2. f \notin Programs /\ f \in Live /\ HandleOf(f) = h
  BY RedirectorAssumption DEF HandleOf, Live
<1>3. slipped \ {f} \subseteq slipped' /\ lost \ {f} \subseteq lost' /\ (f \notin slipped' => ~Troubled(luck) /\ f \notin slipped)
  BY <1>1
<1>4. \A o \in Live \ {f} : HandleOf(o) \in T => o \in lost'
  BY <1>1 DEF Holding
<1>5. ASSUME f \in (Live \ lost)'
      PROVE  /\ IsOpen(fs', e.handle)
             /\ f \notin slipped' =>
                    /\ e.mode = "read" => fs'.dev[e.handle].kind = "file" /\ fs'.dev[e.handle].obj = fileOf'[f]
                    /\ Standing(fs', e, e.last)
             /\ e.handle \in Free(fs) \cup T \/ (f \in Live \ lost /\ e.handle = sft[f].handle)
  <2>1. f \in Live \ lost
    BY <1>1, <1>2, <1>5
  <2>2. Sound(f)
    BY <2>1 DEF Holders
  <2>3. /\ IsOpen(fs, h)
        /\ f \notin slipped =>
               /\ sft[f].mode = "read" => fs.dev[h].kind = "file" /\ fs.dev[h].obj = fileOf[f]
               /\ Standing(fs, sft[f], sft[f].last)
    BY <1>2, <2>2 DEF Sound
  <2>4. h \in HandleSet /\ IsOpen(fs', h)
    BY <1>1, <2>3 DEF IsOpen
  <2>5. fs'.dev[h].kind = fs.dev[h].kind /\ fs'.dev[h].obj = fs.dev[h].obj
    BY <1>1, <2>4 DEF SameStream
  <2>6. f \notin slipped => Standing(fs, e, sft[f].last)
    BY <1>1, <2>3 DEF Standing
  <2> QED
    BY <1>1, <1>3, <2>1, <2>3, <2>4, <2>5, <2>6
<1>6. sft' = [sft EXCEPT ![f] = e] /\ UNCHANGED dta /\ \A o \in Files \ {f} : fileOf'[o] = fileOf[o]
  BY <1>1
<1> QED
  BY <1>3, <1>4, <1>5, <1>6, FileHolders


(* Subfunctions 11 and 13 rob whom find_first robs.                       *)
LEMMA WildcardHolders ==
    ASSUME Typed, Holders, host # 0, NEW x \in Searches, NEW luck \in Lucks,
           DeleteFiles(x, luck) \/ RenameFiles(x, luck)
    PROVE  Holders'
<1> PICK T : T = Stolen(fs)
  OBVIOUS
<1>1. PICK fn, r : WildcardDone(fn, r, luck)
  BY DEF DeleteFiles, RenameFiles
<1>2. Effect(T)
  BY DeleteStep, RenameStep DEF Effect, Ends
<1>3. lost' = lost \cup Robbed /\ UNCHANGED <<dta, sft, fileOf, slipped>>
  BY <1>1 DEF WildcardDone
<1>4. \A o \in Live : HandleOf(o) \in T => o \in lost'
  BY <1>3, RobbedAre
<1> QED
  BY <1>2, <1>3, <1>4, StayHolders

(* Calls on a path disturb nobody.                                        *)
LEMMA DirHolders ==
    ASSUME Typed, Holders, host # 0, NEW luck \in Lucks, NEW n \in Names,
           \/ \E stray \in BOOLEAN : RemoveDir(n, stray, luck)
           \/ MakeDir(n, luck)
           \/ \E fn \in {"chdir", "get_attr", "set_attr"} : Attributes(fn, n, luck)
    PROVE  Holders'
<1> PICK T : T = {}
  OBVIOUS
<1>1. Effect(T) /\ \E s, err : PathCall(s, luck, err)
  BY DirTypes
<1>2. UNCHANGED <<dta, sft, fileOf, lost, slipped>>
  BY <1>1 DEF PathCall
<1>3. \A o \in Live : HandleOf(o) \in T => o \in lost'
  OBVIOUS
<1> QED
  BY <1>1, <1>2, <1>3, StayHolders

(* Subfunctions 08 and 09.                                                *)
LEMMA ReadHolders ==
    ASSUME Typed, Holders, host # 0, NEW f \in Files, NEW want \in Wants, NEW luck \in Lucks,
           ReadFile(f, want, luck) \/ WriteFile(f, want, luck)
    PROVE  Holders'
<1> PICK T : T = {sft[f].handle}
  OBVIOUS
<1>1. Effect(T) /\ Transfers(f, luck)
  BY ReadStep, WriteStep
<1>2. UNCHANGED <<dta, fileOf>>
  BY ReadRest, WriteRest, FileCallRest
<1>3. sft[f].count > 0
  BY DEF ReadFile, WriteFile
<1> QED
  BY <1>1, <1>2, <1>3, TransferHolders

(* Every call.                                                             *)
LEMMA CallHolders ==
    ASSUME Typed, Holders, host # 0, NEW luck \in Lucks, Call(luck)
    PROVE  Holders'
<1>1. Dirs \subseteq Names
  BY FujiFsAssumption
<1>2. CASE \/ \E n \in Dirs, stray \in BOOLEAN : RemoveDir(n, stray, luck)
           \/ \E n \in Dirs : MakeDir(n, luck)
           \/ \E fn \in {"chdir", "get_attr", "set_attr"}, n \in Dirs : Attributes(fn, n, luck)
  <2>1. PICK n \in Names :
            \/ \E stray \in BOOLEAN : RemoveDir(n, stray, luck)
            \/ MakeDir(n, luck)
            \/ \E fn \in {"chdir", "get_attr", "set_attr"} : Attributes(fn, n, luck)
    BY <1>1, <1>2
  <2> QED
    BY <2>1, DirHolders
<1>3. CASE \E f \in Files, n \in Names, how \in {"exist", "create", "create_new", "extended"} :
               \E action \in ActionsOf(how), mode \in ModesOf(how) : OpenExtended(f, n, how, action, mode, luck)
  BY <1>3, OpenHolders
<1>4. CASE \/ \E f \in Files, want \in Wants : ReadFile(f, want, luck)
           \/ \E f \in Files, want \in Wants : WriteFile(f, want, luck)
  BY <1>4, ReadHolders
<1>5. CASE \/ \E x \in Searches : DeleteFiles(x, luck)
           \/ \E x \in Searches : RenameFiles(x, luck)
  BY <1>5, WildcardHolders
<1> QED
  BY <1>2, <1>3, <1>4, <1>5, FindFirstHolders, FindNextHolders, CloseHolders DEF Call

(* DOS moves a file or gives it a second handle: what the redirector keeps *)
(* of it stays.                                                            *)
LEMMA EntryHolders ==
    ASSUME Typed, Holders, host # 0, NEW f \in Files, NEW e \in OpenFiles, sft' = [sft EXCEPT ![f] = e],
           e.handle = sft[f].handle, e.mode = sft[f].mode, e.last = sft[f].last, sft[f].count > 0,
           NEW T, T = {}, Effect(T), UNCHANGED <<dta, fileOf, lost, slipped>>
    PROVE  Holders'
<1>1. f \notin Programs /\ f \in Live /\ HandleOf(f) = e.handle
  BY RedirectorAssumption DEF HandleOf, Live
<1>2. sft'[f] = e
  BY DEF Typed, StateTyped
<1>3. ASSUME f \in (Live \ lost)'
      PROVE  /\ IsOpen(fs', e.handle)
             /\ f \notin slipped' =>
                    /\ e.mode = "read" => fs'.dev[e.handle].kind = "file" /\ fs'.dev[e.handle].obj = fileOf'[f]
                    /\ Standing(fs', e, e.last)
             /\ e.handle \in Free(fs) \cup T \/ (f \in Live \ lost /\ e.handle = sft[f].handle)
  <2>1. f \in Live \ lost
    BY <1>1, <1>3
  <2>2. Sound(f)
    BY <2>1 DEF Holders
  <2>3. Unmoved(f)
    BY <1>1, <1>2 DEF Unmoved
  <2>4. Sound(f)'
    BY <1>1, <2>2, <2>3, Unharmed
  <2>5. HandleOf(f)' = e.handle
    BY <1>1, <1>2 DEF HandleOf
  <2> QED
    BY <1>1, <1>2, <2>1, <2>4, <2>5 DEF Sound
<1>4. \A o \in Live \ {f} : HandleOf(o) \in T => o \in lost'
  OBVIOUS
<1> QED
  BY <1>3, <1>4, FileHolders

(* What DOS makes of the entry of a file it moves or duplicates.          *)
LEMMA MovedEntry ==
    ASSUME NEW f \in Files, sft \in [Files -> OpenFiles], sft' \in [Files -> OpenFiles],
           (\E pos \in Moves : MoveFile(f, pos)) \/ Duplicate(f)
    PROVE  \E e \in OpenFiles :
               /\ sft' = [sft EXCEPT ![f] = e] /\ e.count > 0
               /\ e.handle = sft[f].handle /\ e.mode = sft[f].mode /\ e.last = sft[f].last
<1> DEFINE g == sft[f]
<1>1. g \in OpenFiles
  OBVIOUS
<1>2. CASE \E pos \in Moves : MoveFile(f, pos)
  <2>1. PICK pos \in Moves : MoveFile(f, pos)
    BY <1>2
  <2>5. g.count > 0
    BY <2>1 DEF MoveFile
  <2> DEFINE e == [g EXCEPT !.pos = pos]
  <2>2. sft' = [sft EXCEPT ![f] = e]
    BY <2>1 DEF MoveFile
  <2>3. e.handle = g.handle /\ e.mode = g.mode /\ e.last = g.last /\ e.count > 0
    BY <1>1, <2>5 DEF OpenFiles
  <2> HIDE DEF e
  <2>4. sft'[f] = e
    BY <2>2
  <2> QED
    BY <2>2, <2>3, <2>4
<1>3. CASE Duplicate(f)
  <2>5. g.count > 0
    BY <1>1, <1>3 DEF Duplicate
  <2> DEFINE e == [g EXCEPT !.count = 2]
  <2>2. sft' = [sft EXCEPT ![f] = e]
    BY <1>3 DEF Duplicate
  <2>3. e.handle = g.handle /\ e.mode = g.mode /\ e.last = g.last /\ e.count > 0
    BY <1>1, <2>5 DEF OpenFiles
  <2> HIDE DEF e
  <2>4. sft'[f] = e
    BY <2>2
  <2> QED
    BY <2>2, <2>3, <2>4
<1> QED
  BY <1>2, <1>3

(* Steps that do not call the library.                                     *)
LEMMA MoveHolders ==
    ASSUME Typed, Holders, host # 0, NEW f \in Files, (\E pos \in Moves : MoveFile(f, pos)) \/ Duplicate(f)
    PROVE  Holders'
<1> PICK T : T = {}
  OBVIOUS
<1>1. Typed' /\ Effect(T)
  BY MoveTypes, DuplicateTypes
<1>2. UNCHANGED <<dta, fileOf, lost, slipped>> /\ sft[f].count > 0
  BY DEF MoveFile, Duplicate, history
<1>3. sft \in [Files -> OpenFiles] /\ sft' \in [Files -> OpenFiles]
  BY <1>1 DEF Typed, StateTyped
<1>4. PICK e \in OpenFiles :
          /\ sft' = [sft EXCEPT ![f] = e]
          /\ e.handle = sft[f].handle /\ e.mode = sft[f].mode /\ e.last = sft[f].last
  BY <1>3, MovedEntry
<1> QED
  BY <1>1, <1>2, <1>4, EntryHolders

(* A search given up keeps its handle and is nobody's any more.           *)
LEMMA AbandonHolders ==
    ASSUME Typed, Holders, host # 0, NEW p \in Programs, Abandon(p)
    PROVE  Holders'
<1> PICK T : T = {}
  OBVIOUS
<1> PICK no \in BOOLEAN : no = FALSE
  OBVIOUS
<1>1. Typed' /\ Effect(T)
  BY AbandonTypes
<1>2. /\ dta' = [dta EXCEPT ![p] = NoSearch] /\ UNCHANGED <<sft, fileOf>>
      /\ lost' = lost \ {p} /\ slipped' = slipped \ {p}
  BY DEF Abandon
<1>3. PICK rec \in Records : TRUE
  BY DEF Typed, StateTyped
<1>4. dta' = [dta EXCEPT ![p] = IF no THEN rec ELSE NoSearch]
  BY <1>2
<1>5. slipped \ {p} \subseteq slipped' /\ lost \ {p} \subseteq lost' /\ \A o \in Live \ {p} : HandleOf(o) \in T => o \in lost'
  BY <1>2
<1> QED
  BY <1>1, <1>2, <1>4, <1>5, SearchHolders

(* Every step outside the redirector.                                      *)
LEMMA ElsewhereHolders ==
    ASSUME Typed, Holders, host # 0, Elsewhere
    PROVE  Holders'
<1>1. CASE \E cluster \in Clusters : OtherDrive(cluster)
  <2>1. PICK T : T = {}
    OBVIOUS
  <2>2. Effect(T) /\ UNCHANGED <<dta, sft, history>>
    BY <1>1, <2>1, OtherDriveTypes DEF OtherDrive
  <2>3. \A o \in Live : HandleOf(o) \in T => o \in lost'
    BY <2>1
  <2> QED
    BY <2>2, <2>3, StayHolders DEF history
<1>2. CASE OtherProgram
  <2>1. PICK T : T = {1}
    OBVIOUS
  <2>2. Effect(T) /\ lost' = lost \cup Holding(1) /\ UNCHANGED <<dta, sft, fileOf, slipped>>
    BY <1>2, <2>1, OtherProgramTypes DEF OtherProgram
  <2>3. \A o \in Live : HandleOf(o) \in T => o \in lost'
    BY <2>1, <2>2 DEF Holding
  <2> QED
    BY <2>2, <2>3, StayHolders
<1>3. CASE \E n \in Names : OtherClient(n)
  <2>1. PICK T : T = {}
    OBVIOUS
  <2>2. Effect(T) /\ UNCHANGED <<dta, sft, history>>
    BY <1>3, <2>1, OtherClientTypes DEF OtherClient
  <2>3. \A o \in Live : HandleOf(o) \in T => o \in lost'
    BY <2>1
  <2> QED
    BY <2>2, <2>3, StayHolders DEF history
<1> QED
  BY <1>1, <1>2, <1>3, MoveHolders, AbandonHolders DEF Elsewhere

(* Nothing happens before a drive is mapped.                               *)
LEMMA NotMappedHolders ==
    ASSUME Holders, host = 0, UNCHANGED <<dta, sft, lost>>
    PROVE  Holders'
<1>1. Live = {} /\ Live' = {}
  BY DEF Holders, Live
<1> QED
  BY <1>1 DEF Holders, Apart

(* Every step of the redirector's system.                                  *)
LEMMA NextHolders ==
    ASSUME Typed, Holders, Next
    PROVE  Holders'
<1>1. CASE \E pc \in Machines : Refused(pc) \/ \E luck \in Lucks : Install(pc, luck)
  <2>1. CASE \E pc \in Machines : Refused(pc)
    <3>1. host = 0 /\ UNCHANGED <<dta, sft, lost>>
      BY <2>1 DEF Refused, vars, history
    <3> QED
      BY <3>1, NotMappedHolders
  <2>2. CASE \E luck \in Lucks : Map(luck)
    <3>1. host = 0 /\ UNCHANGED <<dta, sft, lost>>
      BY <2>2, MapStep DEF history
    <3> QED
      BY <3>1, NotMappedHolders
  <2> QED
    BY <1>1, <2>1, <2>2 DEF Install
<1>2. CASE host # 0 /\ steps < MaxSteps /\ steps' = steps + 1 /\ (Elsewhere \/ \E luck \in Lucks : Call(luck))
  BY <1>2, ElsewhereHolders, CallHolders
<1>3. CASE NoEffect \/ ChainOn
  <2>1. UNCHANGED vars
    BY <1>3 DEF NoEffect, ChainOn
  <2> QED
    BY <2>1 DEF vars, history, Holders, Apart, Live, HandleOf, Sound
<1> QED
  BY <1>1, <1>2, <1>3 DEF Next

(* The copy program has handles of its own library.                        *)
LEMMA CopyHolders ==
    ASSUME Typed, Holders, CopyGoes
    PROVE  Holders'
<1>1. PICK T \in SUBSET HandleSet :
          /\ Effect(T) /\ \A h \in T : Holding(h) \subseteq lost'
          /\ lost \subseteq lost' /\ UNCHANGED <<host, dta, sft, fileOf, slipped>>
  BY DEF CopyGoes
<1>2. \A o \in Live : HandleOf(o) \in T => o \in lost'
  BY <1>1 DEF Holding
<1>3. host # 0 \/ Live = {}
  BY DEF Holders
<1> QED
  BY <1>1, <1>2, <1>3, StayHolders

(* In every reachable state the handles of the searches and files that have not *)
(* lost theirs are open, their own and on what they were opened for.       *)
LEMMA HoldersInductive == CopySpec => []Holders
<1>1. CopyInit => Holders
  BY DEF CopyInit, Init, Holders, Apart, Live, NoSearch, FreeSft
<1>2. Types /\ Holders /\ [CopyNext]_copyVars => Holders'
  <2> SUFFICES ASSUME Types, Holders, [CopyNext]_copyVars PROVE Holders'
    OBVIOUS
  <2>1. Typed
    BY DEF Types
  <2>2. CASE NcopyStep
    BY <2>1, <2>2, NcopyGoes, CopyHolders DEF Types
  <2>3. CASE RedirectorStep
    BY <2>1, <2>3, NextHolders DEF RedirectorStep
  <2>4. CASE UNCHANGED copyVars
    BY <2>4 DEF copyVars, vars, history, Holders, Apart, Live, HandleOf, Sound
  <2> QED
    BY <2>2, <2>3, <2>4 DEF CopyNext, AllDone
<1> QED
  BY <1>1, <1>2, TypesHold, PTL DEF CopySpec

(* An open file or a running search whose handle no other caller has been  *)
(* given, used or closed holds it alone, marked open, on a device that     *)
(* streams what was opened if its own calls met no trouble.                *)
THEOREM HandlesKept == CopySpec => []HoldersHold
<1>1. Holders => HoldersHold
  <2> SUFFICES ASSUME Holders, NEW o \in Live \ lost
               PROVE  /\ IsOpen(fs, HandleOf(o))
                      /\ Holding(HandleOf(o)) \ lost = {o}
                      /\ o \in Programs \ slipped => fs.dev[HandleOf(o)].kind = "dir" /\ fs.dev[HandleOf(o)].obj = dta[o].dir
                      /\ o \in Files \ slipped /\ sft[o].mode = "read" =>
                             fs.dev[HandleOf(o)].kind = "file" /\ fs.dev[HandleOf(o)].obj = fileOf[o]
    BY DEF HoldersHold
  <2>1. Sound(o)
    BY DEF Holders
  <2>2. Holding(HandleOf(o)) \ lost = {o}
    BY DEF Holders, Apart, Holding
  <2> QED
    BY <2>1, <2>2 DEF Sound
<1> QED
  BY <1>1, HoldersInductive, PTL

(* The stream of an open file stands where the file table says the last    *)
(* transfer ended: read_file and write_file seek only when DOS has moved.  *)
THEOREM StreamsFollow == CopySpec => []StreamInStep
<1>1. Holders => StreamInStep
  <2> SUFFICES ASSUME Holders, NEW f \in Files, sft[f].count > 0, f \notin lost \cup slipped,
                      sft[f].handle < Total \/ sft[f].mode = "read", fs.dev[sft[f].handle].kind = "file"
               PROVE  fs.dev[sft[f].handle].at = sft[f].last
    BY DEF StreamInStep
  <2>1. f \in Live \ lost /\ f \notin Programs /\ HandleOf(f) = sft[f].handle
    BY RedirectorAssumption DEF Live, HandleOf
  <2>2. Sound(f)
    BY <2>1 DEF Holders
  <2> QED
    BY <2>1, <2>2 DEF Sound, Standing
<1> QED
  BY <1>1, HoldersInductive, PTL

-----------------------------------------------------------------------------
(* The pool of handles.                                                    *)

(* The handles of the live, and the inductive invariant of the pool: until *)
(* one has been left open, every handle that is marked is one of theirs.   *)
Used == {HandleOf(o) : o \in Live}
Balanced == sloppy = {} => HandleSet \ Free(fs) \subseteq Used

(* A handle that was somebody's is still, or has been given back.          *)
Accounted == Used \cap HandleSet \subseteq Used' \cup Free(fs')

(* A step that takes handles for the live only, and gives back what nobody *)
(* holds any more.                                                         *)
LEMMA BalancedStep ==
    ASSUME Balanced, NEW H,
           sloppy' = {} => sloppy = {} /\ Takes(H) /\ H \subseteq Used' \cup Free(fs') /\ Accounted
    PROVE  Balanced'
<1> SUFFICES ASSUME sloppy' = {}, NEW h \in HandleSet \ Free(fs')
             PROVE  h \in Used'
  BY DEF Balanced
<1>1. Takes(H) /\ H \subseteq Used' \cup Free(fs') /\ Accounted /\ HandleSet \ Free(fs) \subseteq Used
  BY DEF Balanced
<1>2. CASE h \in Free(fs)
  BY <1>1, <1>2 DEF Takes
<1>3. CASE h \notin Free(fs)
  BY <1>1, <1>3 DEF Accounted
<1> QED
  BY <1>2, <1>3

(* When only one owner acts, only its handle is to be accounted for.       *)
LEMMA OthersAccounted ==
    ASSUME NEW a, \A o \in Live \ {a} : o \in Live' /\ HandleOf(o)' = HandleOf(o),
           a \in Live /\ HandleOf(a) \in HandleSet => HandleOf(a) \in Used' \cup Free(fs')
    PROVE  Accounted
<1> SUFFICES ASSUME NEW o \in Live, HandleOf(o) \in HandleSet
             PROVE  HandleOf(o) \in Used' \cup Free(fs')
  BY DEF Accounted, Used
<1>1. CASE o = a
  BY <1>1
<1>2. CASE o # a
  <2>1. o \in Live' /\ HandleOf(o)' = HandleOf(o)
    BY <1>2
  <2>2. HandleOf(o)' \in Used'
    BY <2>1 DEF Used
  <2> QED
    BY <2>1, <2>2
<1> QED
  BY <1>1, <1>2

(* Nobody begins, ends or changes the handle.                              *)
LEMMA StayBalanced ==
    ASSUME Balanced, UNCHANGED <<dta, sft>>, sloppy' = {} => sloppy = {} /\ Takes({})
    PROVE  Balanced'
<1> PICK H : H = {}
  OBVIOUS
<1>1. Used' = Used
  BY DEF Used, Live, HandleOf
<1>2. Accounted
  BY <1>1 DEF Accounted
<1> QED
  BY <1>2, BalancedStep

(* A step of a search, which goes on with rec or is over.                  *)
LEMMA SearchBalanced ==
    ASSUME Typed, Balanced, NEW p \in Programs, NEW rec \in Records, NEW on \in BOOLEAN, rec.live,
           dta' = [dta EXCEPT ![p] = IF on THEN rec ELSE NoSearch], UNCHANGED <<sft, sloppy>>,
           Takes(IF on THEN {rec.handle} ELSE {}),
           p \in Live => IF on THEN rec.handle = HandleOf(p) ELSE HandleOf(p) \in Free(fs')
    PROVE  Balanced'
<1> DEFINE H == IF on THEN {rec.handle} ELSE {}
<1>1. /\ dta'[p] = IF on THEN rec ELSE NoSearch
      /\ \A o \in Programs \ {p} : dta'[o] = dta[o]
  BY DEF Typed, StateTyped
<1>2. \A o \in Live \ {p} : o \in Live' /\ HandleOf(o)' = HandleOf(o)
  BY <1>1 DEF Live, HandleOf
<1>3. on => rec.handle \in Used'
  <2> SUFFICES ASSUME on PROVE rec.handle \in Used'
    OBVIOUS
  <2>1. p \in Live' /\ HandleOf(p)' = rec.handle
    BY <1>1 DEF Live, HandleOf
  <2> QED
    BY <2>1 DEF Used
<1>4. Accounted
  BY <1>2, <1>3, OthersAccounted
<1>5. Takes(H) /\ H \subseteq Used' \cup Free(fs')
  BY <1>3
<1> HIDE DEF H
<1> QED
  BY <1>4, <1>5, BalancedStep

(* A step of a file, whose entry is e then.                                *)
LEMMA FileBalanced ==
    ASSUME Typed, Balanced, NEW f \in Files, NEW e \in OpenFiles, sft' = [sft EXCEPT ![f] = e], UNCHANGED dta,
           NEW H, H \subseteq (IF e.count > 0 THEN {e.handle} ELSE {}),
           sloppy' = {} => /\ sloppy = {} /\ Takes(H)
                           /\ sft[f].count > 0 /\ sft[f].handle \in HandleSet =>
                                 sft[f].handle \in Free(fs') \/ (e.count > 0 /\ e.handle = sft[f].handle)
    PROVE  Balanced'
<1>1. sft'[f] = e /\ \A o \in Files \ {f} : sft'[o] = sft[o]
  BY DEF Typed, StateTyped
<1>2. f \notin Programs
  BY RedirectorAssumption
<1>3. \A o \in Live \ {f} : o \in Live' /\ HandleOf(o)' = HandleOf(o)
  BY <1>1 DEF Live, HandleOf
<1>4. HandleOf(f) = sft[f].handle /\ (f \in Live => sft[f].count > 0)
  BY <1>2 DEF Live, HandleOf
<1>5. e.count > 0 => e.handle \in Used'
  <2> SUFFICES ASSUME e.count > 0 PROVE e.handle \in Used'
    OBVIOUS
  <2>1. f \in Live' /\ HandleOf(f)' = e.handle
    BY <1>1, <1>2 DEF Live, HandleOf
  <2> QED
    BY <2>1 DEF Used
<1>6. ASSUME sloppy' = {} PROVE Accounted
  <2>1. f \in Live /\ HandleOf(f) \in HandleSet => HandleOf(f) \in Used' \cup Free(fs')
    BY <1>4, <1>5, <1>6
  <2> QED
    BY <1>3, <2>1, OthersAccounted
<1>7. H \subseteq Used'
  BY <1>5
<1> QED
  BY <1>6, <1>7, BalancedStep

(* Subfunction 1B,                                                         *)
LEMMA FindFirstBalanced ==
    ASSUME Typed, Balanced, NEW p \in Programs, NEW x \in Searches, NEW luck \in Lucks, FindFirst(p, x, luck)
    PROVE  Balanced'
<1> DEFINE r == FindFirstIn(With(luck), x)
           rec == r.rec
           on == r.err = "none"
<1>1. SameSearch(Search(x), rec) /\ Takes(IF on THEN {rec.handle} ELSE {})
  BY FindFirstStep
<1>2. rec \in Records /\ rec.live
  BY <1>1 DEF SameSearch, Search
<1>3. dta' = [dta EXCEPT ![p] = IF on THEN rec ELSE NoSearch] /\ UNCHANGED <<sft, sloppy>> /\ ~dta[p].live
  BY DEF FindFirst, SearchDone
<1>4. p \notin Live
  BY <1>3, RedirectorAssumption DEF Live
<1> HIDE DEF rec, on, r
<1>5. on \in BOOLEAN
  BY DEF on
<1> QED
  BY <1>1, <1>2, <1>3, <1>4, <1>5, SearchBalanced

(* and 1C.                                                                 *)
LEMMA FindNextBalanced ==
    ASSUME Typed, Balanced, NEW p \in Programs, NEW luck \in Lucks, FindNext(p, luck)
    PROVE  Balanced'
<1> DEFINE r == FindNextIn(With(luck), dta[p])
           h == dta[p].handle
           rec == r.rec
           on == r.err = "none"
<1>1. /\ SameSearch(dta[p], rec) /\ Takes({})
      /\ IF on THEN rec.handle = h ELSE h \in Free(fs')
  BY FindNextStep
<1>2. dta' = [dta EXCEPT ![p] = IF on THEN rec ELSE NoSearch] /\ UNCHANGED <<sft, sloppy>> /\ dta[p].live
  BY DEF FindNext, SearchDone
<1>3. rec \in Records /\ rec.live /\ HandleOf(p) = h
  BY <1>1, <1>2 DEF SameSearch, HandleOf
<1> HIDE DEF rec, on, r, h
<1>4. on \in BOOLEAN /\ Takes(IF on THEN {rec.handle} ELSE {})
  BY <1>1 DEF on, Takes
<1> QED
  BY <1>1, <1>2, <1>3, <1>4, SearchBalanced

(* Subfunctions 11 and 13 keep a handle only when they are broken off.     *)
LEMMA WildcardBalanced ==
    ASSUME Typed, Balanced, host # 0, NEW x \in Searches, NEW luck \in Lucks,
           DeleteFiles(x, luck) \/ RenameFiles(x, luck)
    PROVE  Balanced'
<1>1. sloppy' = {} => Takes({})
  BY DeleteStep, RenameStep
<1>2. PICK fn, r : WildcardDone(fn, r, luck)
  BY DEF DeleteFiles, RenameFiles
<1>3. UNCHANGED <<dta, sft>> /\ (sloppy' = {} => sloppy = {})
  BY <1>2 DEF WildcardDone
<1> QED
  BY <1>1, <1>3, StayBalanced

(* Calls on a path give back what they use.                                *)
LEMMA DirBalanced ==
    ASSUME Typed, Balanced, host # 0, NEW luck \in Lucks, NEW n \in Names,
           \/ \E stray \in BOOLEAN : RemoveDir(n, stray, luck)
           \/ MakeDir(n, luck)
           \/ \E fn \in {"chdir", "get_attr", "set_attr"} : Attributes(fn, n, luck)
    PROVE  Balanced'
<1>1. Takes({}) /\ \E s, err : PathCall(s, luck, err)
  BY DirTypes
<1>2. UNCHANGED <<dta, sft, sloppy>>
  BY <1>1 DEF PathCall
<1> QED
  BY <1>1, <1>2, StayBalanced

(* A handle is taken for the file that is opened, or none.                 *)
LEMMA OpenBalanced ==
    ASSUME Typed, Balanced, NEW f \in Files, NEW n \in Names, NEW how \in {"exist", "create", "create_new", "extended"},
           NEW action \in ActionsOf(how), NEW mode \in ModesOf(how), NEW luck \in Lucks,
           OpenExtended(f, n, how, action, mode, luck)
    PROVE  Balanced'
<1>1. Opens(f, n, luck) \/ (Takes({}) /\ UNCHANGED <<sft, fileOf, lost, slipped>>)
  BY OpenStep
<1>2. UNCHANGED <<dta, sloppy>>
  BY OpenRest
<1>3. CASE Takes({}) /\ UNCHANGED sft
  BY <1>2, <1>3, StayBalanced
<1>4. CASE Opens(f, n, luck)
  <2>1. PICK h \in Free(fs), size \in Nat, how2 \in Modes :
            /\ sft' = [sft EXCEPT ![f] = [count |-> 1, handle |-> h, pos |-> 0, last |-> 0, size |-> size, mode |-> how2]]
            /\ Takes({h})
    BY <1>4 DEF Opens
  <2> DEFINE e == [count |-> 1, handle |-> h, pos |-> 0, last |-> 0, size |-> size, mode |-> how2]
             H == {h}
  <2>2. h \in 0..Total
    BY DEF Free, HandleSet
  <2>3. e \in OpenFiles /\ e.handle = h /\ e.count > 0
    BY <2>2 DEF OpenFiles
  <2>4. sft' = [sft EXCEPT ![f] = e] /\ Takes(H)
    BY <2>1
  <2>5. ~(sft[f].count > 0)
    BY DEF OpenExtended
  <2> HIDE DEF e
  <2>6. H \subseteq (IF e.count > 0 THEN {e.handle} ELSE {})
    BY <2>3
  <2> HIDE DEF H
  <2> QED
    BY <1>2, <2>3, <2>4, <2>5, <2>6, FileBalanced
<1> QED
  BY <1>1, <1>3, <1>4

(* Subfunction 06 frees the handle of the file, unless it was opened for   *)
(* reading.                                                                *)
LEMMA CloseBalanced ==
    ASSUME Typed, Balanced, NEW f \in Files, NEW luck \in Lucks, CloseFile(f, luck)
    PROVE  Balanced'
<1> DEFINE e == sft[f]
           w == With(luck)
           s == IF e.mode = "read" THEN w ELSE Close(w, e.handle)
           g == IF e.count = 1 THEN FreeSft ELSE [e EXCEPT !.count = e.count - 1]
<1>1. /\ Typed'
      /\ sloppy' = {} => Takes({}) /\ (e.handle \in HandleSet => e.handle \in Free(fs'))
  BY CloseStep, CloseTypes
<1>2. Closing(f, e, luck, s)
  BY DEF CloseFile
<1> HIDE DEF s
<1>3. sft' = [sft EXCEPT ![f] = g] /\ UNCHANGED dta /\ (sloppy' = {} => sloppy = {})
  BY <1>2 DEF Closing
<1> HIDE DEF g
<1>4. g \in OpenFiles
  <2>1. sft' \in [Files -> OpenFiles] /\ sft \in [Files -> OpenFiles]
    BY <1>1 DEF Typed, StateTyped
  <2>2. sft'[f] = g
    BY <1>3, <2>1
  <2> QED
    BY <2>1, <2>2
<1> PICK H : H = {}
  OBVIOUS
<1>5. H \subseteq (IF g.count > 0 THEN {g.handle} ELSE {})
  OBVIOUS
<1> QED
  BY <1>1, <1>3, <1>4, <1>5, FileBalanced

(* A transfer leaves the table of handles alone.                           *)
LEMMA ReadBalanced ==
    ASSUME Typed, Balanced, NEW f \in Files, NEW want \in Wants, NEW luck \in Lucks,
           ReadFile(f, want, luck) \/ WriteFile(f, want, luck)
    PROVE  Balanced'
<1>1. Transfers(f, luck)
  BY ReadStep, WriteStep
<1>2. UNCHANGED <<dta, sloppy>>
  BY ReadRest, WriteRest, FileCallRest
<1>3. PICK e \in OpenFiles : /\ sft' = [sft EXCEPT ![f] = e] /\ fs'.table = fs.table
                             /\ e.count = sft[f].count /\ e.handle = sft[f].handle
  BY <1>1 DEF Transfers
<1> PICK H : H = {}
  OBVIOUS
<1>4. Takes(H) /\ H \subseteq (IF e.count > 0 THEN {e.handle} ELSE {})
  BY <1>3 DEF Takes, Free
<1> QED
  BY <1>2, <1>3, <1>4, FileBalanced

(* Every call.                                                             *)
LEMMA CallBalanced ==
    ASSUME Typed, Balanced, host # 0, NEW luck \in Lucks, Call(luck)
    PROVE  Balanced'
<1>1. Dirs \subseteq Names
  BY FujiFsAssumption
<1>2. CASE \/ \E n \in Dirs, stray \in BOOLEAN : RemoveDir(n, stray, luck)
           \/ \E n \in Dirs : MakeDir(n, luck)
           \/ \E fn \in {"chdir", "get_attr", "set_attr"}, n \in Dirs : Attributes(fn, n, luck)
  <2>1. PICK n \in Names :
            \/ \E stray \in BOOLEAN : RemoveDir(n, stray, luck)
            \/ MakeDir(n, luck)
            \/ \E fn \in {"chdir", "get_attr", "set_attr"} : Attributes(fn, n, luck)
    BY <1>1, <1>2
  <2> QED
    BY <2>1, DirBalanced
<1>3. CASE \E f \in Files, n \in Names, how \in {"exist", "create", "create_new", "extended"} :
               \E action \in ActionsOf(how), mode \in ModesOf(how) : OpenExtended(f, n, how, action, mode, luck)
  BY <1>3, OpenBalanced
<1>4. CASE \/ \E f \in Files, want \in Wants : ReadFile(f, want, luck)
           \/ \E f \in Files, want \in Wants : WriteFile(f, want, luck)
  BY <1>4, ReadBalanced
<1>5. CASE \/ \E x \in Searches : DeleteFiles(x, luck)
           \/ \E x \in Searches : RenameFiles(x, luck)
  BY <1>5, WildcardBalanced
<1> QED
  BY <1>2, <1>3, <1>4, <1>5, FindFirstBalanced, FindNextBalanced, CloseBalanced DEF Call

(* Outside the redirector a handle is forgotten only with a search that is *)
(* given up, and DOS keeps the handle of the file it moves or duplicates.  *)
LEMMA ElsewhereBalanced ==
    ASSUME Typed, Balanced, Elsewhere
    PROVE  Balanced'
<1>1. SameTable(fs, fs') => Takes({})
  BY DEF SameTable, Takes, Free
<1>2. CASE \E p \in Programs : Abandon(p)
  <2>1. sloppy' # {}
    BY <1>2 DEF Abandon
  <2> QED
    BY <2>1 DEF Balanced
<1>3. CASE \/ \E cluster \in Clusters : OtherDrive(cluster)
           \/ OtherProgram
           \/ \E n \in Names : OtherClient(n)
  <2>1. UNCHANGED <<dta, sft, sloppy>>
    BY <1>3 DEF OtherDrive, OtherProgram, OtherClient, history
  <2>2. SameTable(fs, fs')
    BY <1>3, OtherProgramStep, OtherClientStep DEF OtherDrive, SameTable
  <2> QED
    BY <1>1, <2>1, <2>2, StayBalanced
<1>4. CASE \E f \in Files : (\E pos \in Moves : MoveFile(f, pos)) \/ Duplicate(f)
  <2>1. PICK f \in Files : (\E pos \in Moves : MoveFile(f, pos)) \/ Duplicate(f)
    BY <1>4
  <2>2. UNCHANGED <<fs, dta, sloppy>> /\ sft[f].count > 0
    BY <2>1 DEF MoveFile, Duplicate, history
  <2>3. sft \in [Files -> OpenFiles] /\ sft' \in [Files -> OpenFiles]
    BY <2>1, MoveTypes, DuplicateTypes DEF Typed, StateTyped
  <2>4. PICK e \in OpenFiles : sft' = [sft EXCEPT ![f] = e] /\ e.handle = sft[f].handle /\ e.count > 0
    BY <2>1, <2>3, MovedEntry
  <2> PICK H : H = {}
    OBVIOUS
  <2>5. Takes(H) /\ H \subseteq (IF e.count > 0 THEN {e.handle} ELSE {})
    BY <2>2 DEF Takes
  <2> QED
    BY <2>2, <2>4, <2>5, FileBalanced
<1> QED
  BY <1>2, <1>3, <1>4 DEF Elsewhere

(* Every step of the redirector's system.                                  *)
LEMMA NextBalanced ==
    ASSUME Typed, Balanced, Next
    PROVE  Balanced'
<1>1. CASE \E pc \in Machines : \E luck \in Lucks : Install(pc, luck)
  <2>1. PICK luck \in Lucks : Map(luck)
    BY <1>1 DEF Install
  <2>2. Takes({}) /\ UNCHANGED <<dta, sft, sloppy>>
    BY <2>1, MapStep DEF history
  <2> QED
    BY <2>2, StayBalanced
<1>2. CASE host # 0 /\ steps < MaxSteps /\ steps' = steps + 1 /\ (Elsewhere \/ \E luck \in Lucks : Call(luck))
  BY <1>2, ElsewhereBalanced, CallBalanced
<1>3. CASE (\E pc \in Machines : Refused(pc)) \/ NoEffect \/ ChainOn
  <2>1. UNCHANGED vars
    BY <1>3 DEF Refused, NoEffect, ChainOn
  <2> QED
    BY <2>1 DEF vars, history, Balanced, Used, Live, HandleOf
<1> QED
  BY <1>1, <1>2, <1>3 DEF Next

(* The copy program takes handles of its own library only.                 *)
LEMMA CopyBalanced ==
    ASSUME Balanced, CopyGoes
    PROVE  Balanced'
<1>1. SameTable(fs, fs') /\ UNCHANGED <<dta, sft, sloppy>>
  BY DEF CopyGoes
<1>2. Takes({})
  BY <1>1 DEF SameTable, Takes, Free
<1> QED
  BY <1>1, <1>2, StayBalanced

(* In every reachable state in which no handle has been left open.         *)
LEMMA BalancedInductive == CopySpec => []Balanced
<1>1. CopyInit => Balanced
  <2> SUFFICES ASSUME CopyInit PROVE HandleSet \subseteq Free(fs)
    BY DEF Balanced
  <2>1. fs.table = [h \in HandleSet |-> FreeHandle]
    BY DEF CopyInit, Init, NewFs
  <2> QED
    BY <2>1 DEF Free, FreeHandle
<1>2. Types /\ Balanced /\ [CopyNext]_copyVars => Balanced'
  <2> SUFFICES ASSUME Types, Balanced, [CopyNext]_copyVars PROVE Balanced'
    OBVIOUS
  <2>1. Typed
    BY DEF Types
  <2>2. CASE NcopyStep
    BY <2>1, <2>2, NcopyGoes, CopyBalanced DEF Types
  <2>3. CASE RedirectorStep
    BY <2>1, <2>3, NextBalanced DEF RedirectorStep
  <2>4. CASE UNCHANGED copyVars
    BY <2>4 DEF copyVars, vars, history, Balanced, Used, Live, HandleOf
  <2> QED
    BY <2>2, <2>3, <2>4 DEF CopyNext, AllDone
<1> QED
  BY <1>1, <1>2, TypesHold, PTL DEF CopySpec

(* The pool runs out only for the known reasons: until a file opened for   *)
(* reading is closed, a search abandoned or a wildcard call broken off,    *)
(* every handle marked open is that of an open file or a running search,   *)
(* whatever trouble the calls have met and whoever took a handle over.     *)
THEOREM PoolKept == CopySpec => []PoolBalanced
<1>1. Balanced => PoolBalanced
  BY DEF Balanced, PoolBalanced, Used, Free
<1> QED
  BY <1>1, BalancedInductive, PTL


-----------------------------------------------------------------------------
(* What a search finds.                                                    *)

(* What a prefix is a prefix of.                                           *)
LEMMA Extended ==
    ASSUME NEW T, NEW a \in Seq(T), NEW b \in Seq(T), NEW x, IsPrefix(a, b)
    PROVE  IsPrefix(a, Append(b, x)) /\ IsPrefix(a, a)
<1> DEFINE c == Append(b, x)
           n == Len(a)
<1>1. n \in Nat /\ Len(b) \in Nat /\ n <= Len(b) /\ SubSeq(a, 1, n) = SubSeq(b, 1, n)
  BY DEF IsPrefix
<1>2. Len(c) = Len(b) + 1 /\ \A i \in 1..Len(b) : c[i] = b[i]
  OBVIOUS
<1> HIDE DEF c
<1>3. SubSeq(c, 1, n) = SubSeq(b, 1, n)
  <2>1. \A i \in 1..n : c[i] = b[i]
    BY <1>1, <1>2
  <2> QED
    BY <1>1, <2>1
<1>4. n <= Len(c)
  BY <1>1, <1>2
<1> QED
  BY <1>1, <1>3, <1>4 DEF IsPrefix, c

(* What is gathered up to m begins all that is gathered.                   *)
LEMMA UpToPrefix ==
    ASSUME NEW T, NEW l \in Seq(T), NEW S, NEW m \in 0..Len(l)
    PROVE  IsPrefix(UpTo(l, S)[m], UpTo(l, S)[Len(l)])
<1> DEFINE u == UpTo(l, S)
           R == {i \in 0..Len(l) : i >= m => IsPrefix(u[m], u[i])}
<1>1. /\ u \in [0..Len(l) -> Seq(T)]
      /\ \A i \in 1..Len(l) : u[i] = IF l[i] \in S THEN Append(u[i - 1], l[i]) ELSE u[i - 1]
  BY UpToIs
<1> HIDE DEF u
<1>2. Len(l) \in Nat /\ m \in Nat /\ u[m] \in Seq(T)
  BY <1>1
<1>3. IsPrefix(u[m], u[m])
  BY <1>2 DEF IsPrefix
<1>4. 0 \in R
  BY <1>2, <1>3
<1>5. ASSUME NEW i \in 1..Len(l), i - 1 \in R PROVE i \in R
  <2>0. i \in 0..Len(l) /\ i - 1 \in 0..Len(l)
    BY <1>2
  <2>1. i \in 0..Len(l) /\ i - 1 \in 0..Len(l) /\ u[i - 1] \in Seq(T)
    BY <1>1, <2>0
  <2>2. CASE i <= m
    <3>1. i >= m => i = m
      BY <1>2, <2>1, <2>2
    <3> QED
      BY <1>3, <2>1, <3>1
  <2>3. CASE ~(i <= m)
    <3>1. i - 1 >= m
      BY <1>2, <2>1, <2>3
    <3>2. IsPrefix(u[m], u[i - 1])
      BY <1>5, <3>1
    <3>3. IsPrefix(u[m], Append(u[i - 1], l[i]))
      BY <1>2, <2>1, <3>2, Extended
    <3>4. IsPrefix(u[m], u[i])
      BY <1>1, <3>2, <3>3
    <3> QED
      BY <2>1, <3>4
  <2> QED
    BY <2>2, <2>3
<1> HIDE DEF R
<1>6. \A i \in 0..Len(l) : i \in R
  BY <1>2, <1>4, <1>5, UpToN
<1>7. Len(l) \in R
  BY <1>2, <1>6
<1>8. IsPrefix(u[m], u[Len(l)])
  BY <1>2, <1>7 DEF R
<1> QED
  BY <1>8 DEF u

(* Search rec has come m entries into a directory listed as l: it has      *)
(* found those that it wants of them, and reads on behind them.            *)
Reached(s, rec, find, l, m) ==
    /\ Place(s, rec.handle, l, m)
    /\ find.expect = UpTo(l, Wanted(rec))[Len(l)]
    /\ find.seen = UpTo(l, Wanted(rec))[m]
(* A clean search has some place in the listing it was begun with.         *)
Underway(s, rec, find) == \E l \in Seq(Names) : \E m \in 0..Len(l) : Reached(s, rec, find, l, m)

(* A search no other call has touched is on its way, or has found all.     *)
Searching(s, rec, find) ==
    find.clean => IF rec.live THEN ~find.done /\ Underway(s, rec, find) ELSE find.done /\ find.seen = find.expect
(* The inductive invariant of the searches.                                *)
Listings ==
    /\ host = 0 => \A p \in Programs : ~list[p].clean
    /\ \A p \in Programs : Searching(fs, dta[p], list[p])

(* A place is kept while the handle, its stream and what is unread of the  *)
(* buffer are.                                                             *)
LEMMA PlaceKept ==
    ASSUME NEW s, NEW t, NEW h \in HandleSet, NEW l, NEW m, Place(s, h, l, m),
           t.table[h] = s.table[h], t.dev[h] = s.dev[h],
           \A i \in (s.table[h].position + 1)..s.table[h].length : t.buf[i] = s.buf[i],
           s \in Libs
    PROVE  Place(t, h, l, m)
<1> DEFINE f == s.table[h]
           x == TextOf(l)
<1>1. f.position \in Nat /\ f.length \in Nat
  BY FujiFsAssumption DEF Libs, Handles
<1>2. /\ f.open /\ s.dev[h].kind = "dir" /\ s.dev[h].text = x /\ f.position <= f.length
      /\ s.dev[h].at = 2 * m + f.length - f.position
      /\ \A i \in 1..(f.length - f.position) : s.buf[f.position + i] = x[2 * m + i]
  BY DEF Place
<1>3. \A i \in (f.position + 1)..f.length : t.buf[i] = s.buf[i]
  OBVIOUS
<1>4. t.table[h] = f /\ t.dev[h] = s.dev[h]
  OBVIOUS
<1> HIDE DEF f, x
<1>5. ASSUME NEW i \in 1..(f.length - f.position) PROVE f.position + i \in (f.position + 1)..f.length
  BY <1>1
<1>6. \A i \in 1..(f.length - f.position) : t.buf[f.position + i] = x[2 * m + i]
  BY <1>2, <1>3, <1>5
<1> QED
  BY <1>2, <1>4, <1>6 DEF Place, x

(* And so is the search.                                                   *)
LEMMA UnderwayKept ==
    ASSUME NEW s \in Libs, NEW t, NEW rec, NEW find, rec.handle \in HandleSet, Underway(s, rec, find),
           t.table[rec.handle] = s.table[rec.handle], t.dev[rec.handle] = s.dev[rec.handle],
           \A i \in (s.table[rec.handle].position + 1)..s.table[rec.handle].length : t.buf[i] = s.buf[i]
    PROVE  Underway(t, rec, find)
<1>0. PICK l \in Seq(Names) : \E m \in 0..Len(l) : Reached(s, rec, find, l, m)
  BY DEF Underway
<1>1. PICK m \in 0..Len(l) : Reached(s, rec, find, l, m)
  BY <1>0
<1>2. PICK h \in HandleSet : h = rec.handle
  OBVIOUS
<1>3. Place(s, h, l, m)
  BY <1>1, <1>2 DEF Reached
<1>4. Place(t, h, l, m)
  BY <1>2, <1>3, PlaceKept
<1>5. Reached(t, rec, find, l, m)
  BY <1>1, <1>2, <1>4 DEF Reached
<1> QED
  BY <1>5 DEF Underway

(* A search whose call is not this one.                                    *)
LEMMA SearchingWatched ==
    ASSUME Typed, Listings, NEW s, NEW t, SameTable(s, t), SameDev(s, t), SameText(s, t), NEW p \in Programs, NEW find,
           find = IF dta[p].live THEN [list[p] EXCEPT !.clean = list[p].clean /\ Kept(p, s)] ELSE NoList
    PROVE  Searching(t, dta[p], find)
<1> DEFINE rec == dta[p]
           h == rec.handle
<1>1. list[p] \in Findings /\ fs \in Libs /\ Searching(fs, rec, list[p])
  BY DEF Typed, StateTyped, HistoryTyped, Listings
<1>2. CASE ~rec.live
  BY <1>2 DEF Searching, NoList
<1>3. CASE rec.live
  <2>1. /\ find.expect = list[p].expect /\ find.seen = list[p].seen /\ find.done = list[p].done
        /\ find.clean => list[p].clean /\ Kept(p, s)
    BY <1>1, <1>3 DEF Findings
  <2>2. SUFFICES ASSUME find.clean PROVE ~find.done /\ Underway(t, rec, find)
    BY <1>3 DEF Searching
  <2>3. ~list[p].done /\ Underway(fs, rec, list[p])
    BY <1>1, <1>3, <2>1, <2>2 DEF Searching
  <2>4. Underway(fs, rec, find)
    BY <2>1, <2>3 DEF Underway, Reached
  <2>5. HandleOf(p) = h
    BY DEF HandleOf
  <2>6. h \in HandleSet /\ Reads(p, s) = Reads(p, fs) /\ s.dev[h] = fs.dev[h] /\ s.table[h] = fs.table[h]
    BY <2>1, <2>2, <2>5 DEF Kept
  <2>7. \A i \in (fs.table[h].position + 1)..fs.table[h].length : s.buf[i] = fs.buf[i]
    <3> DEFINE D == (fs.table[h].position + 1)..fs.table[h].length
    <3>1. [i \in D |-> s.buf[i]] = [i \in D |-> fs.buf[i]]
      BY <2>5, <2>6 DEF Reads
    <3> HIDE DEF D
    <3>2. \A i \in D : [j \in D |-> s.buf[j]][i] = [j \in D |-> fs.buf[j]][i]
      BY <3>1
    <3>3. \A i \in D : s.buf[i] = fs.buf[i]
      BY <3>2
    <3> QED
      BY <3>3 DEF D
  <2>8. t.table[h] = fs.table[h] /\ t.dev[h] = fs.dev[h] /\ t.buf = s.buf
    BY <2>6 DEF SameTable, SameDev, SameText
  <2>9. Underway(t, rec, find)
    BY <1>1, <2>4, <2>6, <2>7, <2>8, UnderwayKept
  <2> QED
    BY <2>1, <2>3, <2>9
<1> QED
  BY <1>2, <1>3

(* Calls that are no search.                                               *)
LEMMA OthersListings ==
    ASSUME Typed, Listings, host # 0, host' = host, NEW s, SameTable(s, fs'), SameDev(s, fs'), SameText(s, fs'),
           list' = Watched(s, {}), UNCHANGED dta
    PROVE  Listings'
<1>1. ASSUME NEW p \in Programs PROVE Searching(fs', dta'[p], list'[p])
  <2>1. list'[p] = IF dta[p].live THEN [list[p] EXCEPT !.clean = list[p].clean /\ Kept(p, s)] ELSE NoList
    BY DEF Watched
  <2>2. PICK find : find = list'[p]
    OBVIOUS
  <2>3. Searching(fs', dta[p], find)
    BY <2>1, <2>2, SearchingWatched
  <2> QED
    BY <2>2, <2>3
<1> QED
  BY <1>1 DEF Listings

(* What leaves the library and the searches alone.                         *)
LEMMA StillListings ==
    ASSUME Typed, Listings, host' = host, SameTable(fs, fs'), SameDev(fs, fs'), SameText(fs, fs'), UNCHANGED <<dta, list>>
    PROVE  Listings'
<1>1. ASSUME NEW p \in Programs PROVE Searching(fs', dta[p], list[p])
  <2>1. Searching(fs, dta[p], list[p]) /\ fs \in Libs /\ (dta[p].live => dta[p].handle \in HandleSet)
    BY DEF Listings, Typed, StateTyped
  <2>2. ASSUME dta[p].live, Underway(fs, dta[p], list[p]) PROVE Underway(fs', dta[p], list[p])
    <3>1. fs'.table = fs.table /\ fs'.dev = fs.dev /\ fs'.buf = fs.buf
      BY DEF SameTable, SameDev, SameText
    <3>2. PICK t : t = fs'
      OBVIOUS
    <3>3. Underway(t, dta[p], list[p])
      BY <2>1, <2>2, <3>1, <3>2, UnderwayKept
    <3> QED
      BY <3>2, <3>3
  <2> QED
    BY <2>1, <2>2 DEF Searching
<1> QED
  BY <1>1 DEF Listings


(* What a search has found after its own call.                             *)
Finding(expect, seen, r, luck, clean) ==
    [expect |-> expect, seen |-> IF r.err = "none" THEN Append(seen, r.ent) ELSE seen,
     clean |-> clean /\ ~Troubled(luck) /\ r.err # "network", done |-> r.err # "none"]

(* A search that took the next match is at the next place.                 *)
LEMMA AdvancedSearch ==
    ASSUME NEW r, NEW rec, NEW h \in HandleSet, NEW l \in Seq(Names), NEW m \in 0..Len(l), NEW W, NEW luck \in Lucks, NEW clean \in BOOLEAN,
           Advances(r, h, l, W, m), r.err = "none" => rec = r.rec /\ r.rec.handle = h /\ r.rec.live /\ Wanted(r.rec) = W,
           r.err # "none" => ~rec.live, r.s \in Libs, Ends(r.s, fs')
    PROVE  Searching(fs', rec, Finding(UpTo(l, W)[Len(l)], UpTo(l, W)[m], r, luck, clean))
<1> DEFINE u == UpTo(l, W)
           find == Finding(u[Len(l)], u[m], r, luck, clean)
<1>1. /\ find.expect = u[Len(l)] /\ find.seen = (IF r.err = "none" THEN Append(u[m], r.ent) ELSE u[m])
      /\ find.done = (r.err # "none")
  BY DEF Finding
<1>2. CASE r.err \in {"no_more_files", "file_not_found"} /\ u[Len(l)] = u[m]
  <2>1. find.done /\ find.seen = find.expect /\ ~rec.live
    BY <1>1, <1>2
  <2> HIDE DEF find
  <2> QED
    BY <2>1 DEF Searching, find
<1>3. CASE \E j \in 1..Len(l) : r.err = "none" /\ r.ent = l[j] /\ Place(r.s, h, l, j) /\ u[j] = Append(u[m], l[j])
  <2>1. PICK j \in 1..Len(l) : r.err = "none" /\ r.ent = l[j] /\ Place(r.s, h, l, j) /\ u[j] = Append(u[m], l[j])
    BY <1>3
  <2>2. rec.live /\ rec.handle = h /\ Wanted(rec) = W /\ ~find.done
    BY <1>1, <2>1
  <2>3. find.seen = u[j] /\ find.expect = u[Len(l)]
    BY <1>1, <2>1
  <2>4. Place(fs', h, l, j)
    <3>1. fs'.table = r.s.table /\ fs'.dev = r.s.dev /\ fs'.buf = r.s.buf
      BY DEF Ends, SameTable, SameDev, SameText
    <3>2. PICK s \in Libs : s = r.s
      OBVIOUS
    <3>3. PICK t : t = fs'
      OBVIOUS
    <3>4. Place(t, h, l, j)
      BY <2>1, <3>1, <3>2, <3>3, PlaceKept
    <3> QED
      BY <3>3, <3>4
  <2>5. j \in 0..Len(l)
    OBVIOUS
  <2> HIDE DEF find
  <2>6. Reached(fs', rec, find, l, j)
    BY <2>2, <2>3, <2>4 DEF Reached, u
  <2>7. Underway(fs', rec, find)
    BY <2>5, <2>6 DEF Underway
  <2> QED
    BY <2>2, <2>7 DEF Searching, find
<1> QED
  BY <1>2, <1>3 DEF Advances

(* A step of a search leaves the others where they were, or not clean.     *)
LEMMA SearchListings ==
    ASSUME Typed, Listings, host # 0, NEW p \in Programs, NEW r, NEW luck \in Lucks, NEW expect, NEW seen, NEW clean,
           SearchDone(p, r, luck, expect, seen, clean), r.s \in Libs, Ends(r.s, fs'),
           Searching(fs', IF r.err = "none" THEN r.rec ELSE NoSearch, Finding(expect, seen, r, luck, clean))
    PROVE  Listings'
<1> DEFINE rec == IF r.err = "none" THEN r.rec ELSE NoSearch
           find == Finding(expect, seen, r, luck, clean)
<1>1. dta' = [dta EXCEPT ![p] = rec] /\ list' = [Watched(r.s, {p}) EXCEPT ![p] = find] /\ host' = host
  BY DEF SearchDone, Return, Finding
<1>2. Searching(fs', rec, find)
  OBVIOUS
<1> HIDE DEF rec, find
<1>3. dta'[p] = rec /\ \A q \in Programs \ {p} : dta'[q] = dta[q]
  BY <1>1 DEF Typed, StateTyped
<1>4. list'[p] = find
  BY <1>1 DEF Watched
<1>5. ASSUME NEW q \in Programs \ {p} PROVE Searching(fs', dta'[q], list'[q])
  <2>1. list'[q] = IF dta[q].live THEN [list[q] EXCEPT !.clean = list[q].clean /\ Kept(q, r.s)] ELSE NoList
    BY <1>1 DEF Watched
  <2>2. PICK f : f = list'[q]
    OBVIOUS
  <2>3. PICK s, t : s = r.s /\ t = fs'
    OBVIOUS
  <2>4. SameTable(s, t) /\ SameDev(s, t) /\ SameText(s, t)
    BY <2>3 DEF Ends
  <2>5. f = IF dta[q].live THEN [list[q] EXCEPT !.clean = list[q].clean /\ Kept(q, s)] ELSE NoList
    BY <2>1, <2>2, <2>3
  <2>6. q \in Programs
    OBVIOUS
  <2>7. Searching(t, dta[q], f)
    BY <2>4, <2>5, <2>6, SearchingWatched
  <2> QED
    BY <1>3, <2>2, <2>3, <2>7
<1>6. Searching(fs', dta'[p], list'[p])
  BY <1>2, <1>3, <1>4
<1> QED
  BY <1>1, <1>5, <1>6 DEF Listings

(* A listing hangs on the share alone.                                     *)
LEMMA ListingOn ==
    ASSUME NEW s, NEW t, SameShare(s, t), NEW d
    PROVE  Listing(t, d) = Listing(s, d)
BY DEF Listing, SameShare

(* find_first begins at the first place,                                   *)
LEMMA FindFirstListings ==
    ASSUME Typed, Listings, host # 0, NEW p \in Programs, NEW x \in Searches, NEW luck \in Lucks, FindFirst(p, x, luck)
    PROVE  Listings'
<1> DEFINE s == With(luck)
           c == Cleared(s)
           r == FindFirstIn(s, x)
           h == Lowest(Free(c))
           l == Listing(fs, x.dir)
           W == Wanted(x)
           rec == IF r.err = "none" THEN r.rec ELSE NoSearch
<1>1. x \in Requests /\ host \in 0..Total
  BY RedirectorAssumption, FujiFsAssumption DEF Typed, StateTyped, Requests, All
<1>2. s \in Libs /\ (~Troubled(luck) => s.fuse = 0) /\ SameShare(fs, s)
  BY WithTyped DEF Typed
<1>3. Starts(c, r, Search(x), h) /\ Lists(c, r, Search(x), h)
  BY <1>1, <1>2, FindFirstTyped
<1>4. r.s \in Libs /\ Ends(r.s, fs') /\ SameSearch(Search(x), r.rec)
  BY FindFirstStep
<1>5. c \in Libs /\ SameShare(s, c) /\ (s.fuse = 0 => c.fuse = 0)
  BY <1>2, ClearedTyped
<1>6. SearchDone(p, r, luck, Matching(l, W), << >>, TRUE)
  BY DEF FindFirst
<1>7. /\ Wanted(Search(x)) = W /\ Search(x).dir = x.dir
      /\ r.err = "none" => r.rec.live /\ Wanted(r.rec) = W
  BY <1>4 DEF Search, Wanted, SameSearch
<1> HIDE DEF s, c, r
<1>8. l \in Seq(Names)
  <2>1. fs \in Libs
    BY DEF Typed, StateTyped
  <2> QED
    BY <2>1, ListingTyped
<1>9. Listing(c, x.dir) = l
  <2>1. Listing(s, x.dir) = Listing(fs, x.dir)
    BY <1>2, ListingOn
  <2>2. Listing(c, x.dir) = Listing(s, x.dir)
    BY <1>5, ListingOn
  <2> QED
    BY <2>1, <2>2
<1>10. ~Troubled(luck) /\ r.err # "network" => h \in HandleSet /\ Advances(r, h, l, W, 0)
  BY <1>2, <1>3, <1>5, <1>7, <1>9, FujiFsAssumption DEF Lists
<1>11. r.err = "none" => r.rec.handle = h
  BY <1>3 DEF Starts
<1>12. Matching(l, W) = UpTo(l, W)[Len(l)] /\ UpTo(l, W)[0] = << >>
  BY <1>8, MatchingIs, UpToIs
<1> HIDE DEF h, l, W
<1>13. Searching(fs', rec, Finding(Matching(l, W), << >>, r, luck, TRUE))
  <2>1. CASE Troubled(luck) \/ r.err = "network"
    <3>1. ~Finding(Matching(l, W), << >>, r, luck, TRUE).clean
      BY <2>1 DEF Finding
    <3> QED
      BY <3>1 DEF Searching
  <2>2. CASE ~(Troubled(luck) \/ r.err = "network")
    <3>1. h \in HandleSet /\ Advances(r, h, l, W, 0)
      BY <1>10, <2>2
    <3>2. PICK yes \in BOOLEAN : yes = TRUE
      OBVIOUS
    <3>3. PICK m \in 0..Len(l) : m = 0
      BY <1>8
    <3>4. r.err = "none" => rec = r.rec /\ r.rec.handle = h /\ r.rec.live /\ Wanted(r.rec) = W
      BY <1>7, <1>11
    <3>5. r.err # "none" => ~rec.live
      BY DEF NoSearch
    <3>6. PICK z : z = rec
      OBVIOUS
    <3>7. Advances(r, h, l, W, m)
      BY <3>1, <3>3
    <3> HIDE DEF rec
    <3>8. Searching(fs', z, Finding(UpTo(l, W)[Len(l)], UpTo(l, W)[m], r, luck, yes))
      BY <1>4, <1>8, <3>1, <3>4, <3>5, <3>6, <3>7, AdvancedSearch
    <3> QED
      BY <1>12, <3>2, <3>3, <3>6, <3>8
  <2> QED
    BY <2>1, <2>2
<1>14. PICK yes, none : yes = TRUE /\ none = << >>
  OBVIOUS
<1>15. SearchDone(p, r, luck, Matching(l, W), none, yes) /\ Searching(fs', rec, Finding(Matching(l, W), none, r, luck, yes))
  BY <1>6, <1>13, <1>14 DEF l, W
<1> QED
  BY <1>4, <1>15, SearchListings

(* and find_next goes to the next.                                         *)
LEMMA FindNextListings ==
    ASSUME Typed, Listings, host # 0, NEW p \in Programs, NEW luck \in Lucks, FindNext(p, luck)
    PROVE  Listings'
<1> DEFINE s == With(luck)
           old == dta[p]
           h == old.handle
           r == FindNextIn(s, old)
           rec == IF r.err = "none" THEN r.rec ELSE NoSearch
           find == list[p]
<1>1. s \in Libs /\ (~Troubled(luck) => s.fuse = 0) /\ SameTable(fs, s) /\ SameDev(fs, s) /\ SameText(fs, s)
  BY WithTyped DEF Typed
<1>2. fs \in Libs /\ old \in Records /\ old.live /\ h \in HandleSet /\ find \in Findings
  BY DEF Typed, StateTyped, HistoryTyped, FindNext
<1>3. \A l \in Seq(Names) : \A m \in 0..Len(l) :
          BufSize >= 2 /\ s.fuse = 0 /\ Place(s, h, l, m) => Advances(r, h, l, Wanted(old), m)
  BY <1>1, <1>2, FindNextTyped
<1>4. /\ r.s \in Libs /\ Ends(r.s, fs') /\ SameSearch(old, r.rec)
      /\ r.err = "none" => r.rec.handle = h
  BY FindNextStep
<1>5. SearchDone(p, r, luck, find.expect, find.seen, find.clean)
  BY DEF FindNext
<1>6. r.err = "none" => r.rec.live /\ Wanted(r.rec) = Wanted(old)
  BY <1>2, <1>4 DEF Wanted, SameSearch
<1> HIDE DEF s, r, old, find
<1>7. Searching(fs', rec, Finding(find.expect, find.seen, r, luck, find.clean))
  <2>1. CASE Troubled(luck) \/ ~find.clean
    <3>1. ~Finding(find.expect, find.seen, r, luck, find.clean).clean
      BY <2>1 DEF Finding
    <3> QED
      BY <3>1 DEF Searching
  <2>2. CASE ~(Troubled(luck) \/ ~find.clean)
    <3>1. Underway(fs, old, find)
      BY <1>2, <2>2 DEF Searching, Listings, old, find
    <3>2. PICK l \in Seq(Names) : \E m \in 0..Len(l) : Reached(fs, old, find, l, m)
      BY <3>1 DEF Underway
    <3>3. PICK m \in 0..Len(l) : Reached(fs, old, find, l, m)
      BY <3>2
    <3>4. PICK W : W = Wanted(old)
      OBVIOUS
    <3>5. Place(fs, h, l, m) /\ find.expect = UpTo(l, W)[Len(l)] /\ find.seen = UpTo(l, W)[m]
      BY <3>3, <3>4 DEF Reached
    <3>6. Place(s, h, l, m)
      <4>1. s.table = fs.table /\ s.dev = fs.dev /\ s.buf = fs.buf
        BY <1>1 DEF SameTable, SameDev, SameText
      <4>2. PICK k \in HandleSet : k = h
        BY <1>2
      <4>3. Place(s, k, l, m)
        BY <1>2, <3>5, <4>1, <4>2, PlaceKept
      <4> QED
        BY <4>2, <4>3
    <3>7. Advances(r, h, l, W, m)
      BY <1>1, <1>3, <2>2, <3>4, <3>6, FujiFsAssumption
    <3>13. PICK z : z = rec
      OBVIOUS
    <3>14. PICK k \in HandleSet : k = h
      BY <1>2
    <3>15. PICK clean \in BOOLEAN : clean = find.clean
      BY <1>2 DEF Findings
    <3>8. z = rec /\ k = h /\ clean = find.clean
      BY <3>13, <3>14, <3>15
    <3>9. r.err = "none" => z = r.rec /\ r.rec.handle = k /\ r.rec.live /\ Wanted(r.rec) = W
      BY <1>4, <1>6, <3>4, <3>8
    <3>10. r.err # "none" => ~z.live
      BY <3>8 DEF NoSearch
    <3> HIDE DEF rec, h
    <3>11. Advances(r, k, l, W, m)
      BY <3>7, <3>8
    <3>12. Searching(fs', z, Finding(UpTo(l, W)[Len(l)], UpTo(l, W)[m], r, luck, clean))
      BY <1>4, <3>9, <3>10, <3>11, AdvancedSearch
    <3> QED
      BY <3>5, <3>8, <3>12
  <2> QED
    BY <2>1, <2>2
<1> QED
  BY <1>4, <1>5, <1>7, SearchListings

(* Every call.                                                             *)
LEMMA CallListings ==
    ASSUME Typed, Listings, host # 0, NEW luck \in Lucks, Call(luck)
    PROVE  Listings'
<1>1. CASE \/ \E p \in Programs, x \in Searches : FindFirst(p, x, luck)
           \/ \E p \in Programs : FindNext(p, luck)
  BY <1>1, FindFirstListings, FindNextListings
<1>2. ASSUME NEW s, fs' = Settled(s), host' = host, list' = Watched(s, {}), UNCHANGED dta
      PROVE  Listings'
  <2>1. SameTable(s, fs') /\ SameDev(s, fs') /\ SameText(s, fs')
    BY <1>2 DEF Settled, SameTable, SameDev, SameText
  <2> QED
    BY <1>2, <2>1, OthersListings
<1>3. CASE \/ \E x \in Searches : DeleteFiles(x, luck)
           \/ \E x \in Searches : RenameFiles(x, luck)
  <2>1. PICK fn, r : WildcardDone(fn, r, luck)
    BY <1>3 DEF DeleteFiles, RenameFiles
  <2> QED
    BY <1>2, <2>1 DEF WildcardDone, Return
<1>4. CASE \/ \E n \in Dirs, stray \in BOOLEAN : RemoveDir(n, stray, luck)
           \/ \E n \in Dirs : MakeDir(n, luck)
           \/ \E fn \in {"chdir", "get_attr", "set_attr"}, n \in Dirs : Attributes(fn, n, luck)
  <2>1. PICK n \in Names :
            \/ \E stray \in BOOLEAN : RemoveDir(n, stray, luck)
            \/ MakeDir(n, luck)
            \/ \E fn \in {"chdir", "get_attr", "set_attr"} : Attributes(fn, n, luck)
    BY <1>4, FujiFsAssumption
  <2>2. PICK s, err : PathCall(s, luck, err)
    BY <2>1, DirTypes
  <2> QED
    BY <1>2, <2>2 DEF PathCall, Return
<1>5. CASE \E f \in Files, n \in Names, how \in {"exist", "create", "create_new", "extended"} :
               \E action \in ActionsOf(how), mode \in ModesOf(how) : OpenExtended(f, n, how, action, mode, luck)
  <2>1. PICK f \in Files, n \in Names, how \in {"exist", "create", "create_new", "extended"} :
            \E action \in ActionsOf(how), mode \in ModesOf(how) : OpenExtended(f, n, how, action, mode, luck)
    BY <1>5
  <2>2. (\E s : list' = Watched(s, {}) /\ fs' = Settled(s)) /\ UNCHANGED dta
    BY <2>1, OpenRest
  <2>3. host' = host
    BY <2>1, OpenStep DEF Effect
  <2> QED
    BY <1>2, <2>2, <2>3
<1>6. CASE \E f \in Files : CloseFile(f, luck)
  <2>1. PICK f, e, s : Closing(f, e, luck, s)
    BY <1>6 DEF CloseFile
  <2> QED
    BY <1>2, <2>1 DEF Closing, Return
<1>7. CASE \/ \E f \in Files, want \in Wants : ReadFile(f, want, luck)
           \/ \E f \in Files, want \in Wants : WriteFile(f, want, luck)
  <2>1. PICK f, e, s, reply : FileCall(f, e, s, luck, reply)
    BY <1>7, ReadRest, WriteRest
  <2> QED
    BY <1>2, <2>1 DEF FileCall, Return
<1> QED
  BY <1>1, <1>3, <1>4, <1>5, <1>6, <1>7 DEF Call

(* Every step outside the redirector.                                      *)
LEMMA ElsewhereListings ==
    ASSUME Typed, Listings, host # 0, Elsewhere
    PROVE  Listings'
<1>1. CASE \/ \E f \in Files, pos \in Moves : MoveFile(f, pos)
           \/ \E f \in Files : Duplicate(f)
           \/ \E cluster \in Clusters : OtherDrive(cluster)
  <2>1. UNCHANGED <<fs, host, dta, list>>
    BY <1>1 DEF MoveFile, Duplicate, OtherDrive, history
  <2>2. SameTable(fs, fs') /\ SameDev(fs, fs') /\ SameText(fs, fs')
    BY <2>1 DEF SameTable, SameDev, SameText
  <2> QED
    BY <2>1, <2>2, StillListings
<1>2. CASE \E p \in Programs : Abandon(p)
  <2>1. PICK p \in Programs : Abandon(p)
    BY <1>2
  <2>2. dta' = [dta EXCEPT ![p] = NoSearch] /\ list' = [list EXCEPT ![p] = NoList] /\ UNCHANGED <<fs, host>>
    BY <2>1 DEF Abandon
  <2>3. /\ dta'[p] = NoSearch /\ list'[p] = NoList
        /\ \A q \in Programs \ {p} : dta'[q] = dta[q] /\ list'[q] = list[q]
    BY <2>2 DEF Typed, StateTyped, HistoryTyped
  <2>4. ~NoList.clean
    BY DEF NoList
  <2>5. ASSUME NEW q \in Programs PROVE Searching(fs', dta'[q], list'[q])
    <3>1. CASE q = p
      BY <2>3, <2>4, <3>1 DEF Searching
    <3>2. CASE q # p
      BY <2>2, <2>3, <3>2 DEF Listings
    <3> QED
      BY <3>1, <3>2
  <2> QED
    BY <2>2, <2>5 DEF Listings
<1>3. CASE OtherProgram
  <2>1. PICK s : s = fs'
    OBVIOUS
  <2>2. list' = Watched(s, {}) /\ UNCHANGED <<host, dta>> /\ SameTable(s, fs') /\ SameDev(s, fs') /\ SameText(s, fs')
    BY <1>3, <2>1 DEF OtherProgram, SameTable, SameDev, SameText
  <2> QED
    BY <2>2, OthersListings
<1>4. CASE \E n \in Names : OtherClient(n)
  <2>1. SameTable(fs, fs') /\ SameDev(fs, fs') /\ SameText(fs, fs')
    BY <1>4, OtherClientStep
  <2>2. UNCHANGED <<host, dta, list>>
    BY <1>4 DEF OtherClient, history
  <2> QED
    BY <2>1, <2>2, StillListings
<1> QED
  BY <1>1, <1>2, <1>3, <1>4 DEF Elsewhere

(* Nothing happens before a drive is mapped.                               *)
LEMMA NotMappedListings ==
    ASSUME Listings, host = 0, UNCHANGED <<dta, list>>
    PROVE  Listings'
BY DEF Listings, Searching

(* Every step of the redirector's system.                                  *)
LEMMA NextListings ==
    ASSUME Typed, Listings, Next
    PROVE  Listings'
<1>1. CASE \E pc \in Machines : Refused(pc) \/ \E luck \in Lucks : Install(pc, luck)
  <2>1. CASE \E pc \in Machines : Refused(pc)
    <3>1. host = 0 /\ UNCHANGED <<dta, list>>
      BY <2>1 DEF Refused, vars, history
    <3> QED
      BY <3>1, NotMappedListings
  <2>2. CASE \E luck \in Lucks : Map(luck)
    <3>1. host = 0 /\ UNCHANGED <<dta, list>>
      BY <2>2, MapStep DEF history
    <3> QED
      BY <3>1, NotMappedListings
  <2> QED
    BY <1>1, <2>1, <2>2 DEF Install
<1>2. CASE host # 0 /\ steps < MaxSteps /\ steps' = steps + 1 /\ (Elsewhere \/ \E luck \in Lucks : Call(luck))
  BY <1>2, ElsewhereListings, CallListings
<1>3. CASE NoEffect \/ ChainOn
  <2>1. UNCHANGED vars
    BY <1>3 DEF NoEffect, ChainOn
  <2> QED
    BY <2>1 DEF vars, history, Listings
<1> QED
  BY <1>1, <1>2, <1>3 DEF Next

(* The copy program has a buffer of its own.                               *)
LEMMA CopyListings ==
    ASSUME Typed, Listings, CopyGoes
    PROVE  Listings'
<1>1. list' = Watched(fs', {}) /\ UNCHANGED <<host, dta>>
  BY DEF CopyGoes
<1>2. ASSUME NEW p \in Programs PROVE Searching(fs', dta[p], list'[p])
  <2>1. PICK s, find : s = fs' /\ find = list'[p]
    OBVIOUS
  <2>2. SameTable(s, s) /\ SameDev(s, s) /\ SameText(s, s)
    BY DEF SameTable, SameDev, SameText
  <2>3. find = IF dta[p].live THEN [list[p] EXCEPT !.clean = list[p].clean /\ Kept(p, s)] ELSE NoList
    BY <1>1, <2>1 DEF Watched
  <2>4. Searching(s, dta[p], find)
    BY <2>2, <2>3, SearchingWatched
  <2> QED
    BY <2>1, <2>4
<1>3. host = 0 => \A p \in Programs : ~list'[p].clean
  <2> SUFFICES ASSUME host = 0, NEW p \in Programs PROVE ~list'[p].clean
    OBVIOUS
  <2>1. list'[p] = IF dta[p].live THEN [list[p] EXCEPT !.clean = list[p].clean /\ Kept(p, fs')] ELSE NoList
    BY <1>1 DEF Watched
  <2>2. ~list[p].clean /\ list[p] \in Findings
    BY DEF Listings, Typed, HistoryTyped
  <2>3. ~[list[p] EXCEPT !.clean = list[p].clean /\ Kept(p, fs')].clean
    BY <2>2 DEF Findings
  <2> QED
    BY <2>1, <2>3 DEF NoList
<1> QED
  BY <1>1, <1>2, <1>3 DEF Listings

(* In every reachable state a clean search is at a place of the listing it was *)
(* begun with.                                                             *)
LEMMA ListingsInductive == CopySpec => []Listings
<1>1. CopyInit => Listings
  BY DEF CopyInit, Init, Listings, Searching, NoList
<1>2. Types /\ Listings /\ [CopyNext]_copyVars => Listings'
  <2> SUFFICES ASSUME Types, Listings, [CopyNext]_copyVars PROVE Listings'
    OBVIOUS
  <2>1. Typed
    BY DEF Types
  <2>2. CASE NcopyStep
    BY <2>1, <2>2, NcopyGoes, CopyListings DEF Types
  <2>3. CASE RedirectorStep
    BY <2>1, <2>3, NextListings DEF RedirectorStep
  <2>4. CASE UNCHANGED copyVars
    BY <2>4 DEF copyVars, vars, history, Listings
  <2> QED
    BY <2>2, <2>3, <2>4 DEF CopyNext, AllDone
<1> QED
  BY <1>1, <1>2, TypesHold, PTL DEF CopySpec

(* A search that met no trouble and whose handle, stream and unread text   *)
(* no other call has touched finds the entries of its directory that match *)
(* in order, each once, and ends only when it has found them all, however  *)
(* long the directory and however small the buffer of fujifs_readdir.      *)
THEOREM ListingComplete == CopySpec => []ListingTrue
<1>1. Listings => ListingTrue
  <2> SUFFICES ASSUME Listings, NEW p \in Programs, list[p].clean
               PROVE  IF list[p].done THEN list[p].seen = list[p].expect ELSE IsPrefix(list[p].seen, list[p].expect)
    BY DEF ListingTrue
  <2>1. Searching(fs, dta[p], list[p])
    BY DEF Listings
  <2>2. CASE ~dta[p].live
    BY <2>1, <2>2 DEF Searching
  <2>3. CASE dta[p].live
    <3>1. ~list[p].done /\ Underway(fs, dta[p], list[p])
      BY <2>1, <2>3 DEF Searching
    <3>2. PICK l \in Seq(Names) : \E m \in 0..Len(l) : Reached(fs, dta[p], list[p], l, m)
      BY <3>1 DEF Underway
    <3>3. PICK m \in 0..Len(l) : Reached(fs, dta[p], list[p], l, m)
      BY <3>2
    <3>4. PICK W : W = Wanted(dta[p])
      OBVIOUS
    <3>5. list[p].expect = UpTo(l, W)[Len(l)] /\ list[p].seen = UpTo(l, W)[m]
      BY <3>3, <3>4 DEF Reached
    <3>6. IsPrefix(UpTo(l, W)[m], UpTo(l, W)[Len(l)])
      BY UpToPrefix
    <3> QED
      BY <3>1, <3>5, <3>6
  <2> QED
    BY <2>2, <2>3
<1> QED
  BY <1>1, ListingsInductive, PTL

-----------------------------------------------------------------------------
(* What is copied.                                                         *)

(* Nobody came between, and the OPEN met no trouble.                       *)
Good(c) == c.clean /\ "prompt" \notin c.rough

(* What the stages say of the command.                                     *)
Staged(c) ==
    /\ c.pc \in {"absent", "prompt"} => c.cmd = "none" /\ c.local = << >> /\ c.sent = 0 /\ ~c.failed
    /\ c.cmd = "none" => c.pc \in {"absent", "prompt", "gone"} /\ ~c.clean
    /\ c.pc = "get" => c.cmd = "get"
    /\ c.pc = "put" => c.cmd = "put"
    /\ c.pc = "close" /\ c.cmd = "put" => c.failed

(* While GET runs, the stream stands behind what has been written; it ends *)
(* early only when it says so or a call failed.                            *)
GetSo(c, f, table) ==
    Good(c) /\ c.cmd = "get" =>
        /\ c.name \in Names \ Dirs
        /\ \A i \in DOMAIN c.local : c.local[i] = i
        /\ c.pc = "get" => /\ ~c.failed /\ table[c.h].open /\ Len(c.local) <= f.size[c.name]
                           /\ f.dev[c.h].kind = "file" /\ f.dev[c.h].obj = c.name
                           /\ f.dev[c.h].at = Len(c.local)
        /\ c.pc # "get" /\ ~c.failed /\ "get" \notin c.rough => Len(c.local) = f.size[c.name]

(* While PUT runs, the stream stands behind what has been sent, and that   *)
(* is where the file ends; it ends when all has been sent.                 *)
PutSo(c, f) ==
    /\ Good(c) /\ c.cmd = "put" /\ ~c.failed /\ Exists(f, Parent[c.name]) =>
        /\ c.name \in Names \ Dirs /\ f.size[c.name] = c.sent
        /\ c.pc = "put" => /\ f.dev[c.h].kind = "file" /\ f.dev[c.h].obj = c.name
                           /\ f.dev[c.h].at = c.sent
    /\ c.pc = "gone" /\ c.cmd = "put" /\ ~c.failed => c.sent = LocalSize

(* The inductive invariant of the copy.                                    *)
Copying(c, f, table) == Staged(c) /\ GetSo(c, f, table) /\ PutSo(c, f)

(* Rougher or less clean, the copy is as true as it was.                   *)
LEMMA CopyingSame ==
    ASSUME NEW c, NEW d, NEW f, NEW g, NEW table,
           d.pc = c.pc, d.cmd = c.cmd, d.name = c.name, d.h = c.h, d.local = c.local, d.sent = c.sent,
           d.failed = c.failed, c.rough \subseteq d.rough, d.clean => c.clean,
           d.clean => g.size = f.size /\ g.exist = f.exist,
           d.clean /\ c.pc \in {"get", "put"} => g.dev[c.h] = f.dev[c.h],
           Copying(c, f, table)
    PROVE  Copying(d, g, table)
<1>1. Staged(d)
  BY DEF Copying, Staged
<1>2. Good(d) => Good(c)
  BY DEF Good
<1>3. GetSo(d, g, table)
  <2> SUFFICES ASSUME Good(d), d.cmd = "get"
               PROVE  /\ d.name \in Names \ Dirs
                      /\ \A i \in DOMAIN d.local : d.local[i] = i
                      /\ d.pc = "get" => /\ ~d.failed /\ table[d.h].open /\ Len(d.local) <= g.size[d.name]
                                         /\ g.dev[d.h].kind = "file" /\ g.dev[d.h].obj = d.name
                                         /\ g.dev[d.h].at = Len(d.local)
                      /\ d.pc # "get" /\ ~d.failed /\ "get" \notin d.rough => Len(d.local) = g.size[d.name]
    BY DEF GetSo
  <2>1. d.clean /\ Good(c) /\ c.cmd = "get"
    BY <1>2 DEF Good
  <2> QED
    BY <2>1 DEF Copying, GetSo
<1>4. PutSo(d, g)
  <2> SUFFICES ASSUME Good(d), d.cmd = "put", ~d.failed, Exists(g, Parent[d.name])
               PROVE  /\ d.name \in Names \ Dirs /\ g.size[d.name] = d.sent
                      /\ d.pc = "put" => /\ g.dev[d.h].kind = "file" /\ g.dev[d.h].obj = d.name
                                         /\ g.dev[d.h].at = d.sent
    BY DEF Copying, PutSo
  <2>1. d.clean /\ Good(c) /\ c.cmd = "put" /\ ~c.failed /\ Exists(f, Parent[c.name])
    BY <1>2 DEF Good, Exists
  <2> QED
    BY <2>1 DEF Copying, PutSo
<1> QED
  BY <1>1, <1>3, <1>4 DEF Copying

(* What NCOPY's next call of the library finds.                            *)
LEMMA UsingIs ==
    ASSUME Typed, CopyTyped, NEW luck \in CopyLucks
    PROVE  LET w == Using(luck) IN
           /\ w \in Libs /\ SameTable(lib, w) /\ SameDev(fs, w) /\ SameShare(fs, w)
           /\ w.trouble = luck[2]
<1>1. luck[1] \in Nat /\ luck[2] \in {"none", "refused", "unacked", "short", "empty"}
  BY NcopyAssumption DEF CopyLucks
<1> DEFINE k == luck[1]
           kind == luck[2]
           j == Joined(lib, fs)
           t == Facing(j, k, kind)
<1> HIDE DEF k, kind
<1>2. k \in Nat /\ kind \in {"none", "refused", "unacked", "short", "empty"}
  BY <1>1 DEF k, kind
<1>3. j \in Libs /\ SameTable(lib, j) /\ SameDev(fs, j) /\ SameShare(fs, j)
  BY JoinedTyped DEF CopyTyped, Typed, StateTyped
<1> HIDE DEF j
<1>4. t \in Libs /\ SameTable(j, t) /\ SameDev(j, t) /\ SameShare(j, t)
  BY <1>2, <1>3, FacingTyped
<1>5. t.trouble = kind
  BY <1>3 DEF Facing, Libs
<1>6. Using(luck) = t
  BY DEF Using, j, k, kind
<1> HIDE DEF t
<1>7. SameTable(lib, t) /\ SameDev(fs, t) /\ SameShare(fs, t) /\ t.trouble = luck[2]
  BY <1>3, <1>4, <1>5 DEF SameTable, SameDev, SameShare, kind
<1> QED
  BY <1>4, <1>6, <1>7

(* How NCOPY stands once it has gone on with c.                            *)
Stands(c, s, luck) ==
    /\ copy'.pc = c.pc /\ copy'.cmd = c.cmd /\ copy'.name = c.name /\ copy'.h = c.h
    /\ copy'.local = c.local /\ copy'.sent = c.sent /\ copy'.failed = c.failed /\ copy'.clean = c.clean
    /\ copy'.rough = IF luck[2] \notin {"none", "short"} THEN c.rough \cup {copy.pc} ELSE c.rough
    /\ SameDev(s, fs') /\ SameShare(s, fs') /\ SameTable(s, lib')

LEMMA ContinuesIs ==
    ASSUME Typed, CopyTyped, NEW luck, NEW s \in Libs, NEW c \in Copies, Continues(c, s, luck)
    PROVE  Stands(c, s, luck)
<1> DEFINE r == IF luck[2] \notin {"none", "short"} THEN c.rough \cup {copy.pc} ELSE c.rough
           z == Settled(s)
           t == Joined(fs, s)
           l == Joined(z, Nowhere)
<1>1. copy' = [c EXCEPT !.rough = r] /\ lib' = l /\ fs' = t
  BY DEF Continues
<1>2. fs \in Libs
  BY DEF Typed, StateTyped
<1>3. SameDev(s, t) /\ SameShare(s, t)
  BY <1>2, JoinedTyped
<1>4. z \in Libs /\ SameTable(s, z)
  BY SettledTyped DEF Ends
<1>5. Nowhere \in Libs
  <2> DEFINE none == {}
             zero == [n \in Names |-> 0]
  <2>1. none \in SUBSET Names /\ zero \in [Names -> Nat]
    OBVIOUS
  <2> HIDE DEF none, zero
  <2>2. NewFs(none, zero) \in Libs
    BY <2>1, NewFsTyped
  <2> QED
    BY <2>2 DEF Nowhere, none, zero
<1> HIDE DEF z, t
<1>6. SameTable(z, l)
  BY <1>4, <1>5, JoinedTyped
<1> HIDE DEF l, r
<1>7. /\ copy'.pc = c.pc /\ copy'.cmd = c.cmd /\ copy'.name = c.name /\ copy'.h = c.h
      /\ copy'.local = c.local /\ copy'.sent = c.sent /\ copy'.failed = c.failed /\ copy'.clean = c.clean
      /\ copy'.rough = r
  BY <1>1 DEF Copies
<1>8. SameDev(s, fs') /\ SameShare(s, fs') /\ SameTable(s, lib')
  BY <1>1, <1>3, <1>4, <1>6 DEF SameTable
<1> QED
  BY <1>7, <1>8 DEF Stands, r

(* Before a command and after an opening that failed there is nothing to   *)
(* tell.                                                                   *)
LEMMA CopyingNone ==
    ASSUME NEW c, NEW f, NEW table, Staged(c), c.cmd = "none" \/ (c.cmd = "put" /\ c.failed)
    PROVE  Copying(c, f, table)
BY DEF Copying, GetSo, PutSo

(* What opening a file for writing makes of the share.                     *)
LEMMA MadeIs ==
    ASSUME NEW s \in Libs, NEW n \in Names \ Dirs
    PROVE  LET m == Made(s, n, "write") IN
           /\ Exists(m, Parent[n]) <=> Exists(s, Parent[n])
           /\ Exists(s, Parent[n]) => Exists(m, n) /\ m.size[n] = 0
<1> DEFINE e == s.exist \cup {n}
           z == [s.size EXCEPT ![n] = 0]
           a == [s EXCEPT !.exist = e]
           b == [a EXCEPT !.size = z]
           m == Made(s, n, "write")
<1>1. s.size \in [Names -> Nat] /\ n \in Names /\ Parent[n] \in Dirs \cup {Root} /\ Root \notin Names
  BY FujiFsAssumption DEF Libs
<1>2. CASE Exists(s, Parent[n])
  <2>1. a.size = s.size
    BY DEF Libs
  <2>2. m = b
    BY <1>2, <2>1 DEF Made
  <2>3. z[n] = 0
    BY <1>1
  <2>4. b.exist = e /\ b.size = z
    BY DEF Libs
  <2> HIDE DEF b, z, m
  <2>5. m.exist = s.exist \cup {n} /\ m.size[n] = 0
    BY <2>2, <2>3, <2>4
  <2> QED
    BY <1>2, <2>5 DEF Exists, m
<1>3. CASE ~Exists(s, Parent[n])
  <2>1. m = s
    BY <1>3 DEF Made
  <2> QED
    BY <1>3, <2>1
<1> QED
  BY <1>2, <1>3

(* A command of NCOPY's.                                                   *)
LEMMA CommandIs ==
    ASSUME copy \in Copies, NEW cmd \in {"get", "put"}, NEW n \in Names
    PROVE  LET c == Command(cmd, n) IN
           /\ c \in Copies /\ c.cmd = cmd /\ c.name = n /\ c.clean
           /\ c.pc = copy.pc /\ c.local = copy.local /\ c.sent = copy.sent /\ c.failed = copy.failed
           /\ c.rough = copy.rough
<1>1. PICK k \in Copies, yes \in BOOLEAN : k = copy /\ yes = TRUE
  OBVIOUS
<1> DEFINE c == [k EXCEPT !.cmd = cmd, !.name = n, !.clean = yes]
<1>2. Command(cmd, n) = c
  BY <1>1 DEF Command
<1>3. c \in Copies
  BY DEF Copies, Objects
<1>4. /\ c.cmd = cmd /\ c.name = n /\ c.clean = yes
      /\ c.pc = k.pc /\ c.local = k.local /\ c.sent = k.sent /\ c.failed = k.failed /\ c.rough = k.rough
  BY DEF Copies
<1> HIDE DEF c
<1> QED
  BY <1>1, <1>2, <1>3, <1>4

(* A command opens its file: nothing has been copied, and the stream is at *)
(* its beginning.                                                          *)
LEMMA BeginsCopying ==
    ASSUME Typed, CopyTyped, Copying(copy, fs, lib.table), copy.pc = "prompt", NEW luck \in CopyLucks,
           NEW n \in Names \ Dirs, NEW cmd \in {"get", "put"}, NEW mode \in {"read", "write"},
           cmd = "get" <=> mode = "read",
           Begins(Command(cmd, n), Open(Using(luck), copy.host, n, mode, FALSE), luck)
    PROVE  Copying(copy', fs', (lib.table)')
<1>0. PICK no \in BOOLEAN, yes \in BOOLEAN : no = FALSE /\ yes = TRUE
  OBVIOUS
<1> DEFINE w == Using(luck)
           o == Open(w, copy.host, n, mode, no)
           c == Command(cmd, n)
           h == Lowest(Free(w))
           m == Made(w, n, mode)
<1>1. /\ w \in Libs /\ SameTable(lib, w) /\ SameDev(fs, w) /\ SameShare(fs, w) /\ w.trouble = luck[2]
  BY UsingIs
<1>2. copy \in Copies /\ copy.host \in 0..Total
  BY DEF CopyTyped, CopyOpen, Copies
<1>3. Openable(n, mode) /\ n \in Names
  BY DEF Openable, Objects
<1> HIDE DEF w
<1>4. /\ h = 0 => o \in Libs /\ o.err = "no_device"
      /\ h # 0 => h \in Free(w) /\ OpenedAt(w, o, h, n, mode)
  BY <1>1, <1>2, <1>3, OpenTyped
<1>5. /\ c \in Copies /\ c.cmd = cmd /\ c.name = n /\ c.clean
      /\ c.pc = copy.pc /\ c.local = copy.local /\ c.sent = copy.sent /\ c.failed = copy.failed
      /\ c.rough = copy.rough
  BY <1>2, <1>3, CommandIs
<1>6. Begins(c, o, luck)
  BY <1>0 DEF w
<1>7. copy.local = << >> /\ copy.sent = 0 /\ ~copy.failed
  BY DEF Copying, Staged
<1> HIDE DEF o, c, h
<1>8. o \in Libs /\ (o.err = "none" => h \in HandleSet /\ OpenedAt(w, o, h, n, mode) /\ o.h = h)
  BY <1>4 DEF OpenedAt, Free
<1>9. CASE o.err # "none"
  <2> DEFINE e == [c EXCEPT !.failed = yes, !.pc = "gone"]
  <2>1. Continues(e, o, luck)
    BY <1>0, <1>6, <1>9 DEF Begins, Exits
  <2>2. /\ e \in Copies /\ e.pc = "gone" /\ e.failed = yes /\ e.cmd = cmd /\ e.name = n
        /\ e.local = c.local /\ e.sent = c.sent /\ e.clean = c.clean /\ e.rough = c.rough
    BY <1>5 DEF Copies
  <2> HIDE DEF e
  <2>3. Stands(e, o, luck)
    BY <1>8, <2>1, <2>2, ContinuesIs
  <2>4. /\ copy'.pc = "gone" /\ copy'.failed /\ copy'.cmd = cmd /\ copy'.name = n /\ copy'.local = << >>
    BY <1>0, <1>5, <1>7, <2>2, <2>3 DEF Stands
  <2>5. Staged(copy')
    BY <2>4 DEF Staged
  <2>6. \A i \in DOMAIN copy'.local : copy'.local[i] = i
    BY <2>4
  <2> QED
    BY <2>4, <2>5, <2>6 DEF Copying, GetSo, PutSo
<1>10. CASE o.err = "none"
  <2> DEFINE v == o.h
             e == [c EXCEPT !.pc = cmd, !.h = v]
  <2>1. Continues(e, o, luck)
    <3>1. e = [c EXCEPT !.pc = c.cmd, !.h = o.h]
      BY <1>5
    <3> HIDE DEF e
    <3> QED
      BY <1>6, <1>10, <3>1 DEF Begins
  <2>2. v \in 0..Total /\ v = h /\ h \in HandleSet
    BY <1>8, <1>10, FujiFsAssumption DEF HandleSet
  <2> HIDE DEF v
  <2>3. /\ e \in Copies /\ e.pc = cmd /\ e.h = v /\ e.failed = c.failed /\ e.cmd = cmd /\ e.name = n
        /\ e.local = c.local /\ e.sent = c.sent /\ e.clean = c.clean /\ e.rough = c.rough
    BY <1>5, <2>2 DEF Copies
  <2> HIDE DEF e
  <2>4. Stands(e, o, luck)
    BY <1>8, <2>1, <2>3, ContinuesIs
  <2>5. /\ copy'.pc = cmd /\ copy'.h = h /\ ~copy'.failed /\ copy'.cmd = cmd /\ copy'.name = n
        /\ copy'.local = << >> /\ copy'.sent = 0
        /\ SameDev(o, fs') /\ SameShare(o, fs') /\ SameTable(o, lib')
        /\ "prompt" \notin copy'.rough => luck[2] \in {"none", "short"}
    BY <1>5, <1>7, <2>2, <2>3, <2>4 DEF Stands
  <2>6. Staged(copy')
    BY <2>5 DEF Staged
  <2>7. Good(copy') => Calm(w)
    BY <1>1, <2>5 DEF Good, Calm
  <2>8. /\ o.table[h].open
        /\ Calm(w) => /\ o.dev[h] = StreamOf(m, n, mode) /\ SameShare(m, o)
                      /\ mode # "write" => Exists(w, n)
    BY <1>8, <1>10 DEF OpenedAt
  <2>9. m \in Libs /\ (mode # "write" => m = w)
    BY <1>1, <1>3, MadeTyped
  <2> HIDE DEF m
  <2>10. Exists(m, n) => StreamOf(m, n, mode) = [kind |-> "file", obj |-> n, text |-> << >>, at |-> 0]
    BY <1>3, <2>9, StreamTyped
  <2>11. GetSo(copy', fs', (lib.table)')
    <3> SUFFICES ASSUME Good(copy'), cmd = "get"
                 PROVE  /\ (lib.table)'[h].open /\ Len(<< >>) <= (fs.size)'[n]
                        /\ (fs.dev)'[h].kind = "file" /\ (fs.dev)'[h].obj = n /\ (fs.dev)'[h].at = 0
      BY <1>3, <2>5 DEF GetSo
    <3>1. mode = "read" /\ m = w /\ Exists(m, n) /\ o.dev[h] = StreamOf(m, n, mode) /\ SameShare(m, o)
      BY <2>7, <2>8, <2>9
    <3>2. (fs.dev)' = o.dev /\ (fs.size)' = w.size /\ (lib.table)' = o.table
      BY <2>5, <3>1 DEF SameDev, SameShare, SameTable
    <3>3. w.size[n] \in Nat
      BY <1>1, <1>3 DEF Libs
    <3> QED
      BY <2>8, <2>10, <3>1, <3>2, <3>3
  <2>12. PutSo(copy', fs')
    <3> SUFFICES ASSUME Good(copy'), cmd = "put", Exists(fs', Parent[n])
                 PROVE  /\ (fs.size)'[n] = 0
                        /\ (fs.dev)'[h].kind = "file" /\ (fs.dev)'[h].obj = n /\ (fs.dev)'[h].at = 0
      BY <1>3, <2>5 DEF PutSo
    <3>1. mode = "write" /\ o.dev[h] = StreamOf(m, n, mode) /\ SameShare(m, o)
      BY <2>7, <2>8
    <3>2. (fs.dev)' = o.dev /\ (fs.size)' = m.size /\ (fs.exist)' = m.exist
      BY <2>5, <3>1 DEF SameDev, SameShare
    <3>3. Exists(m, Parent[n])
      BY <3>2 DEF Exists
    <3>4. Exists(m, n) /\ m.size[n] = 0
      BY <1>1, <3>1, <3>3, MadeIs DEF m
    <3> QED
      BY <2>10, <3>1, <3>2, <3>4
  <2> QED
    BY <2>6, <2>11, <2>12 DEF Copying
<1> QED
  BY <1>9, <1>10

(* At the prompt and before it there is no command yet.                    *)
LEMMA IdleCopying ==
    ASSUME Typed, CopyTyped, Copying(copy, fs, lib.table), copy.pc \in {"absent", "prompt"},
           NEW luck, NEW s \in Libs, NEW c \in Copies, Continues(c, s, luck),
           c.cmd = copy.cmd, c.clean = copy.clean,
           \/ c.pc = "gone"
           \/ c.pc = "prompt" /\ c.local = copy.local /\ c.sent = copy.sent /\ c.failed = copy.failed
    PROVE  Copying(copy', fs', (lib.table)')
<1>1. Stands(c, s, luck)
  BY ContinuesIs
<1>2. copy.cmd = "none" /\ copy.local = << >> /\ copy.sent = 0 /\ ~copy.failed /\ ~copy.clean
  BY DEF Copying, Staged
<1>3. Staged(copy') /\ copy'.cmd = "none"
  BY <1>1, <1>2 DEF Stands, Staged
<1> QED
  BY <1>3, CopyingNone

(* The prompt's first opening.                                             *)
LEMMA ConnectCopying ==
    ASSUME Typed, CopyTyped, Copying(copy, fs, lib.table), NEW luck \in CopyLucks, Connect(luck)
    PROVE  Copying(copy', fs', (lib.table)')
<1> DEFINE w == Using(luck)
           a == OpenUrl(w, FALSE)
           b == IF a.err = "none" THEN a ELSE OpenUrl(a, TRUE)
           s == Close(b, b.h)
<1>0. PICK no \in BOOLEAN, yes \in BOOLEAN : no = FALSE /\ yes = TRUE
  OBVIOUS
<1>1. w \in Libs /\ copy \in Copies
  BY UsingTyped DEF CopyTyped, CopyOpen
<1>2. ConnectedBy(b, luck) /\ copy.pc = "absent"
  BY DEF Connect, ConnectAgain
<1> HIDE DEF w
<1>3. a \in Libs
  <2>1. OpenUrl(w, no) \in Libs
    BY <1>1, OpenUrlTyped
  <2> QED
    BY <1>0, <2>1
<1> HIDE DEF a
<1>4. b \in Libs /\ (b.err = "none" => b.h \in HandleSet)
  <2> DEFINE o == OpenUrl(a, yes)
             o2 == OpenUrl(w, no)
  <2>1. o \in Libs /\ (o.err = "none" => o.h \in HandleSet)
    BY <1>3, OpenUrlTyped
  <2>2. o2.err = "none" => o2.h \in HandleSet
    BY <1>1, OpenUrlTyped
  <2>3. o = OpenUrl(a, TRUE) /\ a = o2
    BY <1>0 DEF a
  <2> HIDE DEF o, o2
  <2> QED
    BY <1>3, <2>1, <2>2, <2>3
<1> HIDE DEF b
<1>5. s \in Libs
  BY <1>4, CloseTyped
<1>6. CASE b.err # "none"
  <2> DEFINE e == [copy EXCEPT !.pc = "gone"]
  <2>1. Continues(e, b, luck)
    BY <1>2, <1>6 DEF ConnectedBy, Exits
  <2>2. e \in Copies /\ e.pc = "gone" /\ e.cmd = copy.cmd /\ e.clean = copy.clean
    BY <1>1 DEF Copies
  <2> HIDE DEF e
  <2> QED
    BY <1>2, <1>4, <2>1, <2>2, IdleCopying
<1>7. CASE b.err = "none"
  <2> DEFINE v == b.h
             e == [copy EXCEPT !.pc = "prompt", !.host = v]
  <2>1. Continues(e, s, luck)
    BY <1>2, <1>7 DEF ConnectedBy
  <2>2. v \in 0..Total
    BY <1>4, <1>7, FujiFsAssumption DEF HandleSet
  <2> HIDE DEF v
  <2>3. /\ e \in Copies /\ e.pc = "prompt" /\ e.cmd = copy.cmd /\ e.clean = copy.clean
        /\ e.local = copy.local /\ e.sent = copy.sent /\ e.failed = copy.failed
    BY <1>1, <2>2 DEF Copies
  <2> HIDE DEF e, s
  <2> QED
    BY <1>2, <1>5, <2>1, <2>3, IdleCopying
<1> QED
  BY <1>6, <1>7

(* The directory command.                                                  *)
LEMMA ListDirCopying ==
    ASSUME Typed, CopyTyped, Copying(copy, fs, lib.table), NEW luck \in CopyLucks, ListDir(luck)
    PROVE  Copying(copy', fs', (lib.table)')
<1>1. PICK s : Continues(Exits(copy), s, luck)
  BY DEF ListDir, Listed
<1>2. copy.pc = "prompt" /\ copy \in Copies
  BY DEF ListDir, CopyTyped, CopyOpen
<1> DEFINE e == [copy EXCEPT !.pc = "gone"]
           r == IF luck[2] \notin {"none", "short"} THEN e.rough \cup {copy.pc} ELSE e.rough
<1>3. copy' = [e EXCEPT !.rough = r]
  BY <1>1 DEF Continues, Exits
<1>4. e \in Copies /\ e.pc = "gone" /\ e.cmd = copy.cmd /\ e.clean = copy.clean
  BY <1>2 DEF Copies
<1> HIDE DEF e, r
<1>5. copy'.pc = "gone" /\ copy'.cmd = copy.cmd /\ copy'.clean = copy.clean
  BY <1>3, <1>4 DEF Copies
<1>6. copy.cmd = "none" /\ ~copy.clean
  BY <1>2 DEF Copying, Staged
<1>7. Staged(copy') /\ copy'.cmd = "none"
  BY <1>5, <1>6 DEF Staged
<1> QED
  BY <1>7, CopyingNone

(* A turn of the loop of get: what is read goes behind what has been       *)
(* written, and nothing is read only where nothing is left.                *)
LEMMA GetLoopCopying ==
    ASSUME Typed, CopyTyped, Copying(copy, fs, lib.table), NEW room \in BOOLEAN, NEW luck \in CopyLucks,
           GetLoop(room, luck)
    PROVE  Copying(copy', fs', (lib.table)')
<1> DEFINE w == Using(luck)
           h == copy.h
           s == Read(w, h, Chunk)
           n == s.n
           e == GotOn(copy, n, room)
           l == copy.local
           m == [j \in 1..n |-> PieceAt(fs.dev[copy.h], j)]
           q == l \o m
<1>0. PICK yes \in BOOLEAN : yes = TRUE
  OBVIOUS
<1>1. /\ w \in Libs /\ SameTable(lib, w) /\ SameDev(fs, w) /\ SameShare(fs, w) /\ w.trouble = luck[2]
  BY UsingIs
<1>2. /\ copy \in Copies /\ h \in HandleSet /\ Chunk \in Nat /\ Chunk > 0 /\ copy.pc = "get"
      /\ copy.cmd = "get"
  BY NcopyAssumption DEF CopyTyped, CopyOpen, GetLoop, Copying, Staged
<1>3. Continues(e, s, luck)
  BY DEF GetLoop, GetMore
<1> HIDE DEF w
<1>4. HasRead(w, s, h, Chunk)
  BY <1>1, <1>2, ReadTyped
<1> HIDE DEF s
<1>5. /\ s \in Libs /\ n \in 0..Chunk /\ SameTable(w, s) /\ SameShare(w, s) /\ SameStream(w.dev[h], s.dev[h])
      /\ Left(s, h) + n <= Left(w, h)
      /\ n > 0 => s.dev[h].at = w.dev[h].at + n
      /\ Calm(w) /\ IsOpen(w, h) /\ n = 0 => Left(w, h) = 0
  BY <1>2, <1>4 DEF HasRead
<1>6. n \in Nat /\ l \in Seq(Nat) /\ Len(l) \in Nat
  <2>1. n \in Nat /\ l \in Seq(Nat)
    BY <1>2, <1>5 DEF Copies
  <2> QED
    BY <2>1
<1>7. Left(s, h) \in Nat /\ Left(w, h) \in Nat
  BY <1>1, <1>2, <1>5, LeftTyped
<1> HIDE DEF n
<1>8. m \in Seq(Nat) /\ Len(m) = n /\ \A j \in 1..n : m[j] = PieceAt(fs.dev[h], j)
  <2>1. fs.dev[h].at \in Nat
    BY <1>2 DEF Typed, StateTyped, Libs, Streams
  <2>2. \A j \in 1..n : PieceAt(fs.dev[h], j) \in Nat
    BY <1>6, <2>1 DEF PieceAt
  <2>3. m \in [1..n -> Nat] /\ \A j \in 1..n : m[j] = PieceAt(fs.dev[h], j)
    BY <2>2
  <2> HIDE DEF m
  <2> QED
    BY <1>6, <2>3
<1> HIDE DEF m, l
<1>9. q \in Seq(Nat) /\ Len(q) = Len(l) + n
  <2>1. m \in Seq(Nat) /\ Len(m) = n
    BY <1>8
  <2>2. l \in Seq(Nat)
    BY <1>6
  <2>3. l \o m \in Seq(Nat) /\ Len(l \o m) = Len(l) + Len(m)
    BY <2>1, <2>2
  <2> QED
    BY <2>1, <2>3
<1>10. /\ \A i \in DOMAIN l : q[i] = l[i] /\ DOMAIN l = 1..Len(l)
       /\ \A i \in 1..n : q[Len(l) + i] = m[i]
  BY <1>6, <1>8
<1> HIDE DEF q
<1>11. CASE n > 0 /\ room
  <2> DEFINE c == [copy EXCEPT !.local = q]
  <2>1. e = c
    BY <1>6, <1>11 DEF GotOn, q, l, m
  <2>2. /\ c \in Copies /\ c.pc = copy.pc /\ c.cmd = copy.cmd /\ c.name = copy.name /\ c.h = copy.h
        /\ c.local = q /\ c.sent = copy.sent /\ c.failed = copy.failed /\ c.clean = copy.clean
        /\ c.rough = copy.rough
    BY <1>2, <1>9 DEF Copies
  <2> HIDE DEF c, e
  <2>3. Stands(c, s, luck)
    BY <1>3, <1>5, <2>1, <2>2, ContinuesIs
  <2>4. /\ copy'.pc = "get" /\ copy'.cmd = "get" /\ copy'.name = copy.name /\ copy'.h = h
        /\ copy'.local = q /\ copy'.failed = copy.failed
        /\ Good(copy') => Good(copy)
        /\ (fs.dev)' = s.dev /\ (fs.size)' = s.size /\ (lib.table)' = s.table
    BY <1>2, <2>2, <2>3 DEF Stands, SameDev, SameShare, SameTable, Good
  <2>5. Staged(copy')
    BY <2>4 DEF Staged
  <2>6. GetSo(copy', fs', (lib.table)')
    <3> SUFFICES ASSUME Good(copy')
                 PROVE  /\ copy.name \in Names \ Dirs
                        /\ \A i \in DOMAIN q : q[i] = i
                        /\ ~copy.failed /\ s.table[h].open /\ Len(q) <= s.size[copy.name]
                        /\ s.dev[h].kind = "file" /\ s.dev[h].obj = copy.name /\ s.dev[h].at = Len(q)
      BY <2>4 DEF GetSo
    <3>1. /\ copy.name \in Names \ Dirs
          /\ \A i \in DOMAIN l : l[i] = i
          /\ ~copy.failed /\ lib.table[h].open /\ Len(l) <= fs.size[copy.name]
          /\ fs.dev[h].kind = "file" /\ fs.dev[h].obj = copy.name /\ fs.dev[h].at = Len(l)
      BY <1>2, <2>4 DEF Copying, GetSo, l
    <3>2. /\ s.table[h].open /\ s.dev[h].kind = "file" /\ s.dev[h].obj = copy.name
          /\ s.dev[h].at = Len(l) + n /\ s.size = fs.size
      BY <1>1, <1>5, <1>11, <3>1 DEF SameTable, SameDev, SameShare, SameStream
    <3>3. Len(l) + n <= fs.size[copy.name]
      <4>1. fs.size[copy.name] \in Nat
        BY <3>1 DEF Typed, StateTyped, Libs
      <4>2. w.dev[h].kind = "file" /\ w.dev[h].obj = copy.name /\ w.dev[h].at = Len(l) /\ w.size = fs.size
        BY <1>1, <3>1 DEF SameDev, SameShare
      <4>3. Left(w, h) = IF Len(l) < fs.size[copy.name] THEN fs.size[copy.name] - Len(l) ELSE 0
        BY <4>2 DEF Left
      <4> QED
        BY <1>5, <1>6, <1>7, <3>1, <4>1, <4>3
    <3>4. ASSUME NEW i \in DOMAIN q PROVE q[i] = i
      <4>1. i \in 1..(Len(l) + n)
        BY <1>9
      <4>2. CASE i \in 1..Len(l)
        BY <1>6, <1>10, <3>1, <4>2
      <4>3. CASE i \notin 1..Len(l)
        <5>1. i - Len(l) \in 1..n /\ Len(l) + (i - Len(l)) = i
          BY <1>6, <4>1, <4>3
        <5>2. q[Len(l) + (i - Len(l))] = PieceAt(fs.dev[h], i - Len(l))
          BY <1>8, <1>10, <5>1
        <5>3. PieceAt(fs.dev[h], i - Len(l)) = Len(l) + (i - Len(l))
          BY <3>1 DEF PieceAt
        <5> QED
          BY <5>1, <5>2, <5>3
      <4> QED
        BY <4>2, <4>3
    <3> QED
      BY <1>9, <3>1, <3>2, <3>3, <3>4
  <2>7. PutSo(copy', fs')
    BY <2>4 DEF PutSo
  <2> QED
    BY <2>5, <2>6, <2>7 DEF Copying
<1>12. CASE ~(n > 0 /\ room)
  <2> DEFINE f == IF n = 0 THEN copy.failed ELSE yes
             c == [copy EXCEPT !.pc = "close", !.failed = f]
  <2>1. e = c
    <3>1. CASE n = 0
      <4>1. f = copy.failed /\ e = [copy EXCEPT !.pc = "close"]
        BY <3>1 DEF GotOn
      <4> QED
        BY <1>2, <4>1 DEF Copies
    <3>2. CASE n # 0
      <4>1. f = yes /\ e = [copy EXCEPT !.pc = "close", !.failed = TRUE]
        BY <1>6, <1>12, <3>2 DEF GotOn
      <4> QED
        BY <1>0, <4>1
    <3> QED
      BY <3>1, <3>2
  <2>2. f \in BOOLEAN
    BY <1>2 DEF Copies
  <2> HIDE DEF f
  <2>3. /\ c \in Copies /\ c.pc = "close" /\ c.cmd = copy.cmd /\ c.name = copy.name
        /\ c.local = copy.local /\ c.failed = f /\ c.clean = copy.clean /\ c.rough = copy.rough
    BY <1>2, <2>2 DEF Copies
  <2> HIDE DEF c, e
  <2>4. Stands(c, s, luck)
    BY <1>3, <1>5, <2>1, <2>3, ContinuesIs
  <2>5. /\ copy'.pc = "close" /\ copy'.cmd = "get" /\ copy'.name = copy.name
        /\ copy'.local = l /\ copy'.failed = f
        /\ Good(copy') => Good(copy)
        /\ "get" \notin copy'.rough => luck[2] \in {"none", "short"}
        /\ (fs.size)' = s.size
    BY <1>2, <2>3, <2>4 DEF Stands, SameShare, Good, l
  <2>6. Staged(copy')
    BY <2>5 DEF Staged
  <2>7. GetSo(copy', fs', (lib.table)')
    <3> SUFFICES ASSUME Good(copy')
                 PROVE  /\ copy.name \in Names \ Dirs
                        /\ \A i \in DOMAIN l : l[i] = i
                        /\ ~f /\ "get" \notin copy'.rough => Len(l) = s.size[copy.name]
      BY <2>5 DEF GetSo
    <3>1. /\ copy.name \in Names \ Dirs
          /\ \A i \in DOMAIN l : l[i] = i
          /\ lib.table[h].open /\ Len(l) <= fs.size[copy.name]
          /\ fs.dev[h].kind = "file" /\ fs.dev[h].obj = copy.name /\ fs.dev[h].at = Len(l)
      BY <1>2, <2>5 DEF Copying, GetSo, l
    <3>2. ASSUME ~f, "get" \notin copy'.rough PROVE Len(l) = s.size[copy.name]
      <4>1. n = 0 /\ Calm(w)
        BY <1>0, <1>1, <2>5, <3>2 DEF f, Calm
      <4>2. IsOpen(w, h)
        BY <1>1, <1>2, <3>1 DEF IsOpen, SameTable
      <4>3. Left(w, h) = 0
        BY <1>5, <4>1, <4>2
      <4>4. fs.size[copy.name] \in Nat /\ s.size = fs.size
        BY <1>1, <1>5, <3>1 DEF Typed, StateTyped, Libs, SameShare
      <4>5. w.dev[h].kind = "file" /\ w.dev[h].obj = copy.name /\ w.dev[h].at = Len(l) /\ w.size = fs.size
        BY <1>1, <3>1 DEF SameDev, SameShare
      <4>6. Left(w, h) = IF Len(l) < fs.size[copy.name] THEN fs.size[copy.name] - Len(l) ELSE 0
        BY <4>5 DEF Left
      <4> QED
        BY <1>6, <3>1, <4>3, <4>4, <4>6
    <3> QED
      BY <3>1, <3>2
  <2>8. PutSo(copy', fs')
    BY <2>5 DEF PutSo
  <2> QED
    BY <2>6, <2>7, <2>8 DEF Copying
<1> QED
  BY <1>11, <1>12

(* A turn of the loop of put: what the file has grown by is what was sent. *)
LEMMA PutLoopCopying ==
    ASSUME Typed, CopyTyped, Copying(copy, fs, lib.table), NEW luck \in CopyLucks, PutLoop(luck)
    PROVE  Copying(copy', fs', (lib.table)')
<1> DEFINE w == Using(luck)
           h == copy.h
           k == next
           s == Write(w, h, k)
           e == PutOn(copy, s.n, k)
           z == copy.sent
           v == z + k
<1>0. PICK yes \in BOOLEAN : yes = TRUE
  OBVIOUS
<1>1. /\ w \in Libs /\ SameTable(lib, w) /\ SameDev(fs, w) /\ SameShare(fs, w) /\ w.trouble = luck[2]
  BY UsingIs
<1>2. /\ copy \in Copies /\ h \in HandleSet /\ h \in Int /\ copy.pc = "put" /\ copy.cmd = "put"
  BY DEF CopyTyped, CopyOpen, PutLoop, HandleSet, Copying, Staged
<1>3. Continues(e, s, luck)
  BY DEF PutLoop, PutMore
<1>4. k \in Nat /\ k > 0 /\ z \in Nat /\ v \in 0..LocalSize
  <2>1. z \in 0..LocalSize /\ k = Smaller(Chunk, LocalSize - z) /\ k > 0 /\ Chunk \in Nat /\ LocalSize \in Nat
    BY <1>2, NcopyAssumption DEF Copies, next, PutLoop
  <2> HIDE DEF z, k
  <2> QED
    BY <2>1 DEF Smaller
<1> HIDE DEF w, k
<1>5. HasWritten(w, s, h, k)
  BY <1>1, <1>2, <1>4, WriteTyped
<1> HIDE DEF s
<1>6. /\ s \in Libs /\ SameTable(w, s) /\ s.exist = w.exist /\ SameStream(w.dev[h], s.dev[h])
      /\ s.n = k => /\ w.dev[h].kind = "file" /\ s.dev[h].at = w.dev[h].at + k
                    /\ s.size = [w.size EXCEPT ![w.dev[h].obj] = IF w.dev[h].at + k > @ THEN w.dev[h].at + k ELSE @]
  BY <1>2, <1>5 DEF HasWritten
<1>7. CASE s.n # k
  <2> DEFINE c == [copy EXCEPT !.pc = "close", !.failed = yes]
  <2>1. e = c
    BY <1>0, <1>7 DEF PutOn
  <2>2. c \in Copies /\ c.pc = "close" /\ c.cmd = "put" /\ c.failed
    BY <1>0, <1>2 DEF Copies
  <2> HIDE DEF c, e
  <2>3. Stands(c, s, luck)
    BY <1>3, <1>6, <2>1, <2>2, ContinuesIs
  <2>4. copy'.pc = "close" /\ copy'.cmd = "put" /\ copy'.failed
    BY <2>2, <2>3 DEF Stands
  <2>5. Staged(copy')
    BY <2>4 DEF Staged
  <2> QED
    BY <2>4, <2>5, CopyingNone
<1>8. CASE s.n = k
  <2> DEFINE c == [copy EXCEPT !.sent = v]
  <2>1. e = c
    BY <1>8 DEF PutOn
  <2>2. /\ c \in Copies /\ c.pc = "put" /\ c.cmd = "put" /\ c.name = copy.name /\ c.h = h
        /\ c.local = copy.local /\ c.sent = v /\ c.failed = copy.failed /\ c.clean = copy.clean
        /\ c.rough = copy.rough
    <3> HIDE DEF v
    <3> QED
      BY <1>2, <1>4 DEF Copies
  <2> HIDE DEF c, e
  <2>3. Stands(c, s, luck)
    BY <1>3, <1>6, <2>1, <2>2, ContinuesIs
  <2>4. /\ copy'.pc = "put" /\ copy'.cmd = "put" /\ copy'.name = copy.name /\ copy'.h = h
        /\ copy'.sent = v /\ copy'.failed = copy.failed
        /\ Good(copy') => Good(copy)
        /\ (fs.dev)' = s.dev /\ (fs.size)' = s.size /\ (fs.exist)' = s.exist
    BY <2>2, <2>3 DEF Stands, SameDev, SameShare, Good
  <2>5. Staged(copy')
    BY <2>4 DEF Staged
  <2>6. GetSo(copy', fs', (lib.table)')
    BY <2>4 DEF GetSo
  <2>7. PutSo(copy', fs')
    <3> SUFFICES ASSUME Good(copy'), ~copy.failed, Exists(fs', Parent[copy.name])
                 PROVE  /\ copy.name \in Names \ Dirs /\ s.size[copy.name] = v
                        /\ s.dev[h].kind = "file" /\ s.dev[h].obj = copy.name /\ s.dev[h].at = v
      BY <2>4 DEF PutSo
    <3>1. Exists(fs, Parent[copy.name])
      BY <1>1, <1>6, <2>4 DEF SameShare, Exists
    <3>2. /\ copy.name \in Names \ Dirs /\ fs.size[copy.name] = z
          /\ fs.dev[h].kind = "file" /\ fs.dev[h].obj = copy.name /\ fs.dev[h].at = z
      BY <1>2, <2>4, <3>1 DEF Copying, PutSo
    <3>3. w.dev[h].kind = "file" /\ w.dev[h].obj = copy.name /\ w.dev[h].at = z /\ w.size[copy.name] = z
      BY <1>1, <3>2 DEF SameDev, SameShare
    <3>4. w.size \in [Names -> Nat]
      BY <1>1 DEF Libs
    <3> HIDE DEF z
    <3>5. s.size[copy.name] = IF v > w.size[copy.name] THEN v ELSE w.size[copy.name]
      BY <1>6, <1>8, <3>2, <3>3, <3>4
    <3>6. s.dev[h].kind = "file" /\ s.dev[h].obj = copy.name /\ s.dev[h].at = v
      BY <1>6, <1>8, <3>3 DEF SameStream
    <3> QED
      BY <1>4, <3>2, <3>3, <3>5, <3>6
  <2> QED
    BY <2>5, <2>6, <2>7 DEF Copying
<1> QED
  BY <1>7, <1>8

(* The end: all has been read, or sent, or the command has said that it    *)
(* failed.                                                                 *)
LEMMA CloseCopyCopying ==
    ASSUME Typed, CopyTyped, Copying(copy, fs, lib.table), NEW luck \in CopyLucks, CloseCopy(luck)
    PROVE  Copying(copy', fs', (lib.table)')
<1> DEFINE w == Using(luck)
           s == Close(w, copy.h)
           e == [copy EXCEPT !.pc = "gone"]
<1>1. w \in Libs /\ SameShare(fs, w)
  BY UsingIs
<1>2. copy \in Copies
  BY DEF CopyTyped, CopyOpen
<1>3. Continues(e, s, luck) /\ (copy.pc = "close" \/ (copy.pc = "put" /\ next = 0))
  BY DEF CloseCopy, Exits
<1> HIDE DEF w
<1>4. s \in Libs /\ SameShare(w, s)
  BY <1>1, CloseTyped
<1> HIDE DEF s
<1>5. /\ e \in Copies /\ e.pc = "gone" /\ e.cmd = copy.cmd /\ e.name = copy.name /\ e.local = copy.local
      /\ e.sent = copy.sent /\ e.failed = copy.failed /\ e.clean = copy.clean /\ e.rough = copy.rough
  BY <1>2 DEF Copies
<1> HIDE DEF e
<1>6. Stands(e, s, luck)
  BY <1>3, <1>4, <1>5, ContinuesIs
<1>7. /\ copy'.pc = "gone" /\ copy'.cmd = copy.cmd /\ copy'.name = copy.name /\ copy'.local = copy.local
      /\ copy'.sent = copy.sent /\ copy'.failed = copy.failed
      /\ Good(copy') => Good(copy)
      /\ copy.rough \subseteq copy'.rough /\ copy.cmd # "none"
      /\ (fs.size)' = fs.size /\ (fs.exist)' = fs.exist
  BY <1>1, <1>3, <1>4, <1>5, <1>6 DEF Stands, SameShare, Good, Copying, Staged
<1>8. Staged(copy')
  BY <1>7 DEF Staged
<1>9. GetSo(copy', fs', (lib.table)')
  <2> SUFFICES ASSUME Good(copy), copy.cmd = "get"
               PROVE  /\ copy.name \in Names \ Dirs
                      /\ \A i \in DOMAIN copy.local : copy.local[i] = i
                      /\ ~copy.failed /\ "get" \notin copy.rough => Len(copy.local) = fs.size[copy.name]
    BY <1>7 DEF GetSo
  <2>1. copy.pc # "get"
    BY <1>3
  <2> QED
    BY <2>1 DEF Copying, GetSo
<1>10. PutSo(copy', fs')
  <2>1. ASSUME copy.cmd = "put", ~copy.failed PROVE copy.sent = LocalSize
    <3>1. next = 0
      BY <1>3, <2>1 DEF Copying, Staged
    <3>2. copy.sent \in 0..LocalSize /\ Chunk \in Nat /\ Chunk > 0 /\ LocalSize \in Nat
      BY <1>2, NcopyAssumption DEF Copies
    <3> QED
      BY <3>1, <3>2 DEF next, Smaller
  <2>2. ASSUME Good(copy), copy.cmd = "put", ~copy.failed, Exists(fs, Parent[copy.name])
        PROVE  copy.name \in Names \ Dirs /\ fs.size[copy.name] = copy.sent
    BY <2>2 DEF Copying, PutSo
  <2> QED
    BY <1>7, <2>1, <2>2 DEF PutSo, Exists
<1> QED
  BY <1>8, <1>9, <1>10 DEF Copying

(* Every step of NCOPY's.                                                  *)
LEMMA NcopyCopying ==
    ASSUME Typed, CopyTyped, Copying(copy, fs, lib.table), NcopyStep
    PROVE  Copying(copy', fs', (lib.table)')
<1>1. PICK luck \in CopyLucks :
          \/ Connect(luck) \/ ListDir(luck)
          \/ \E n \in Names \ Dirs : Get(n, luck) \/ Put(n, luck)
          \/ \E room \in BOOLEAN : GetLoop(room, luck)
          \/ PutLoop(luck) \/ CloseCopy(luck)
  BY DEF NcopyStep
<1>2. CASE \E n \in Names \ Dirs : Get(n, luck) \/ Put(n, luck)
  <2>1. PICK n \in Names \ Dirs : Get(n, luck) \/ Put(n, luck)
    BY <1>2
  <2>2. CASE Get(n, luck)
    <3>1. PICK cmd \in {"get", "put"}, mode \in {"read", "write"} : cmd = "get" /\ mode = "read"
      OBVIOUS
    <3>2. Begins(Command(cmd, n), Open(Using(luck), copy.host, n, mode, FALSE), luck) /\ copy.pc = "prompt"
      BY <2>2, <3>1 DEF Get
    <3>3. cmd = "get" <=> mode = "read"
      BY <3>1
    <3> QED
      BY <3>2, <3>3, BeginsCopying
  <2>3. CASE Put(n, luck)
    <3>1. PICK cmd \in {"get", "put"}, mode \in {"read", "write"} : cmd = "put" /\ mode = "write"
      OBVIOUS
    <3>2. Begins(Command(cmd, n), Open(Using(luck), copy.host, n, mode, FALSE), luck) /\ copy.pc = "prompt"
      BY <2>3, <3>1 DEF Put
    <3>3. cmd = "get" <=> mode = "read"
      BY <3>1
    <3> QED
      BY <3>2, <3>3, BeginsCopying
  <2> QED
    BY <2>1, <2>2, <2>3
<1> QED
  BY <1>1, <1>2, ConnectCopying, ListDirCopying, GetLoopCopying, PutLoopCopying, CloseCopyCopying

(* A call of the redirector's: what it does to the share or to the stream  *)
(* of the copy is remarked.                                                *)
LEMMA BesideCopying ==
    ASSUME CopyTyped, Copying(copy, fs, lib.table), RedirectorStep
    PROVE  Copying(copy', fs', (lib.table)')
<1> DEFINE b == copy.clean /\ Undisturbed /\ fs'.size = fs.size /\ fs'.exist = fs.exist
<1>1. copy' = [copy EXCEPT !.clean = b] /\ (lib.table)' = lib.table
  BY DEF RedirectorStep
<1>2. copy \in Copies /\ (copy.pc \in {"get", "put", "close"} => copy.h \in HandleSet)
  BY DEF CopyTyped, CopyOpen
<1>3. b => copy.clean /\ (copy.h # 0 => (fs.dev)'[copy.h] = fs.dev[copy.h])
           /\ (fs.size)' = fs.size /\ (fs.exist)' = fs.exist
  BY DEF Undisturbed
<1> HIDE DEF b
<1>4. /\ copy'.pc = copy.pc /\ copy'.cmd = copy.cmd /\ copy'.name = copy.name /\ copy'.h = copy.h
      /\ copy'.local = copy.local /\ copy'.sent = copy.sent /\ copy'.failed = copy.failed
      /\ copy'.rough = copy.rough /\ copy'.clean = b
  BY <1>1, <1>2 DEF Copies
<1>5. copy.pc \in {"get", "put"} => copy.h # 0
  BY <1>2, FujiFsAssumption DEF HandleSet
<1>6. PICK c, d, f, g, table : c = copy /\ d = copy' /\ f = fs /\ g = fs' /\ table = lib.table
  OBVIOUS
<1>7. Copying(d, g, table)
  BY <1>3, <1>4, <1>5, <1>6, CopyingSame
<1> QED
  BY <1>1, <1>6, <1>7

(* In every reachable state the copy stands where the stream it reads or   *)
(* writes does.                                                            *)
LEMMA CopyingInductive == CopySpec => []Copying(copy, fs, lib.table)
<1>1. CopyInit => Copying(copy, fs, lib.table)
  <2> SUFFICES ASSUME CopyInit PROVE Copying(copy, fs, lib.table)
    OBVIOUS
  <2>1. Staged(copy) /\ copy.cmd = "none"
    BY DEF CopyInit, NoCopy, Staged
  <2> QED
    BY <2>1, CopyingNone
<1>2. Types /\ Copying(copy, fs, lib.table) /\ [CopyNext]_copyVars => Copying(copy, fs, lib.table)'
  <2> SUFFICES ASSUME Types, Copying(copy, fs, lib.table), [CopyNext]_copyVars
               PROVE  Copying(copy', fs', (lib.table)')
    OBVIOUS
  <2>1. Typed /\ CopyTyped
    BY DEF Types
  <2>2. CASE NcopyStep
    BY <2>1, <2>2, NcopyCopying
  <2>3. CASE RedirectorStep
    BY <2>1, <2>3, BesideCopying
  <2>4. CASE UNCHANGED copyVars
    <3>1. copy' = copy /\ fs' = fs /\ (lib.table)' = lib.table
      BY <2>4 DEF copyVars, vars
    <3> QED
      BY <3>1
  <2> QED
    BY <2>2, <2>3, <2>4 DEF CopyNext, AllDone
<1> QED
  BY <1>1, <1>2, TypesHold, PTL DEF CopySpec

(* If the OPEN went well and nobody else uses NCOPY's network device or    *)
(* changes the share, then what GET has written is the beginning of the    *)
(* file, and all of it when it says nothing and no call failed; and PUT    *)
(* has sent all of its file when it says nothing, and what it has sent is  *)
(* what lies on the share, if there is its directory: whatever the sizes   *)
(* of the file and of the buffer, however the reads come out, and whatever *)
(* the redirector does in between over handles that NCOPY's library knows  *)
(* nothing of.                                                             *)
THEOREM CopiesTrue == CopySpec => []CopyTrue
<1>1. Copying(copy, fs, lib.table) => CopyTrue
  <2> SUFFICES ASSUME Copying(copy, fs, lib.table), Good(copy)
               PROVE  /\ copy.cmd = "get" =>
                          /\ \A i \in DOMAIN copy.local : copy.local[i] = i
                          /\ copy.pc = "gone" /\ ~copy.failed /\ "get" \notin copy.rough =>
                                Len(copy.local) = fs.size[copy.name]
                      /\ copy.cmd = "put" /\ ~copy.failed =>
                          /\ copy.pc = "gone" => copy.sent = LocalSize
                          /\ Exists(fs, Parent[copy.name]) => fs.size[copy.name] = copy.sent
    BY DEF CopyTrue, Good
  <2> QED
    BY DEF Copying, GetSo, PutSo
<1> QED
  BY <1>1, CopyingInductive, PTL

=============================================================================
