---------------------------- MODULE FujiFsProofs ----------------------------
(***************************************************************************)
(* What each call of the FujiNet file library leaves of its state: its     *)
(* types, the handles and streams it touches, what it does when nothing    *)
(* fails, and where it leaves a directory that is being read.              *)
(***************************************************************************)
EXTENDS FujiFs, WellFoundedInduction, TLAPS

(* The records the library's state is made of.                             *)
Handles == [open : BOOLEAN, parent : 0..Total, auth : BOOLEAN, user : BOOLEAN,
            position : 0..BufSize, length : 0..BufSize]
Kinds == {"closed", "dir", "file"}
Objects == Names \cup {Root}
Streams == {d \in [kind : Kinds, obj : Objects, text : Seq(Pieces), at : Nat] :
               /\ d.kind = "dir" => d.at <= Len(d.text) /\ Len(d.text) <= 2 * Len(Order)
               /\ d.kind = "file" => d.obj \in Names}
Statuses == [len : Nat, err : {"ok", "eof", "failed"}]
Errors == {"none", "no_device", "service", "not_connected", "failed", "not_found"}
Entries == Names \cup {"none", "junk", "end"}
Libs == [table : [HandleSet -> Handles], buf : [1..BufSize -> Pieces], status : Statuses,
         dev : [HandleSet -> Streams], exist : SUBSET Names, size : [Names -> Nat],
         fuse : Nat, trouble : {"none", "refused", "unacked", "short", "empty"}, reply : BOOLEAN,
         h : 0..Total, n : Int, err : Errors, ent : Entries, data : Seq(Pieces)]

(* The smaller of two numbers.                                             *)
LEMMA SmallerTyped ==
    ASSUME NEW a \in Nat, NEW b \in Nat
    PROVE  Smaller(a, b) \in Nat /\ Smaller(a, b) <= a /\ Smaller(a, b) <= b
BY DEF Smaller

(* What is left to read of a stream; of a directory, what its text has past the *)
(* place it is read at.                                                    *)
LEMMA LeftTyped ==
    ASSUME NEW s \in Libs, NEW h \in HandleSet
    PROVE  /\ Left(s, h) \in Nat
           /\ s.dev[h].kind = "dir" => s.dev[h].at + Left(s, h) = Len(s.dev[h].text)
<1> DEFINE d == s.dev[h]
<1>1. d \in Streams
    BY DEF Libs
<1>2. d.at \in Nat /\ d.text \in Seq(Pieces) /\ Len(d.text) \in Nat /\ d.obj \in Objects
    BY <1>1 DEF Streams
<1>3. s.size \in [Names -> Nat] BY DEF Libs
<1>4. QED BY <1>1, <1>2, <1>3 DEF Left, Streams

(* A call that sets one field leaves a state of the library.               *)
LEMMA FieldSet ==
    ASSUME NEW s \in Libs
    PROVE  /\ \A v \in Nat : [s EXCEPT !.fuse = v] \in Libs
           /\ \A v \in BOOLEAN : [s EXCEPT !.reply = v] \in Libs
           /\ \A v \in [HandleSet -> Handles] : [s EXCEPT !.table = v] \in Libs
           /\ \A v \in [1..BufSize -> Pieces] : [s EXCEPT !.buf = v] \in Libs
           /\ \A v \in Statuses : [s EXCEPT !.status = v] \in Libs
           /\ \A v \in [HandleSet -> Streams] : [s EXCEPT !.dev = v] \in Libs
           /\ \A v \in SUBSET Names : [s EXCEPT !.exist = v] \in Libs
           /\ \A v \in [Names -> Nat] : [s EXCEPT !.size = v] \in Libs
           /\ \A v \in 0..Total : [s EXCEPT !.h = v] \in Libs
           /\ \A v \in Int : [s EXCEPT !.n = v] \in Libs
           /\ \A v \in Errors : [s EXCEPT !.err = v] \in Libs
           /\ \A v \in Entries : [s EXCEPT !.ent = v] \in Libs
           /\ \A v \in Seq(Pieces) : [s EXCEPT !.data = v] \in Libs
<1> DEFINE H == 0..Total
           Bs == [1..BufSize -> Pieces]
           Ts == [HandleSet -> Handles]
           Ds == [HandleSet -> Streams]
           Ns == [Names -> Nat]
           Xs == SUBSET Names
           Ps == Seq(Pieces)
           Ks == {"none", "refused", "unacked", "short", "empty"}
<1>1. Libs = [table : Ts, buf : Bs, status : Statuses,
         dev : Ds, exist : Xs, size : Ns,
         fuse : Nat, trouble : Ks, reply : BOOLEAN,
         h : H, n : Int, err : Errors, ent : Entries, data : Ps]
    BY DEF Libs
<1> HIDE DEF H, Bs, Ts, Ds, Ns, Xs, Ps, Ks
<1>2. \A v \in Nat : [s EXCEPT !.fuse = v] \in Libs
    BY <1>1
<1>3. \A v \in BOOLEAN : [s EXCEPT !.reply = v] \in Libs
    BY <1>1
<1>4. \A v \in Ts : [s EXCEPT !.table = v] \in Libs
    BY <1>1
<1>5. \A v \in Bs : [s EXCEPT !.buf = v] \in Libs
    BY <1>1
<1>6. \A v \in Statuses : [s EXCEPT !.status = v] \in Libs
    BY <1>1
<1>7. \A v \in Ds : [s EXCEPT !.dev = v] \in Libs
    BY <1>1
<1>8. \A v \in Xs : [s EXCEPT !.exist = v] \in Libs
    BY <1>1
<1>9. \A v \in Ns : [s EXCEPT !.size = v] \in Libs
    BY <1>1
<1>10. \A v \in H : [s EXCEPT !.h = v] \in Libs
    BY <1>1
<1>11. \A v \in Int : [s EXCEPT !.n = v] \in Libs
    BY <1>1
<1>12. \A v \in Errors : [s EXCEPT !.err = v] \in Libs
    BY <1>1
<1>13. \A v \in Entries : [s EXCEPT !.ent = v] \in Libs
    BY <1>1
<1>14. \A v \in Ps : [s EXCEPT !.data = v] \in Libs
    BY <1>1
<1> QED
    BY <1>2, <1>3, <1>4, <1>5, <1>6, <1>7, <1>8, <1>9, <1>10, <1>11, <1>12, <1>13, <1>14
    DEF H, Bs, Ts, Ds, Ns, Xs, Ps, Ks

(* The bus call: what it does when it works, or nothing.                   *)
LEMMA CalledTyped ==
    ASSUME NEW s \in Libs, NEW worked \in Libs
    PROVE  Called(s, worked) \in Libs
<1> DEFINE base == IF s.fuse = 1 /\ s.trouble = "refused" THEN s ELSE worked
           ok == ~(s.fuse = 1 /\ s.trouble \in {"refused", "unacked"})
           left == IF base.fuse > 0 THEN base.fuse - 1 ELSE 0
           burnt == [base EXCEPT !.fuse = left]
<1>1. base \in Libs /\ ok \in BOOLEAN /\ left \in Nat
    BY DEF Libs
<1>2. Called(s, worked) = [burnt EXCEPT !.reply = ok]
    BY DEF Called
<1> HIDE DEF ok, base, left
<1>3. burnt \in Libs
    BY <1>1, FieldSet
<1> HIDE DEF burnt
<1> QED
    BY <1>1, <1>2, <1>3, FieldSet

-----------------------------------------------------------------------------
(* What an operation leaves as it was.                                     *)

(* Only the handles of H and their streams have changed, and trouble comes *)
(* up only when it was due.                                                *)
Elsewise(s, t, H) ==
    /\ \A h \in HandleSet \ H : t.table[h] = s.table[h] /\ t.dev[h] = s.dev[h]
    /\ s.fuse = 0 => t.fuse = 0
(* What a step leaves alone: the share, the table of handles, the device's *)
(* streams, the one buffer, or all of it.                                  *)
SameShare(s, t) == t.exist = s.exist /\ t.size = s.size
SameTable(s, t) == t.table = s.table
SameDev(s, t) == t.dev = s.dev
SameText(s, t) == t.buf = s.buf
SameFields(s, t) ==
    /\ SameTable(s, t) /\ SameDev(s, t) /\ SameText(s, t) /\ SameShare(s, t) /\ t.status = s.status
    /\ t.h = s.h /\ t.n = s.n /\ t.err = s.err /\ t.ent = s.ent /\ t.data = s.data /\ t.trouble = s.trouble

(* Trouble that fails no call: of what is left only the first piece is at  *)
(* hand.                                                                   *)
Calm(s) == s.trouble \in {"none", "short"}

(* A call of the FujiNet is carried out or not; without trouble it is.     *)
LEMMA CalledIs ==
    ASSUME NEW s \in Libs, NEW worked \in Libs, worked.fuse = s.fuse /\ worked.trouble = s.trouble
    PROVE  \E t \in {s, worked} :
              /\ SameFields(t, Called(s, worked))
              /\ s.fuse = 0 => t = worked /\ Called(s, worked).reply /\ Called(s, worked).fuse = 0
              /\ Called(s, worked).reply => t = worked
              /\ Calm(s) => Called(s, worked).reply
<1> DEFINE base == IF s.fuse = 1 /\ s.trouble = "refused" THEN s ELSE worked
           ok == ~(s.fuse = 1 /\ s.trouble \in {"refused", "unacked"})
           left == IF base.fuse > 0 THEN base.fuse - 1 ELSE 0
           burnt == [base EXCEPT !.fuse = left]
           c == [burnt EXCEPT !.reply = ok]
<1>1. base \in Libs /\ base \in {s, worked} /\ ok \in BOOLEAN /\ left \in Nat
    BY DEF Libs
<1>2. Called(s, worked) = c
    BY DEF Called
<1>3. (s.fuse = 0 => base = worked /\ ok /\ left = 0) /\ (ok => base = worked) /\ (Calm(s) => ok)
    BY DEF Libs, Calm
<1> HIDE DEF base, ok, left
<1>4. SameFields(base, c) /\ c.reply = ok /\ c.fuse = left
    BY <1>1 DEF Libs, SameFields, SameTable, SameDev, SameText, SameShare
<1> HIDE DEF c
<1> QED
    BY <1>1, <1>2, <1>3, <1>4

(* network_status answers, and while nothing is to fail it says what is left. *)
LEMMA StatusTyped ==
    ASSUME NEW s \in Libs, NEW h \in HandleSet, NEW e \in {"ok", "eof", "failed"}
    PROVE  LET t == Status(s, h, e) IN
           /\ t \in Libs
           /\ SameTable(s, t) /\ SameDev(s, t) /\ SameText(s, t) /\ SameShare(s, t)
           /\ t.h = s.h /\ t.n = s.n /\ t.err = s.err /\ t.ent = s.ent /\ t.data = s.data
           /\ s.fuse = 0 => t.fuse = 0 /\ t.status = [err |-> e, len |-> Left(s, h)]
           /\ t.trouble = s.trouble
<1> DEFINE c == Called(s, s)
           l == CASE s.fuse = 1 /\ s.trouble = "short" -> Smaller(1, Left(s, h))
                  [] s.fuse = 1 /\ s.trouble = "empty" -> 0
                  [] OTHER -> Left(s, h)
           st == [err |-> e, len |-> l]
           t == IF ~c.reply THEN c ELSE [c EXCEPT !.status = st]
<1>1. Status(s, h, e) = t
    BY DEF Status, Noted
<1>2. c \in Libs /\ SameFields(s, c) /\ (s.fuse = 0 => c.reply /\ c.fuse = 0)
    BY CalledTyped, CalledIs
<1>3. l \in Nat /\ (s.fuse = 0 => l = Left(s, h))
  <2>1. Left(s, h) \in Nat /\ Smaller(1, Left(s, h)) \in Nat
    BY LeftTyped, SmallerTyped
  <2> HIDE DEF c
  <2> QED
    BY <2>1
<1> HIDE DEF c, l
<1>4. st \in Statuses
    BY <1>3 DEF Statuses
<1>5. t \in Libs
    BY <1>2, <1>4, FieldSet
<1>6. /\ t.table = c.table /\ t.dev = c.dev /\ t.buf = c.buf /\ t.exist = c.exist /\ t.size = c.size
      /\ t.h = c.h /\ t.n = c.n /\ t.err = c.err /\ t.ent = c.ent /\ t.data = c.data
      /\ t.fuse = c.fuse /\ t.trouble = c.trouble
      /\ c.reply => t.status = st
  <2> HIDE DEF st
  <2> QED
    BY <1>2, <1>4 DEF Libs
<1> QED
    BY <1>1, <1>2, <1>3, <1>5, <1>6 DEF SameFields, SameTable, SameDev, SameText, SameShare

(* Where trouble fails no call, it says how the stream is, and of what is  *)
(* left no more than there is and not nothing.                             *)
LEMMA StatusCalm ==
    ASSUME NEW s \in Libs, NEW h \in HandleSet, NEW e \in {"ok", "eof", "failed"}, Calm(s)
    PROVE  LET t == Status(s, h, e) IN
           /\ t.status.err = e /\ t.status.len <= Left(s, h)
           /\ Left(s, h) # 0 => t.status.len # 0
<1> DEFINE c == Called(s, s)
           l == CASE s.fuse = 1 /\ s.trouble = "short" -> Smaller(1, Left(s, h))
                  [] s.fuse = 1 /\ s.trouble = "empty" -> 0
                  [] OTHER -> Left(s, h)
           st == [err |-> e, len |-> l]
<1>1. c \in Libs /\ c.reply
  BY CalledTyped, CalledIs
<1>2. Status(s, h, e) = [c EXCEPT !.status = st]
  BY <1>1 DEF Status, Noted
<1>3. Left(s, h) \in Nat
  BY LeftTyped
<1>4. l <= Left(s, h) /\ (Left(s, h) # 0 => l # 0)
  BY <1>3 DEF Calm, Smaller
<1> HIDE DEF c, l
<1>5. [c EXCEPT !.status = st].status = st
  BY <1>1 DEF Libs
<1> QED
  BY <1>2, <1>4, <1>5

-----------------------------------------------------------------------------
(* Induction, and functions on 0..n each of whose values is made of the    *)
(* one before it.                                                          *)

(* A set of natural numbers that is not empty has a least element.         *)
LEMMA Smallest == ASSUME NEW S \in SUBSET Nat, S # {} PROVE \E n \in S : \A m \in S : n <= m
<1> DEFINE R == OpToRel(<, Nat)
<1>1. \A m, n \in Nat : m < n => <<m, n>> \in R
  BY DEF OpToRel
<1>2. IsWellFoundedOn(R, Nat)
  BY NatLessThanWellFounded
<1> HIDE DEF R
<1>3. PICK n \in S : \A m \in S : ~(<<m, n>> \in R)
  BY <1>2, WFMin
<1>4. ASSUME NEW m \in S PROVE n <= m
  <2>1. m \in Nat /\ n \in Nat /\ ~(m < n)
    BY <1>1, <1>3
  <2> QED
    BY <2>1
<1> QED
  BY <1>4

(* The numbers up to n are all in a set that has 0 and, with a number      *)
(* below n, the next one.                                                  *)
LEMMA UpToN ==
    ASSUME NEW n \in Nat, NEW S, 0 \in S, \A k \in 1..n : k - 1 \in S => k \in S
    PROVE  \A k \in 0..n : k \in S
<1> SUFFICES ASSUME NEW b \in 0..n, b \notin S PROVE FALSE
  OBVIOUS
<1> DEFINE B == {k \in 0..n : k \notin S}
<1>1. B \in SUBSET Nat /\ B # {}
  OBVIOUS
<1> HIDE DEF B
<1>2. PICK k \in B : \A m \in B : k <= m
  BY <1>1, Smallest
<1>3. k \in 0..n /\ k \notin S
  BY <1>2 DEF B
<1>4. k \in 1..n /\ k - 1 \in 0..n
  BY <1>3
<1>5. k - 1 \notin B
  BY <1>1, <1>2, <1>4
<1> QED
  BY <1>3, <1>4, <1>5 DEF B

(* f begins with a and goes on by g.                                       *)
Follows(f, n, a, g) == f[0] = a /\ \A k \in 1..n : f[k] = g[k][f[k - 1]]

(* A function that applies g[i] for the value after i, from a value before the *)
(* first, exists: what the model's recursive functions rest on.            *)
LEMMA Iterated ==
    ASSUME NEW n \in Nat, NEW V, NEW a \in V, NEW g \in [1..n -> [V -> V]]
    PROVE  \E f \in [0..n -> V] : Follows(f, n, a, g)
<1> DEFINE S == {k \in Nat : \E f \in [0..k -> V] : Follows(f, k, a, g)}
<1>1. 0 \in S
  <2> DEFINE f == [i \in 0..0 |-> a]
  <2>1. f \in [0..0 -> V] /\ Follows(f, 0, a, g)
    BY DEF Follows
  <2> QED
    BY <2>1
<1>2. ASSUME NEW k \in 1..n, k - 1 \in S PROVE k \in S
  <2>1. PICK f \in [0..(k - 1) -> V] : Follows(f, k - 1, a, g)
    BY <1>2
  <2> DEFINE v == g[k][f[k - 1]]
             h == [i \in 0..k |-> IF i = k THEN v ELSE f[i]]
  <2>2. v \in V
    OBVIOUS
  <2>3. h \in [0..k -> V] /\ h[k] = v /\ \A i \in 0..(k - 1) : h[i] = f[i]
    <3>1. \A i \in 0..k : i # k => i \in 0..(k - 1)
      OBVIOUS
    <3> HIDE DEF v
    <3> QED
      BY <2>2, <3>1
  <2> HIDE DEF h
  <2>4. h[0] = a
    BY <2>1, <2>3 DEF Follows
  <2>5. ASSUME NEW i \in 1..k PROVE h[i] = g[i][h[i - 1]]
    <3>1. i - 1 \in 0..(k - 1) /\ (i = k \/ i \in 1..(k - 1))
      OBVIOUS
    <3> QED
      BY <2>1, <2>3, <3>1 DEF Follows
  <2> QED
    BY <2>3, <2>4, <2>5 DEF Follows
<1> HIDE DEF S
<1>3. \A k \in 0..n : k \in S
  BY <1>1, <1>2, UpToN
<1>4. n \in 0..n
  OBVIOUS
<1> QED
  BY <1>3, <1>4 DEF S

-----------------------------------------------------------------------------
(* The elements of a sequence that are in a set.                           *)

(* The names of S among the first i of l, for every i.                     *)
IsUpTo(f, l, S) ==
    f = [i \in 0..Len(l) |-> IF i = 0 THEN << >> ELSE IF l[i] \in S THEN Append(f[i - 1], l[i]) ELSE f[i - 1]]
UpTo(l, S) == CHOOSE f : IsUpTo(f, l, S)

(* The names that match are those met up to the end.                       *)
LEMMA MatchingIs ==
    ASSUME NEW l, NEW S
    PROVE  Matching(l, S) = UpTo(l, S)[Len(l)]
BY DEF Matching, UpTo, IsUpTo

(* One name more, or none, at every place of l: by induction over the places. *)
LEMMA UpToIs ==
    ASSUME NEW T, NEW l \in Seq(T), NEW S
    PROVE  /\ UpTo(l, S) \in [0..Len(l) -> Seq(T)]
           /\ UpTo(l, S)[0] = << >>
           /\ \A i \in 1..Len(l) :
                 UpTo(l, S)[i] = IF l[i] \in S THEN Append(UpTo(l, S)[i - 1], l[i]) ELSE UpTo(l, S)[i - 1]
<1> DEFINE n == Len(l)
           V == Seq(T)
           g == [i \in 1..n |-> [v \in V |-> IF l[i] \in S THEN Append(v, l[i]) ELSE v]]
<1>1. n \in Nat /\ << >> \in V /\ \A i \in 1..n : l[i] \in T
  OBVIOUS
<1>2. g \in [1..n -> [V -> V]]
  BY <1>1
<1>3. \A i \in 1..n, v \in V : g[i][v] = IF l[i] \in S THEN Append(v, l[i]) ELSE v
  OBVIOUS
<1> HIDE DEF g
<1>4. PICK f \in [0..n -> V] : Follows(f, n, << >>, g)
  BY <1>1, <1>2, Iterated
<1> HIDE DEF n, V
<1>5. f[0] = << >> /\ \A i \in 1..n : i - 1 \in 0..n /\ f[i] = IF l[i] \in S THEN Append(f[i - 1], l[i]) ELSE f[i - 1]
  BY <1>1, <1>3, <1>4 DEF Follows
<1>6. IsUpTo(f, l, S)
  <2>1. \A i \in 0..n : i # 0 => i \in 1..n
    BY <1>1
  <2> QED
    BY <1>4, <1>5, <2>1 DEF IsUpTo, n
<1>7. IsUpTo(UpTo(l, S), l, S)
  BY <1>6 DEF UpTo
<1> DEFINE u == UpTo(l, S)
<1>8. DOMAIN u = 0..n /\ u[0] = << >>
      /\ \A i \in 1..n : u[i] = IF l[i] \in S THEN Append(u[i - 1], l[i]) ELSE u[i - 1]
  <2> HIDE DEF u
  <2>1. IsUpTo(u, l, S)
    BY <1>7 DEF u
  <2>2. 0 \in 0..n /\ \A i \in 1..n : i \in 0..n /\ i # 0
    BY <1>1
  <2> QED
    BY <2>1, <2>2 DEF IsUpTo, n
<1>9. \A i \in 0..n : u[i] \in V
  <2> HIDE DEF u
  <2> DEFINE R == {i \in 0..n : u[i] \in V}
  <2>1. 0 \in R
    BY <1>1, <1>8
  <2>2. ASSUME NEW i \in 1..n, i - 1 \in R PROVE i \in R
    <3>1. u[i - 1] \in V /\ i \in 0..n
      BY <2>2
    <3>2. Append(u[i - 1], l[i]) \in V
      BY <1>1, <3>1 DEF V
    <3> QED
      BY <1>8, <3>1, <3>2
  <2> HIDE DEF R
  <2>3. \A i \in 0..n : i \in R
    BY <1>1, <2>1, <2>2, UpToN
  <2> QED
    BY <2>3 DEF R
<1>10. u = [i \in 0..n |-> u[i]]
  BY <1>7 DEF IsUpTo, n
<1> HIDE DEF u
<1>11. u \in [0..n -> V]
  BY <1>9, <1>10
<1> QED
  BY <1>8, <1>11 DEF u, n, V

-----------------------------------------------------------------------------
(* The stream behind a handle.                                             *)

(* No more are taken than were looked at.                                  *)
LEMMA UpToLength ==
    ASSUME NEW T, NEW l \in Seq(T), NEW S
    PROVE  \A i \in 0..Len(l) : Len(UpTo(l, S)[i]) <= i
<1> DEFINE u == UpTo(l, S)
           R == {i \in 0..Len(l) : Len(u[i]) <= i}
<1>1. /\ u \in [0..Len(l) -> Seq(T)] /\ u[0] = << >>
      /\ \A i \in 1..Len(l) : u[i] = IF l[i] \in S THEN Append(u[i - 1], l[i]) ELSE u[i - 1]
  BY UpToIs
<1> HIDE DEF u
<1>2. Len(l) \in Nat /\ 0 \in R
  BY <1>1
<1>3. ASSUME NEW i \in 1..Len(l), i - 1 \in R PROVE i \in R
  <2>0. i \in Nat /\ i - 1 \in 0..Len(l) /\ Len(u[i - 1]) <= i - 1
    BY <1>2, <1>3
  <2>1. u[i - 1] \in Seq(T) /\ Len(u[i - 1]) \in Nat
    <3>1. u[i - 1] \in Seq(T)
      BY <1>1, <2>0
    <3> QED
      BY <3>1
  <2>2. Len(Append(u[i - 1], l[i])) = Len(u[i - 1]) + 1
    BY <2>1
  <2>3. Len(u[i]) <= i
    <3>1. u[i] \in {u[i - 1], Append(u[i - 1], l[i])}
      BY <1>1
    <3> QED
      BY <2>0, <2>1, <2>2, <3>1
  <2> QED
    BY <2>3
<1> HIDE DEF R
<1>4. \A i \in 0..Len(l) : i \in R
  BY <1>2, <1>3, UpToN
<1> QED
  BY <1>4 DEF R, u

(* A directory lists no more names than there are.                         *)
LEMMA ListingTyped ==
    ASSUME NEW s \in Libs, NEW d
    PROVE  Listing(s, d) \in Seq(Names) /\ Len(Listing(s, d)) <= Len(Order)
<1> DEFINE S == {n \in s.exist : Parent[n] = d}
<1>1. Order \in Seq(Names)
  BY FujiFsAssumption
<1>2. UpTo(Order, S) \in [0..Len(Order) -> Seq(Names)]
  BY <1>1, UpToIs
<1>3. Listing(s, d) = UpTo(Order, S)[Len(Order)]
  BY MatchingIs DEF Listing
<1> HIDE DEF S
<1>4. Len(Order) \in 0..Len(Order)
  BY <1>1
<1>5. Len(UpTo(Order, S)[Len(Order)]) <= Len(Order)
  BY <1>1, <1>4, UpToLength
<1> QED
  BY <1>1, <1>2, <1>3, <1>4, <1>5

(* An entry is two pieces, the second one marked.                          *)
LEMMA TextIs ==
    ASSUME NEW l \in Seq(Names)
    PROVE  /\ TextOf(l) \in Seq(Pieces) /\ Len(TextOf(l)) = 2 * Len(l)
           /\ \A k \in 1..Len(l) : /\ TextOf(l)[2 * k - 1] = <<l[k], 1>>
                                   /\ TextOf(l)[2 * k] = <<l[k], 2>>
<1> DEFINE f == [k \in 1..(2 * Len(l)) |-> <<l[(k + 1) \div 2], 2 - (k % 2)>>]
<1>1. Len(l) \in Nat /\ \A k \in 1..Len(l) : l[k] \in Names
  OBVIOUS
<1>2. ASSUME NEW k \in 1..(2 * Len(l)) PROVE <<l[(k + 1) \div 2], 2 - (k % 2)>> \in Pieces
  <2>1. (k + 1) \div 2 \in 1..Len(l) /\ 2 - (k % 2) \in {1, 2}
    BY <1>1
  <2> QED
    BY <1>1, <2>1 DEF Pieces
<1>3. f \in [1..(2 * Len(l)) -> Pieces]
  BY <1>2
<1>4. f \in Seq(Pieces) /\ Len(f) = 2 * Len(l)
  <2> HIDE DEF f
  <2> QED
    BY <1>1, <1>3
<1>5. ASSUME NEW k \in 1..Len(l) PROVE f[2 * k - 1] = <<l[k], 1>> /\ f[2 * k] = <<l[k], 2>>
  <2>1. 2 * k - 1 \in 1..(2 * Len(l)) /\ 2 * k \in 1..(2 * Len(l))
    BY <1>1
  <2>2. (2 * k - 1 + 1) \div 2 = k /\ (2 * k + 1) \div 2 = k /\ (2 * k - 1) % 2 = 1 /\ (2 * k) % 2 = 0
    BY <1>1
  <2> QED
    BY <2>1, <2>2
<1> HIDE DEF f
<1> QED
  BY <1>4, <1>5 DEF TextOf, f

(* What can be opened: anything as a directory, an entry as a file.        *)
Openable(n, mode) == n \in Objects /\ (mode # "dir" => n \in Names)

(* What a device opens: a directory's text, a file, or nothing that is not *)
(* there.                                                                  *)
LEMMA StreamTyped ==
    ASSUME NEW s \in Libs, NEW n, NEW mode, Openable(n, mode)
    PROVE  /\ StreamOf(s, n, mode) \in Streams
           /\ Exists(s, n) /\ mode = "dir" =>
                 StreamOf(s, n, mode) = [kind |-> "dir", obj |-> n, text |-> TextOf(Listing(s, n)), at |-> 0]
           /\ Exists(s, n) /\ mode # "dir" =>
                 StreamOf(s, n, mode) = [kind |-> "file", obj |-> n, text |-> << >>, at |-> 0]
           /\ ~Exists(s, n) => StreamOf(s, n, mode) = Closed
<1> DEFINE text == TextOf(Listing(s, n))
<1>1. text \in Seq(Pieces) /\ Len(text) \in Nat /\ Len(text) <= 2 * Len(Order)
  <2>1. Listing(s, n) \in Seq(Names) /\ Len(Listing(s, n)) <= Len(Order) /\ Len(Order) \in Nat
    BY ListingTyped, FujiFsAssumption
  <2>2. Len(Listing(s, n)) \in Nat
    BY <2>1
  <2> QED
    BY <2>1, <2>2, TextIs
<1>2. n \in Objects /\ Root \in Objects /\ (mode # "dir" => n \in Names)
  BY DEF Objects, Openable
<1>3. << >> \in Seq(Pieces)
  OBVIOUS
<1> HIDE DEF text
<1>4. Closed \in Streams
  BY <1>2, <1>3 DEF Closed, Streams, Kinds
<1>5. [kind |-> "dir", obj |-> n, text |-> text, at |-> 0] \in Streams
  BY <1>1, <1>2 DEF Streams, Kinds
<1>7. mode # "dir" => [kind |-> "file", obj |-> n, text |-> << >>, at |-> 0] \in Streams
  BY <1>2, <1>3 DEF Streams, Kinds
<1> QED
  BY <1>4, <1>5, <1>7 DEF StreamOf, text

(* Only an opening for writing makes or empties a file.                    *)
LEMMA MadeTyped ==
    ASSUME NEW s \in Libs, NEW n, NEW mode, Openable(n, mode)
    PROVE  LET t == Made(s, n, mode) IN
           /\ t \in Libs
           /\ SameTable(s, t) /\ SameText(s, t) /\ SameDev(s, t) /\ t.status = s.status
           /\ t.h = s.h /\ t.n = s.n /\ t.err = s.err /\ t.ent = s.ent /\ t.data = s.data
           /\ t.fuse = s.fuse /\ t.trouble = s.trouble
           /\ s.exist \subseteq t.exist
           /\ mode # "write" => t = s
<1> DEFINE e == s.exist \cup {n}
           z == [s.size EXCEPT ![n] = 0]
           a == [s EXCEPT !.exist = e]
           b == [a EXCEPT !.size = z]
<1>1. s.exist \subseteq Names /\ s.size \in [Names -> Nat]
  BY DEF Libs
<1>2. CASE mode = "write" /\ n \notin Dirs /\ Exists(s, Parent[n])
  <2>1. n \in Names
    BY <1>2 DEF Openable
  <2>2. e \in SUBSET Names /\ z \in [Names -> Nat]
    BY <1>1, <2>1
  <2>3. Made(s, n, mode) = b
    BY <1>2 DEF Made
  <2> HIDE DEF e, z
  <2>4. a \in Libs
    BY <2>2, FieldSet
  <2>5. b \in Libs
    BY <2>2, <2>4, FieldSet
  <2>6. /\ b.exist = e
        /\ SameTable(s, b) /\ SameText(s, b) /\ SameDev(s, b) /\ b.status = s.status
        /\ b.h = s.h /\ b.n = s.n /\ b.err = s.err /\ b.ent = s.ent /\ b.data = s.data
        /\ b.fuse = s.fuse /\ b.trouble = s.trouble
    BY <2>2 DEF Libs, SameTable, SameText, SameDev
  <2> HIDE DEF b
  <2> QED
    BY <1>2, <2>3, <2>5, <2>6 DEF e
<1>3. CASE ~(mode = "write" /\ n \notin Dirs /\ Exists(s, Parent[n]))
  <2>1. Made(s, n, mode) = s
    BY <1>3 DEF Made
  <2> QED
    BY <1>3, <2>1 DEF SameTable, SameText, SameDev
<1> QED
  BY <1>2, <1>3

(* A device's stream set.                                                  *)
LEMMA StreamingTyped ==
    ASSUME NEW s \in Libs, NEW h \in HandleSet, NEW d \in Streams
    PROVE  LET t == [s EXCEPT !.dev[h] = d] IN
           /\ t \in Libs /\ t.dev = [s.dev EXCEPT ![h] = d]
           /\ SameTable(s, t) /\ SameText(s, t) /\ SameShare(s, t) /\ t.status = s.status
           /\ t.h = s.h /\ t.n = s.n /\ t.err = s.err /\ t.ent = s.ent /\ t.data = s.data
           /\ t.fuse = s.fuse /\ t.trouble = s.trouble
<1> DEFINE v == [s.dev EXCEPT ![h] = d]
           t == [s EXCEPT !.dev = v]
<1>1. v \in [HandleSet -> Streams]
  BY DEF Libs
<1> HIDE DEF v
<1>2. t \in Libs
  BY <1>1, FieldSet
<1>3. /\ t.dev = v /\ SameTable(s, t) /\ SameText(s, t) /\ SameShare(s, t) /\ t.status = s.status
      /\ t.h = s.h /\ t.n = s.n /\ t.err = s.err /\ t.ent = s.ent /\ t.data = s.data
      /\ t.fuse = s.fuse /\ t.trouble = s.trouble
  BY DEF Libs, SameTable, SameText, SameShare
<1> QED
  BY <1>2, <1>3 DEF v

(* The device opens its stream in the unit asked for, and in no other.     *)
LEMMA DevOpenTyped ==
    ASSUME NEW s \in Libs, NEW h \in HandleSet, NEW n, NEW mode, Openable(n, mode)
    PROVE  LET t == DevOpen(s, h, n, mode) IN
           /\ t \in Libs
           /\ SameTable(s, t) /\ SameText(s, t) /\ Elsewise(s, t, {h}) /\ t.status = s.status
           /\ s.exist \subseteq t.exist
           /\ mode # "write" => SameShare(s, t)
           /\ t.h = s.h /\ t.n = s.n /\ t.err = s.err /\ t.ent = s.ent /\ t.data = s.data
           /\ s.fuse = 0 => t.fuse = 0
           /\ s.fuse = 0 \/ Calm(s) =>
                 t.dev[h] = StreamOf(Made(s, n, mode), n, mode) /\ SameShare(Made(s, n, mode), t)
           /\ t.trouble = s.trouble
<1> DEFINE m == Made(s, n, mode)
           d == StreamOf(m, n, mode)
           w == [m EXCEPT !.dev[h] = d]
           t == Called(s, w)
<1>1. /\ m \in Libs /\ s.exist \subseteq m.exist /\ (mode # "write" => m = s)
  BY MadeTyped
<1>2. /\ SameTable(s, m) /\ SameText(s, m) /\ SameDev(s, m) /\ m.status = s.status
      /\ m.h = s.h /\ m.n = s.n /\ m.err = s.err /\ m.ent = s.ent /\ m.data = s.data
      /\ m.fuse = s.fuse /\ m.trouble = s.trouble
  BY MadeTyped
<1>3. d \in Streams
  BY <1>1, StreamTyped
<1>4. t = DevOpen(s, h, n, mode)
  BY DEF DevOpen, Streaming
<1> HIDE DEF m, d
<1>5. /\ w \in Libs /\ w.dev = [m.dev EXCEPT ![h] = d]
      /\ SameTable(m, w) /\ SameText(m, w) /\ SameShare(m, w) /\ w.status = m.status
      /\ w.h = m.h /\ w.n = m.n /\ w.err = m.err /\ w.ent = m.ent /\ w.data = m.data
      /\ w.fuse = m.fuse /\ w.trouble = m.trouble
  BY <1>1, <1>3, StreamingTyped
<1>6. m.dev \in [HandleSet -> Streams]
  BY <1>1 DEF Libs
<1> HIDE DEF w
<1>7. t \in Libs
  BY <1>5, CalledTyped
<1>8. PICK b \in {s, w} : SameFields(b, t) /\ (s.fuse = 0 => b = w /\ t.fuse = 0) /\ (Calm(s) => b = w)
  BY <1>2, <1>5, CalledIs
<1> HIDE DEF t
<1>9. CASE b = w
  BY <1>1, <1>2, <1>4, <1>5, <1>6, <1>7, <1>8, <1>9
  DEF SameFields, SameTable, SameText, SameDev, SameShare, Elsewise, m, d
<1>10. CASE b = s /\ s.fuse # 0 /\ ~Calm(s)
  BY <1>4, <1>7, <1>8, <1>10 DEF SameFields, SameTable, SameText, SameDev, SameShare, Elsewise
<1> QED
  BY <1>8, <1>9, <1>10

-----------------------------------------------------------------------------
(* Handles.                                                                *)

(* The handles find_handle has to choose from, and the one it chooses.     *)
Free(s) == {h \in HandleSet : ~s.table[h].open}
Lowest(free) == IF free = {} THEN 0 ELSE CHOOSE x \in free : \A y \in free : x <= y

(* It is a free one; none only when none is free.                          *)
LEMMA LowestIs ==
    ASSUME NEW s \in Libs
    PROVE  Lowest(Free(s)) \in {0} \cup Free(s) /\ (Free(s) = {} <=> Lowest(Free(s)) = 0)
<1> DEFINE S == Free(s)
<1>1. S \in SUBSET Nat /\ 0 \notin S
  BY DEF Free, HandleSet
<1> HIDE DEF S
<1> SUFFICES Lowest(S) \in {0} \cup S /\ (S = {} <=> Lowest(S) = 0)
  BY DEF S
<1>2. CASE S = {}
  BY <1>2 DEF Lowest
<1>3. CASE S # {}
  <2>1. \E x \in S : \A y \in S : x <= y
    BY <1>1, <1>3, Smallest
  <2>2. Lowest(S) \in S
    BY <1>3, <2>1 DEF Lowest
  <2> QED
    BY <1>1, <1>3, <2>2
<1> QED
  BY <1>2, <1>3

(* A handle's entry replaced.                                              *)
LEMMA TableTyped ==
    ASSUME NEW s \in Libs, NEW h \in HandleSet, NEW e \in Handles
    PROVE  LET t == [s EXCEPT !.table[h] = e] IN
           /\ t \in Libs /\ t.table = [s.table EXCEPT ![h] = e] /\ t.table[h] = e
           /\ SameDev(s, t) /\ SameText(s, t) /\ SameShare(s, t) /\ t.status = s.status
           /\ t.h = s.h /\ t.n = s.n /\ t.err = s.err /\ t.ent = s.ent /\ t.data = s.data
           /\ t.fuse = s.fuse /\ t.trouble = s.trouble
           /\ Elsewise(s, t, {h})
<1> DEFINE v == [s.table EXCEPT ![h] = e]
           t == [s EXCEPT !.table = v]
<1>1. v \in [HandleSet -> Handles] /\ v[h] = e /\ \A x \in HandleSet \ {h} : v[x] = s.table[x]
  BY DEF Libs
<1> HIDE DEF v
<1>2. t \in Libs
  BY <1>1, FieldSet
<1>3. /\ t.table = v /\ SameDev(s, t) /\ SameText(s, t) /\ SameShare(s, t) /\ t.status = s.status
      /\ t.h = s.h /\ t.n = s.n /\ t.err = s.err /\ t.ent = s.ent /\ t.data = s.data
      /\ t.fuse = s.fuse /\ t.trouble = s.trouble
  BY DEF Libs, SameDev, SameText, SameShare
<1>4. Elsewise(s, t, {h})
  <2> HIDE DEF t
  <2> QED
    BY <1>1, <1>3 DEF Elsewise, SameDev
<1> QED
  BY <1>1, <1>2, <1>3, <1>4 DEF v

(* The fields of an entry set.                                             *)
LEMMA EntrySet ==
    ASSUME NEW e \in Handles
    PROVE  /\ \A b \in BOOLEAN : /\ [e EXCEPT !.open = b] \in Handles
                                 /\ [e EXCEPT !.open = b].open = b
                                 /\ [e EXCEPT !.open = b].position = e.position
                                 /\ [e EXCEPT !.open = b].length = e.length
           /\ \A b \in BOOLEAN : /\ [e EXCEPT !.auth = b] \in Handles
                                 /\ [e EXCEPT !.auth = b].open = e.open
                                 /\ [e EXCEPT !.auth = b].position = e.position
                                 /\ [e EXCEPT !.auth = b].length = e.length
           /\ \A b \in BOOLEAN : /\ [e EXCEPT !.user = b] \in Handles
                                 /\ [e EXCEPT !.user = b].open = e.open
                                 /\ [e EXCEPT !.user = b].position = e.position
                                 /\ [e EXCEPT !.user = b].length = e.length
           /\ \A p \in 0..Total : /\ [e EXCEPT !.parent = p] \in Handles
                                  /\ [e EXCEPT !.parent = p].open = e.open
                                  /\ [e EXCEPT !.parent = p].position = e.position
                                  /\ [e EXCEPT !.parent = p].length = e.length
           /\ \A i \in 0..BufSize : /\ [e EXCEPT !.position = i] \in Handles
                                    /\ [e EXCEPT !.position = i].open = e.open
                                    /\ [e EXCEPT !.position = i].position = i
                                    /\ [e EXCEPT !.position = i].length = e.length
           /\ \A i \in 0..BufSize : /\ [e EXCEPT !.length = i] \in Handles
                                    /\ [e EXCEPT !.length = i].open = e.open
                                    /\ [e EXCEPT !.length = i].position = e.position
                                    /\ [e EXCEPT !.length = i].length = i
BY DEF Handles

(* A call that fails sets nothing but its error.                           *)
LEMMA ScratchSet ==
    ASSUME NEW s \in Libs, NEW e \in Errors
    PROVE  LET t == Failing(s, e) IN
           /\ t \in Libs /\ t.err = e
           /\ SameTable(s, t) /\ SameDev(s, t) /\ SameText(s, t) /\ SameShare(s, t) /\ t.status = s.status
           /\ t.h = s.h /\ t.n = s.n /\ t.ent = s.ent /\ t.data = s.data
           /\ t.fuse = s.fuse /\ t.trouble = s.trouble /\ t.reply = s.reply
<1> DEFINE t == [s EXCEPT !.err = e]
<1>1. t \in Libs
  BY FieldSet
<1>2. /\ t.err = e
      /\ SameTable(s, t) /\ SameDev(s, t) /\ SameText(s, t) /\ SameShare(s, t) /\ t.status = s.status
      /\ t.h = s.h /\ t.n = s.n /\ t.ent = s.ent /\ t.data = s.data
      /\ t.fuse = s.fuse /\ t.trouble = s.trouble /\ t.reply = s.reply
  BY DEF Libs, SameTable, SameDev, SameText, SameShare
<1> QED
  BY <1>1, <1>2 DEF Failing

(* The url is put together in the one buffer, and touches nothing else.    *)
LEMMA EnnifyTyped ==
    ASSUME NEW s \in Libs
    PROVE  LET t == Ennify(s) IN
           /\ t \in Libs
           /\ SameTable(s, t) /\ SameDev(s, t) /\ SameShare(s, t) /\ t.status = s.status
           /\ t.h = s.h /\ t.n = s.n /\ t.err = s.err /\ t.ent = s.ent /\ t.data = s.data
           /\ t.fuse = s.fuse /\ t.trouble = s.trouble
<1> DEFINE v == [i \in 1..BufSize |-> IF i <= PathLen THEN PathText ELSE s.buf[i]]
           t == [s EXCEPT !.buf = v]
<1>1. v \in [1..BufSize -> Pieces]
  <2>1. PathText \in Pieces
    BY DEF Pieces
  <2>2. \A i \in 1..BufSize : s.buf[i] \in Pieces
    BY DEF Libs
  <2> QED
    BY <2>1, <2>2
<1>2. Ennify(s) = t
  BY DEF Ennify
<1> HIDE DEF v
<1>3. t \in Libs
  BY <1>1, FieldSet
<1>4. /\ SameTable(s, t) /\ SameDev(s, t) /\ SameShare(s, t) /\ t.status = s.status
      /\ t.h = s.h /\ t.n = s.n /\ t.err = s.err /\ t.ent = s.ent /\ t.data = s.data
      /\ t.fuse = s.fuse /\ t.trouble = s.trouble
  BY DEF Libs, SameTable, SameDev, SameShare
<1> QED
  BY <1>2, <1>3, <1>4

(* A handle given back keeps its buffer positions.                         *)
LEMMA FreedTyped ==
    ASSUME NEW s \in Libs, NEW h \in HandleSet
    PROVE  LET t == Freed(s, h) IN
           /\ t \in Libs /\ t.table = [s.table EXCEPT ![h] = [@ EXCEPT !.open = FALSE]]
           /\ ~t.table[h].open /\ t.table[h].position = s.table[h].position /\ t.table[h].length = s.table[h].length
           /\ SameDev(s, t) /\ SameText(s, t) /\ SameShare(s, t) /\ t.status = s.status
           /\ t.h = s.h /\ t.n = s.n /\ t.err = s.err /\ t.ent = s.ent /\ t.data = s.data
           /\ t.fuse = s.fuse /\ t.trouble = s.trouble
           /\ Elsewise(s, t, {h})
<1> DEFINE e == [s.table[h] EXCEPT !.open = FALSE]
<1>1. s.table[h] \in Handles
  BY DEF Libs
<1>2. e \in Handles /\ e.open = FALSE /\ e.position = s.table[h].position /\ e.length = s.table[h].length
  BY <1>1, EntrySet
<1> DEFINE t == [s EXCEPT !.table[h] = e]
<1>3. Freed(s, h) = t
  BY DEF Freed
<1>4. e = [s.table[h] EXCEPT !.open = FALSE]
  OBVIOUS
<1> HIDE DEF e
<1>5. /\ t \in Libs /\ t.table = [s.table EXCEPT ![h] = e] /\ t.table[h] = e
      /\ SameDev(s, t) /\ SameText(s, t) /\ SameShare(s, t) /\ t.status = s.status
      /\ t.h = s.h /\ t.n = s.n /\ t.err = s.err /\ t.ent = s.ent /\ t.data = s.data
      /\ t.fuse = s.fuse /\ t.trouble = s.trouble
      /\ Elsewise(s, t, {h})
  BY <1>2, TableTyped
<1> HIDE DEF t
<1> QED
  BY <1>2, <1>3, <1>4, <1>5

(* find_handle takes the lowest free handle and no other.                  *)
LEMMA FindHandleIs ==
    ASSUME NEW s \in Libs
    PROVE  LET t == FindHandle(s) IN
           /\ t \in Libs /\ t.h = Lowest(Free(s)) /\ t.h \in {0} \cup Free(s) /\ t.err = "none"
           /\ SameDev(s, t) /\ SameText(s, t) /\ SameShare(s, t) /\ t.status = s.status
           /\ t.n = s.n /\ t.ent = s.ent /\ t.data = s.data
           /\ t.fuse = s.fuse /\ t.trouble = s.trouble
           /\ t.h = 0 => SameTable(s, t)
           /\ t.h # 0 => /\ t.table = [s.table EXCEPT ![t.h] = [@ EXCEPT !.open = TRUE]] /\ t.table[t.h].open
                         /\ t.table[t.h].position = s.table[t.h].position
                         /\ t.table[t.h].length = s.table[t.h].length
                         /\ Elsewise(s, t, {t.h})
<1> DEFINE h == Lowest(Free(s))
           a == [s EXCEPT !.h = h]
           b == [a EXCEPT !.err = "none"]
<1>1. FindHandle(s) = [b EXCEPT !.table = IF h = 0 THEN s.table ELSE [s.table EXCEPT ![h].open = TRUE]]
  BY DEF FindHandle, Taken, Lowest, Free
<1>0. h = Lowest(Free(s))
  OBVIOUS
<1>2. h \in {0} \cup Free(s) /\ h \in 0..Total /\ (h # 0 => h \in HandleSet)
  <2>1. h \in {0} \cup Free(s)
    BY LowestIs
  <2> HIDE DEF h
  <2> QED
    BY <2>1, FujiFsAssumption DEF Free, HandleSet
<1> HIDE DEF h
<1>3. a \in Libs
  BY <1>2, FieldSet
<1>4. b \in Libs
  BY <1>3, FieldSet DEF Errors
<1>5. /\ b.h = h /\ b.err = "none" /\ SameTable(s, b)
      /\ SameDev(s, b) /\ SameText(s, b) /\ SameShare(s, b) /\ b.status = s.status
      /\ b.n = s.n /\ b.ent = s.ent /\ b.data = s.data /\ b.fuse = s.fuse /\ b.trouble = s.trouble
  BY DEF Libs, SameTable, SameDev, SameText, SameShare
<1> HIDE DEF b
<1>6. CASE h = 0
  <2>1. FindHandle(s) = [b EXCEPT !.table = b.table]
    BY <1>1, <1>5, <1>6 DEF SameTable
  <2>2. FindHandle(s) = b
    BY <1>4, <2>1 DEF Libs
  <2> QED
    BY <1>0, <1>2, <1>4, <1>5, <1>6, <2>2
<1>7. CASE h # 0
  <2> DEFINE e == [b.table[h] EXCEPT !.open = TRUE]
             t == [b EXCEPT !.table[h] = e]
  <2>1. b.table[h] \in Handles
    BY <1>2, <1>4, <1>7 DEF Libs
  <2>2. e \in Handles /\ e.open = TRUE /\ e.position = b.table[h].position /\ e.length = b.table[h].length
    BY <2>1, EntrySet
  <2>3. FindHandle(s) = t
    BY <1>1, <1>5, <1>7 DEF SameTable
  <2>4. e = [s.table[h] EXCEPT !.open = TRUE]
    BY <1>5 DEF SameTable
  <2> HIDE DEF e
  <2>5. /\ t \in Libs /\ t.table = [b.table EXCEPT ![h] = e] /\ t.table[h] = e
        /\ SameDev(b, t) /\ SameText(b, t) /\ SameShare(b, t) /\ t.status = b.status
        /\ t.h = b.h /\ t.n = b.n /\ t.err = b.err /\ t.ent = b.ent /\ t.data = b.data
        /\ t.fuse = b.fuse /\ t.trouble = b.trouble
        /\ Elsewise(b, t, {h})
    BY <1>2, <1>4, <1>7, <2>2, TableTyped
  <2> HIDE DEF t
  <2>6. /\ t.h = h /\ t.h # 0 /\ t.err = "none"
        /\ SameDev(s, t) /\ SameText(s, t) /\ SameShare(s, t) /\ t.status = s.status
        /\ t.n = s.n /\ t.ent = s.ent /\ t.data = s.data /\ t.fuse = s.fuse /\ t.trouble = s.trouble
        /\ t.table = [s.table EXCEPT ![h] = e]
        /\ Elsewise(s, t, {h})
    BY <1>2, <1>5, <1>7, <2>5 DEF SameTable, SameDev, SameText, SameShare, Elsewise
  <2>7. t.table[h].open /\ t.table[h].position = s.table[h].position /\ t.table[h].length = s.table[h].length
    BY <1>5, <2>2, <2>5 DEF SameTable
  <2> QED
    BY <1>0, <1>2, <2>3, <2>4, <2>5, <2>6, <2>7
<1> QED
  BY <1>6, <1>7

-----------------------------------------------------------------------------
(* fujifs_open.                                                            *)

(* The entry of h says as before whether it is open and where it reads.    *)
SameEntry(s, t, h) ==
    /\ t.table[h].open = s.table[h].open
    /\ t.table[h].position = s.table[h].position
    /\ t.table[h].length = s.table[h].length

(* What comes before the FujiNet is asked to open changes no stream and no *)
(* other handle.                                                           *)
Prepared(s, t, h) ==
    /\ t \in Libs /\ SameDev(s, t) /\ SameShare(s, t) /\ t.h = s.h /\ t.status = s.status
    /\ Elsewise(s, t, {h}) /\ SameEntry(s, t, h) /\ t.trouble = s.trouble

(* Two preparations in a row are one.                                      *)
LEMMA PreparedOn ==
    ASSUME NEW s, NEW t, NEW u, NEW h, Prepared(s, t, h), Prepared(t, u, h)
    PROVE  Prepared(s, u, h)
BY DEF Prepared, SameDev, SameShare, SameEntry, Elsewise

(* What leaves the table, the streams and the share alone is one.          *)
LEMMA PreparedSame ==
    ASSUME NEW s, NEW t \in Libs, NEW h \in HandleSet, SameTable(s, t), SameDev(s, t), SameShare(s, t),
           t.h = s.h, t.status = s.status, s.fuse = 0 => t.fuse = 0, t.trouble = s.trouble
    PROVE  Prepared(s, t, h)
BY DEF Prepared, SameTable, SameEntry, Elsewise, SameDev

(* User name and password go to the device.                                *)
LEMMA CredentialsTyped ==
    ASSUME NEW s \in Libs, NEW h \in HandleSet
    PROVE  Prepared(s, Credentials(s), h) /\ Credentials(s).err = s.err /\ SameText(s, Credentials(s))
<1> DEFINE c == Called(s, s)
           d == Called(c, c)
<1>1. c \in Libs /\ SameFields(s, c) /\ (s.fuse = 0 => c.fuse = 0)
  BY CalledTyped, CalledIs
<1>2. Credentials(s) = d
  BY DEF Credentials, Repeated
<1> HIDE DEF c
<1>3. d \in Libs /\ SameFields(c, d) /\ (c.fuse = 0 => d.fuse = 0)
  BY <1>1, CalledTyped, CalledIs
<1> HIDE DEF d
<1>4. SameFields(s, d) /\ (s.fuse = 0 => d.fuse = 0)
  BY <1>1, <1>3 DEF SameFields, SameTable, SameDev, SameText, SameShare
<1>5. Prepared(s, d, h)
  BY <1>3, <1>4, PreparedSame DEF SameFields
<1> QED
  BY <1>2, <1>4, <1>5 DEF SameFields

(* A login borrows the credentials of the host.                            *)
LEMMA AuthorisedTyped ==
    ASSUME NEW s \in Libs, s.h \in HandleSet, NEW owner \in 0..Total
    PROVE  Prepared(s, Authorised(s, owner), s.h) /\ Authorised(s, owner).err = s.err
<1> DEFINE e == [s.table[s.h] EXCEPT !.auth = TRUE]
           t == [s EXCEPT !.table[s.h] = e]
           c == Credentials(t)
<1>1. s.table[s.h] \in Handles
  BY DEF Libs
<1>2. e \in Handles /\ e.open = s.table[s.h].open /\ e.position = s.table[s.h].position /\ e.length = s.table[s.h].length
  BY <1>1, EntrySet
<1>3. Authorised(s, owner) \in {s, c}
  BY DEF Authorised
<1> HIDE DEF e
<1>4. Prepared(s, t, s.h) /\ t.err = s.err
  BY <1>2, TableTyped DEF Prepared, SameEntry
<1>5. t \in Libs
  BY <1>2, TableTyped
<1> HIDE DEF t
<1>6. Prepared(t, c, s.h) /\ c.err = t.err
  BY <1>5, CredentialsTyped
<1>7. Prepared(s, s, s.h)
  BY PreparedSame DEF SameTable, SameDev, SameShare
<1> QED
  BY <1>3, <1>4, <1>6, <1>7, PreparedOn

(* The prefix is asked for, unless the url is complete.                    *)
LEMMA PlacedTyped ==
    ASSUME NEW s \in Libs, s.h \in HandleSet, NEW owner \in 0..Total, NEW fq \in BOOLEAN
    PROVE  /\ Prepared(s, Placed(s, owner, fq), s.h) /\ Placed(s, owner, fq).err \in {s.err, "service"}
           /\ fq => Placed(s, owner, fq) = s
<1> DEFINE c == Called(s, s)
           f == Failing(c, "service")
           e == Ennify(c)
           r == Called(e, e)
<1>1. c \in Libs /\ SameFields(s, c) /\ (s.fuse = 0 => c.fuse = 0)
  BY CalledTyped, CalledIs
<1>2. Placed(s, owner, fq) \in {s, f, r} /\ (fq => Placed(s, owner, fq) = s)
  BY DEF Placed, Inherited, Repeated
<1> HIDE DEF c
<1>3. Prepared(s, c, s.h) /\ c.err = s.err
  BY <1>1, PreparedSame DEF SameFields
<1>4. /\ f \in Libs /\ f.err = "service"
      /\ SameTable(c, f) /\ SameDev(c, f) /\ SameShare(c, f) /\ f.status = c.status
      /\ f.h = c.h /\ f.fuse = c.fuse /\ f.trouble = c.trouble
  BY <1>1, ScratchSet DEF Errors
<1> HIDE DEF f
<1>5. Prepared(c, f, s.h)
  BY <1>4, PreparedSame
<1>6. /\ e \in Libs /\ SameTable(c, e) /\ SameDev(c, e) /\ SameShare(c, e) /\ e.status = c.status
      /\ e.h = c.h /\ e.fuse = c.fuse /\ e.trouble = c.trouble /\ e.err = c.err
  BY <1>1, EnnifyTyped
<1> HIDE DEF e
<1>7. Prepared(c, e, s.h)
  BY <1>6, PreparedSame
<1>8. r \in Libs /\ SameFields(e, r) /\ (e.fuse = 0 => r.fuse = 0)
  BY <1>6, CalledTyped, CalledIs
<1> HIDE DEF r
<1>9. Prepared(e, r, s.h) /\ r.err = e.err
  BY <1>8, PreparedSame DEF SameFields
<1>10. Prepared(s, s, s.h)
  BY PreparedSame DEF SameTable, SameDev, SameShare
<1>11. Prepared(s, f, s.h) /\ Prepared(s, r, s.h)
  BY <1>3, <1>5, <1>7, <1>9, PreparedOn
<1> QED
  BY <1>2, <1>3, <1>4, <1>6, <1>9, <1>10, <1>11

(* The login of the host is taken over.                                    *)
LEMMA AdoptedTyped ==
    ASSUME NEW s \in Libs, s.h \in HandleSet, NEW owner \in 0..Total
    PROVE  Prepared(s, Adopted(s, owner), s.h) /\ Adopted(s, owner).err = s.err
<1> DEFINE e == [s.table[s.h] EXCEPT !.parent = owner]
           t == [s EXCEPT !.table[s.h] = e]
<1>1. s.table[s.h] \in Handles
  BY DEF Libs
<1>2. e \in Handles /\ e.open = s.table[s.h].open /\ e.position = s.table[s.h].position /\ e.length = s.table[s.h].length
  BY <1>1, EntrySet
<1>3. Adopted(s, owner) \in {s, t}
  BY DEF Adopted
<1> HIDE DEF e
<1>4. Prepared(s, t, s.h) /\ t.err = s.err
  BY <1>2, TableTyped DEF Prepared, SameEntry
<1>5. Prepared(s, s, s.h)
  BY PreparedSame DEF SameTable, SameDev, SameShare
<1> QED
  BY <1>3, <1>4, <1>5

(* What a handle handed out by fujifs_open is.                             *)
Untouched(s, t) == SameTable(s, t) /\ SameDev(s, t) /\ SameShare(s, t)

(* The answer of STATUS decides: the handle is marked free again, or it is *)
(* the file's.                                                             *)
LEMMA AnsweredTyped ==
    ASSUME NEW s \in Libs, s.h \in HandleSet, s.table[s.h].open, s.err = "none", NEW owner \in 0..Total, NEW mode
    PROVE  LET t == Answered(s, owner, mode) IN
           /\ t \in Libs /\ SameDev(s, t) /\ SameShare(s, t) /\ t.h = s.h /\ Elsewise(s, t, {s.h})
           /\ t.err \in {"none", "failed"}
           /\ t.err = "none" => SameEntry(s, t, s.h)
           /\ t.err = "failed" => ~t.table[s.h].open /\ mode # "write"
           /\ t.err = "failed" <=> mode # "write" /\ s.status.err = "failed" /\ s.status.len = 0
<1> DEFINE h == s.h
           e == [s.table[h] EXCEPT !.parent = owner]
           a == [s EXCEPT !.table[h] = e]
           er == IF mode # "write" /\ s.status.err = "eof" THEN "ok" ELSE s.status.err
           st == [s.status EXCEPT !.err = er]
           b == [a EXCEPT !.status = st]
           f == Freed(s, h)
           g == Failing(f, "failed")
           bad == mode # "write" /\ s.status.err = "failed" /\ s.status.len = 0
<1>1. s.table[h] \in Handles /\ s.status \in Statuses /\ h \in HandleSet
  BY DEF Libs
<1>2. e \in Handles /\ e.open = s.table[h].open /\ e.position = s.table[h].position /\ e.length = s.table[h].length
  <2> DEFINE q == s.table[h]
  <2>1. q \in Handles
    BY <1>1
  <2> HIDE DEF q
  <2>2. LET x == [q EXCEPT !.parent = owner] IN
        x \in Handles /\ x.open = q.open /\ x.position = q.position /\ x.length = q.length
    BY <2>1, EntrySet
  <2> QED
    BY <2>2 DEF q
<1>3. st \in Statuses
  BY <1>1 DEF Statuses
<1>4. (bad => Answered(s, owner, mode) = g) /\ (~bad => Answered(s, owner, mode) = b)
  <2>1. a.status = s.status
    BY DEF Libs
  <2> QED
    BY <2>1 DEF Answered
<1>5. CASE bad
  <2>1. /\ f \in Libs /\ ~f.table[h].open
        /\ SameDev(s, f) /\ SameShare(s, f) /\ f.h = s.h
        /\ f.fuse = s.fuse /\ f.trouble = s.trouble /\ Elsewise(s, f, {h})
    BY <1>1, FreedTyped
  <2> HIDE DEF f
  <2>2. /\ g \in Libs /\ g.err = "failed" /\ SameTable(f, g)
        /\ SameDev(f, g) /\ SameShare(f, g) /\ g.h = f.h /\ g.fuse = f.fuse /\ g.trouble = f.trouble
    BY <2>1, ScratchSet DEF Errors
  <2> HIDE DEF g
  <2>3. ~g.table[h].open /\ SameDev(s, g) /\ SameShare(s, g) /\ g.h = s.h /\ Elsewise(s, g, {h})
    BY <2>1, <2>2 DEF SameTable, SameDev, SameShare, Elsewise
  <2> QED
    BY <1>4, <1>5, <2>2, <2>3
<1>6. CASE ~bad
  <2> HIDE DEF e, st
  <2>1. /\ a \in Libs /\ a.table[h] = e
        /\ SameDev(s, a) /\ SameShare(s, a) /\ a.h = s.h
        /\ a.fuse = s.fuse /\ a.trouble = s.trouble /\ a.err = s.err /\ Elsewise(s, a, {h})
    BY <1>1, <1>2, TableTyped
  <2> HIDE DEF a
  <2>2. b \in Libs
    BY <1>3, <2>1, FieldSet
  <2>3. /\ SameTable(a, b) /\ SameDev(a, b) /\ SameShare(a, b)
        /\ b.h = a.h /\ b.fuse = a.fuse /\ b.trouble = a.trouble /\ b.err = a.err
    BY <2>1 DEF Libs, SameTable, SameDev, SameShare
  <2> HIDE DEF b
  <2>4. SameDev(s, b) /\ SameShare(s, b) /\ b.h = s.h /\ Elsewise(s, b, {h}) /\ SameEntry(s, b, h)
    BY <1>2, <2>1, <2>3 DEF SameTable, SameDev, SameShare, Elsewise, SameEntry
  <2> QED
    BY <1>4, <1>6, <2>1, <2>2, <2>3, <2>4
<1> QED
  BY <1>5, <1>6

(* Of a device that did not open, a reading handle is given back.          *)
LEMMA AskedTyped ==
    ASSUME NEW s \in Libs, s.h \in HandleSet, s.table[s.h].open, s.err = "none", NEW owner \in 0..Total, NEW mode
    PROVE  LET t == Asked(s, owner, mode) IN
           /\ t \in Libs /\ SameDev(s, t) /\ SameShare(s, t) /\ t.h = s.h /\ Elsewise(s, t, {s.h})
           /\ t.err \in {"none", "failed"}
           /\ t.err = "none" => SameEntry(s, t, s.h)
           /\ t.err = "failed" => ~t.table[s.h].open /\ mode # "write"
           /\ s.fuse = 0 \/ Calm(s) => (t.err = "failed" <=> mode # "write" /\ s.dev[s.h].kind = "closed")
<1> DEFINE e == StreamError(s, s.h)
           c == Status(s, s.h, e)
           t == Answered(c, owner, mode)
<1>1. e \in {"ok", "eof", "failed"} /\ (e = "failed" <=> s.dev[s.h].kind = "closed")
  BY DEF StreamError
<1>2. s.dev[s.h].kind = "closed" => Left(s, s.h) = 0
  BY DEF Left
<1>3. Asked(s, owner, mode) = t
  BY DEF Asked
<1> HIDE DEF e
<1>4. /\ c \in Libs
      /\ SameTable(s, c) /\ SameDev(s, c) /\ SameText(s, c) /\ SameShare(s, c)
      /\ c.h = s.h /\ c.n = s.n /\ c.err = s.err /\ c.ent = s.ent /\ c.data = s.data
      /\ s.fuse = 0 => c.fuse = 0 /\ c.status = [err |-> e, len |-> Left(s, s.h)]
  BY <1>1, StatusTyped
<1>10. Calm(s) => c.status.err = e /\ c.status.len <= Left(s, s.h)
  BY <1>1, StatusCalm
<1> HIDE DEF c
<1>5. c.h \in HandleSet /\ c.table[c.h].open /\ c.err = "none"
  BY <1>4 DEF SameTable
<1>6. /\ t \in Libs /\ SameDev(c, t) /\ SameShare(c, t) /\ t.h = c.h /\ Elsewise(c, t, {c.h})
      /\ t.err \in {"none", "failed"}
      /\ t.err = "none" => SameEntry(c, t, c.h)
      /\ t.err = "failed" => ~t.table[c.h].open /\ mode # "write"
      /\ t.err = "failed" <=> mode # "write" /\ c.status.err = "failed" /\ c.status.len = 0
  BY <1>4, <1>5, AnsweredTyped
<1> HIDE DEF t
<1>7. SameDev(s, t) /\ SameShare(s, t) /\ t.h = s.h /\ Elsewise(s, t, {s.h})
  BY <1>4, <1>6 DEF SameTable, SameDev, SameShare, Elsewise
<1>8. t.err = "none" => SameEntry(s, t, s.h)
  BY <1>4, <1>6 DEF SameTable, SameEntry
<1>9. s.fuse = 0 \/ Calm(s) => (t.err = "failed" <=> mode # "write" /\ s.dev[s.h].kind = "closed")
  <2>1. c.status.len \in Nat
    BY <1>4 DEF Libs, Statuses
  <2> QED
    BY <1>1, <1>2, <1>4, <1>6, <1>10, <2>1
<1> QED
  BY <1>3, <1>4, <1>6, <1>7, <1>8, <1>9

(* What Open has done with a handle h that was free: it is open if all     *)
(* went well, free again if the FujiNet says it failed, and taken for ever *)
(* if the host's directory could not be had.                               *)
OpenedAt(s, t, h, n, mode) ==
    /\ t \in Libs /\ t.h = h /\ Elsewise(s, t, {h})
    /\ s.exist \subseteq t.exist
    /\ mode # "write" => SameShare(s, t)
    /\ t.err \in {"none", "failed", "service"}
    /\ t.err = "none" => t.table[h].open /\ t.table[h].position = s.table[h].position
                         /\ t.table[h].length = s.table[h].length
    /\ t.err = "failed" => ~t.table[h].open /\ mode # "write"
    /\ (s.fuse = 0 \/ Calm(s)) /\ t.err # "service" =>
          /\ t.dev[h] = StreamOf(Made(s, n, mode), n, mode) /\ SameShare(Made(s, n, mode), t)
          /\ t.err = "failed" <=> mode # "write" /\ ~Exists(s, n)

(* What a device opens hangs on the share alone.                           *)
LEMMA StreamSame ==
    ASSUME NEW s \in Libs, NEW t \in Libs, SameShare(s, t), NEW n, NEW mode
    PROVE  /\ StreamOf(t, n, mode) = StreamOf(s, n, mode) /\ SameShare(Made(s, n, mode), Made(t, n, mode))
           /\ Exists(s, n) = Exists(t, n)
<1>1. Exists(s, n) = Exists(t, n) /\ Exists(s, Parent[n]) = Exists(t, Parent[n]) /\ Listing(s, n) = Listing(t, n)
  BY DEF SameShare, Exists, Listing
<1>2. StreamOf(t, n, mode) = StreamOf(s, n, mode)
  BY <1>1 DEF StreamOf
<1>3. SameShare(Made(s, n, mode), Made(t, n, mode))
  <2> DEFINE makes == mode = "write" /\ n \notin Dirs /\ Exists(s, Parent[n])
  <2>1. CASE makes
    <3> DEFINE a == [s EXCEPT !.exist = s.exist \cup {n}]
               b == [t EXCEPT !.exist = t.exist \cup {n}]
               v == [a EXCEPT !.size = [s.size EXCEPT ![n] = 0]]
               w == [b EXCEPT !.size = [t.size EXCEPT ![n] = 0]]
    <3>1. a.size = s.size /\ b.size = t.size
      BY DEF Libs
    <3>2. Made(s, n, mode) = v /\ Made(t, n, mode) = w
      BY <1>1, <2>1, <3>1 DEF Made
    <3>3. /\ v.exist = s.exist \cup {n} /\ v.size = [s.size EXCEPT ![n] = 0]
          /\ w.exist = t.exist \cup {n} /\ w.size = [t.size EXCEPT ![n] = 0]
      BY DEF Libs
    <3> QED
      BY <3>2, <3>3 DEF SameShare
  <2>2. CASE ~makes
    BY <1>1, <2>2 DEF Made
  <2> QED
    BY <2>1, <2>2
<1> QED
  BY <1>1, <1>2, <1>3

(* fujifs_open, past find_handle.                                          *)
LEMMA OpenAtTyped ==
    ASSUME NEW s \in Libs, s.h \in HandleSet, s.table[s.h].open, s.err = "none", NEW owner \in 0..Total,
           NEW n, NEW mode, Openable(n, mode), NEW fq \in BOOLEAN
    PROVE  /\ OpenedAt(s, OpenOn(s, owner, n, mode, fq), s.h, n, mode)
           /\ fq => OpenOn(s, owner, n, mode, fq).err # "service"
<1> DEFINE h == s.h
           a == Authorised(s, owner)
           p == Placed(a, owner, fq)
           q == Adopted(p, owner)
           e == Ennify(q)
           d == DevOpen(e, p.h, n, mode)
           t == Asked(d, owner, mode)
<1>1. h \in HandleSet /\ h # 0
  BY DEF HandleSet
<1>2. Prepared(s, a, h) /\ a.err = s.err
  BY AuthorisedTyped
<1>3. OpenOn(s, owner, n, mode, fq) = IF p.err = "service" THEN p ELSE t
  BY <1>1 DEF OpenOn, Sent
<1> HIDE DEF a
<1>4. a \in Libs /\ a.h = h /\ a.h \in HandleSet
  BY <1>1, <1>2 DEF Prepared
<1>5. Prepared(a, p, h) /\ p.err \in {a.err, "service"} /\ (fq => p = a)
  BY <1>4, PlacedTyped
<1> HIDE DEF p
<1>6. Prepared(s, p, h) /\ (p.err = "none" \/ p.err = "service") /\ (fq => p.err # "service")
  BY <1>2, <1>5, PreparedOn
<1>7. p \in Libs /\ p.h = h
  BY <1>6 DEF Prepared
<1>8. CASE p.err = "service"
  <2>1. OpenedAt(s, p, h, n, mode)
    BY <1>6, <1>8 DEF Prepared, OpenedAt, SameShare
  <2> QED
    BY <1>3, <1>6, <1>8, <2>1
<1>9. CASE p.err = "none"
  <2>1. Prepared(p, q, h) /\ q.err = p.err
    BY <1>1, <1>7, AdoptedTyped
  <2> HIDE DEF q
  <2>2. q \in Libs /\ q.h = h
    BY <1>7, <2>1 DEF Prepared
  <2>3. /\ e \in Libs /\ SameTable(q, e) /\ SameDev(q, e) /\ SameShare(q, e) /\ e.status = q.status
        /\ e.h = q.h /\ e.fuse = q.fuse /\ e.trouble = q.trouble /\ e.err = q.err
    BY <2>2, EnnifyTyped
  <2> HIDE DEF e
  <2>4. Prepared(q, e, h)
    BY <1>1, <2>3, PreparedSame
  <2>5. Prepared(s, e, h) /\ e.err = "none" /\ e.h = h
    BY <1>6, <1>9, <2>1, <2>2, <2>3, <2>4, PreparedOn
  <2>6. /\ d \in Libs /\ SameTable(e, d) /\ Elsewise(e, d, {h}) /\ e.exist \subseteq d.exist
        /\ mode # "write" => SameShare(e, d)
        /\ d.h = h /\ d.err = "none"
        /\ e.fuse = 0 => d.fuse = 0
        /\ e.fuse = 0 \/ Calm(e) => d.dev[h] = StreamOf(Made(e, n, mode), n, mode) /\ SameShare(Made(e, n, mode), d)
        /\ d.trouble = e.trouble
    <3> DEFINE x == DevOpen(e, h, n, mode)
    <3>1. /\ x \in Libs
          /\ SameTable(e, x) /\ Elsewise(e, x, {h})
          /\ e.exist \subseteq x.exist
          /\ mode # "write" => SameShare(e, x)
          /\ x.h = e.h /\ x.err = e.err
          /\ e.fuse = 0 => x.fuse = 0
          /\ e.fuse = 0 \/ Calm(e) => x.dev[h] = StreamOf(Made(e, n, mode), n, mode) /\ SameShare(Made(e, n, mode), x)
          /\ x.trouble = e.trouble
      BY <1>1, <2>3, DevOpenTyped
    <3>2. d = x
      BY <1>7
    <3> HIDE DEF x, d
    <3> QED
      BY <2>5, <3>1, <3>2
  <2> HIDE DEF d
  <2>7. d.table[h].open
    BY <2>5, <2>6 DEF SameTable, Prepared, SameEntry
  <2>8. /\ t \in Libs /\ SameDev(d, t) /\ SameShare(d, t) /\ t.h = d.h /\ Elsewise(d, t, {h})
        /\ t.err \in {"none", "failed"}
        /\ t.err = "none" => SameEntry(d, t, h)
        /\ t.err = "failed" => ~t.table[h].open /\ mode # "write"
        /\ d.fuse = 0 \/ Calm(d) => (t.err = "failed" <=> mode # "write" /\ d.dev[h].kind = "closed")
    <3>1. d.h \in HandleSet /\ d.table[d.h].open /\ d.err = "none" /\ d \in Libs
      BY <1>1, <2>6, <2>7
    <3>2. /\ t \in Libs /\ SameDev(d, t) /\ SameShare(d, t) /\ t.h = d.h /\ Elsewise(d, t, {d.h})
          /\ t.err \in {"none", "failed"}
          /\ t.err = "none" => SameEntry(d, t, d.h)
          /\ t.err = "failed" => ~t.table[d.h].open /\ mode # "write"
          /\ d.fuse = 0 \/ Calm(d) => (t.err = "failed" <=> mode # "write" /\ d.dev[d.h].kind = "closed")
      BY <3>1, AskedTyped
    <3> QED
      BY <2>6, <3>2
  <2> HIDE DEF t
  <2>9. Elsewise(s, t, {h}) /\ s.exist \subseteq t.exist /\ (mode # "write" => SameShare(s, t))
    BY <2>5, <2>6, <2>8 DEF Prepared, Elsewise, SameShare
  <2>10. t.err = "none" => /\ t.table[h].open /\ t.table[h].position = s.table[h].position
                           /\ t.table[h].length = s.table[h].length
    BY <2>5, <2>6, <2>8 DEF Prepared, SameEntry, SameTable
  <2>11. ASSUME s.fuse = 0 \/ Calm(s)
         PROVE  /\ t.dev[h] = StreamOf(Made(s, n, mode), n, mode) /\ SameShare(Made(s, n, mode), t)
                /\ t.err = "failed" <=> mode # "write" /\ ~Exists(s, n)
    <3>1. (e.fuse = 0 \/ Calm(e)) /\ (d.fuse = 0 \/ Calm(d)) /\ SameShare(s, e) /\ e \in Libs
      BY <2>5, <2>6, <2>11 DEF Prepared, Elsewise, Calm
    <3> DEFINE m == Made(s, n, mode)
               k == Made(e, n, mode)
    <3>2. SameShare(m, k) /\ m \in Libs /\ k \in Libs /\ (mode # "write" => m = s)
      BY <3>1, StreamSame, MadeTyped
    <3> HIDE DEF m, k
    <3>3. StreamOf(k, n, mode) = StreamOf(m, n, mode)
      BY <3>2, StreamSame
    <3>4. t.dev[h] = StreamOf(m, n, mode) /\ SameShare(m, t)
      BY <2>6, <2>8, <3>1, <3>2, <3>3 DEF SameDev, SameShare, m, k
    <3>5. t.err = "failed" <=> mode # "write" /\ d.dev[h].kind = "closed"
      BY <2>6, <2>8, <3>1
    <3>6. d.dev[h] = StreamOf(m, n, mode)
      BY <2>8, <3>4 DEF SameDev
    <3>7. StreamOf(m, n, mode).kind = "closed" <=> ~Exists(m, n)
      BY <3>2, StreamTyped DEF Closed
    <3> QED
      BY <3>2, <3>4, <3>5, <3>6, <3>7 DEF m
  <2>12. OpenedAt(s, t, h, n, mode)
    BY <2>6, <2>8, <2>9, <2>10, <2>11 DEF OpenedAt
  <2> QED
    BY <1>3, <1>9, <2>8, <2>12
<1> QED
  BY <1>6, <1>8, <1>9

(* fujifs_open: no handle, or one that was free, open on what was asked for. *)
LEMMA OpenTyped ==
    ASSUME NEW s \in Libs, NEW owner \in 0..Total, NEW n, NEW mode, Openable(n, mode), NEW fq \in BOOLEAN
    PROVE  LET t == Open(s, owner, n, mode, fq)
               h == Lowest(Free(s)) IN
           /\ h = 0 => /\ t \in Libs /\ t.err = "no_device" /\ t.h = 0 /\ Untouched(s, t)
                       /\ t.fuse = s.fuse /\ t.trouble = s.trouble
           /\ h # 0 => h \in Free(s) /\ OpenedAt(s, t, h, n, mode)
           /\ fq => t.err # "service"
<1> DEFINE h == Lowest(Free(s))
           f == FindHandle(s)
           t == OpenOn(f, owner, n, mode, fq)
<1>0. Open(s, owner, n, mode, fq) = t /\ h = Lowest(Free(s))
  BY DEF Open
<1>1. /\ f \in Libs /\ f.h = h /\ h \in {0} \cup Free(s) /\ f.err = "none"
      /\ SameDev(s, f) /\ SameText(s, f) /\ SameShare(s, f)
      /\ f.fuse = s.fuse /\ f.trouble = s.trouble
      /\ h = 0 => SameTable(s, f)
      /\ h # 0 => /\ f.table[h].open
                  /\ f.table[h].position = s.table[h].position
                  /\ f.table[h].length = s.table[h].length
                  /\ Elsewise(s, f, {h})
  BY FindHandleIs
<1> HIDE DEF f, h
<1>2. CASE h = 0
  <2>1. t = Failing(f, "no_device")
    BY <1>1, <1>2 DEF OpenOn
  <2>2. /\ t \in Libs /\ t.err = "no_device"
        /\ SameTable(f, t) /\ SameDev(f, t) /\ SameText(f, t) /\ SameShare(f, t) /\ t.h = f.h
        /\ t.fuse = f.fuse /\ t.trouble = f.trouble
    BY <1>1, <2>1, ScratchSet DEF Errors
  <2> HIDE DEF t
  <2>3. Untouched(s, t)
    BY <1>1, <1>2, <2>2 DEF Untouched, SameTable, SameDev, SameShare
  <2> QED
    BY <1>0, <1>1, <1>2, <2>2, <2>3
<1>3. CASE h # 0
  <2>1. h \in Free(s) /\ h \in HandleSet
    BY <1>1, <1>3 DEF Free
  <2>2. f.h \in HandleSet /\ f.table[f.h].open
    BY <1>1, <1>3, <2>1
  <2>3. OpenedAt(f, t, f.h, n, mode) /\ (fq => t.err # "service")
    BY <1>1, <2>2, OpenAtTyped
  <2> HIDE DEF t
  <2>4. OpenedAt(f, t, h, n, mode)
    BY <1>1, <2>3
  <2>5. /\ t \in Libs /\ t.h = h
        /\ t.err \in {"none", "failed", "service"}
        /\ t.err = "failed" => ~t.table[h].open /\ mode # "write"
    BY <2>4 DEF OpenedAt
  <2>6. /\ Elsewise(s, t, {h}) /\ s.exist \subseteq t.exist
        /\ mode # "write" => SameShare(s, t)
        /\ t.err = "none" => t.table[h].open /\ t.table[h].position = s.table[h].position
                             /\ t.table[h].length = s.table[h].length
    BY <1>1, <1>3, <2>4 DEF OpenedAt, Elsewise, SameShare
  <2>7. ASSUME s.fuse = 0 \/ Calm(s), t.err # "service"
        PROVE  /\ t.dev[h] = StreamOf(Made(s, n, mode), n, mode) /\ SameShare(Made(s, n, mode), t)
               /\ t.err = "failed" <=> mode # "write" /\ ~Exists(s, n)
    <3> DEFINE m == Made(s, n, mode)
               k == Made(f, n, mode)
    <3>1. SameShare(m, k) /\ m \in Libs /\ k \in Libs /\ Exists(s, n) = Exists(f, n)
      BY <1>1, StreamSame, MadeTyped
    <3>2. /\ t.dev[h] = StreamOf(k, n, mode) /\ SameShare(k, t)
          /\ t.err = "failed" <=> mode # "write" /\ ~Exists(f, n)
      BY <1>1, <2>4, <2>7 DEF OpenedAt, Calm
    <3> HIDE DEF m, k
    <3>3. StreamOf(k, n, mode) = StreamOf(m, n, mode)
      BY <3>1, StreamSame
    <3> QED
      BY <3>1, <3>2, <3>3 DEF SameShare, m
  <2>8. OpenedAt(s, t, h, n, mode)
    BY <2>5, <2>6, <2>7 DEF OpenedAt
  <2> QED
    BY <1>0, <1>3, <2>1, <2>3, <2>8
<1> QED
  BY <1>2, <1>3

-----------------------------------------------------------------------------
(* Closing, reading, writing, moving.                                      *)

(* fujifs_close gives one handle back, or says it was not open.            *)
LEMMA CloseTyped ==
    ASSUME NEW s \in Libs, NEW h
    PROVE  LET t == Close(s, h) IN
           /\ t \in Libs /\ SameText(s, t) /\ SameShare(s, t) /\ t.h = s.h /\ t.ent = s.ent /\ t.n = s.n
           /\ s.fuse = 0 => t.fuse = 0
           /\ ~IsOpen(s, h) => Untouched(s, t) /\ t.err = "not_connected"
           /\ IsOpen(s, h) => /\ h \in HandleSet /\ Elsewise(s, t, {h}) /\ ~t.table[h].open /\ t.err = "none"
                              /\ t.dev[h] \in {s.dev[h], Closed}
                              /\ s.fuse = 0 => t.dev[h] = Closed
<1>1. CASE ~IsOpen(s, h)
  <2> DEFINE t == Failing(s, "not_connected")
  <2>1. Close(s, h) = t
    BY <1>1 DEF Close
  <2>2. /\ t \in Libs /\ t.err = "not_connected"
        /\ SameTable(s, t) /\ SameDev(s, t) /\ SameText(s, t) /\ SameShare(s, t) /\ t.h = s.h
        /\ t.fuse = s.fuse /\ t.trouble = s.trouble
        /\ t.ent = s.ent /\ t.n = s.n
    BY ScratchSet DEF Errors
  <2> QED
    BY <1>1, <2>1, <2>2 DEF Untouched
<1>2. CASE IsOpen(s, h)
  <2> DEFINE w == [s EXCEPT !.dev[h] = Closed]
             c == Called(s, w)
             f == Freed(c, h)
             t == Failing(f, "none")
  <2>1. Close(s, h) = t
    BY <1>2 DEF Close
  <2>2. h \in HandleSet
    BY <1>2 DEF IsOpen
  <2>3. Closed \in Streams
    BY DEF Closed, Streams, Kinds, Objects
  <2>4. /\ w \in Libs /\ w.dev = [s.dev EXCEPT ![h] = Closed]
        /\ SameTable(s, w) /\ SameText(s, w) /\ SameShare(s, w)
        /\ w.h = s.h /\ w.ent = s.ent /\ w.fuse = s.fuse /\ w.trouble = s.trouble /\ w.n = s.n
    BY <2>2, <2>3, StreamingTyped
  <2>5. s.dev \in [HandleSet -> Streams]
    BY DEF Libs
  <2> HIDE DEF w
  <2>6. w.dev[h] = Closed /\ \A x \in HandleSet \ {h} : w.dev[x] = s.dev[x]
    BY <2>2, <2>4, <2>5
  <2>7. c \in Libs
    BY <2>4, CalledTyped
  <2>8. PICK b \in {s, w} : SameFields(b, c) /\ (s.fuse = 0 => b = w /\ c.fuse = 0)
    BY <2>4, CalledIs
  <2> HIDE DEF c
  <2>9. /\ SameTable(s, c) /\ SameText(s, c) /\ SameShare(s, c) /\ Elsewise(s, c, {h})
        /\ c.h = s.h /\ c.ent = s.ent /\ c.n = s.n
        /\ c.dev[h] \in {s.dev[h], Closed} /\ (s.fuse = 0 => c.dev[h] = Closed)
    <3>1. CASE b = s
      BY <2>6, <2>8, <3>1 DEF SameFields, SameTable, SameText, SameShare, SameDev, Elsewise
    <3>2. CASE b = w
      BY <2>4, <2>6, <2>8, <3>2 DEF SameFields, SameTable, SameText, SameShare, SameDev, Elsewise
    <3> QED
      BY <3>1, <3>2
  <2>10. /\ f \in Libs /\ ~f.table[h].open /\ SameDev(c, f) /\ SameText(c, f) /\ SameShare(c, f)
         /\ f.h = c.h /\ f.ent = c.ent /\ f.n = c.n
         /\ f.fuse = c.fuse /\ f.trouble = c.trouble /\ Elsewise(c, f, {h})
    BY <2>2, <2>7, FreedTyped
  <2> HIDE DEF f
  <2>11. /\ t \in Libs /\ t.err = "none"
         /\ SameTable(f, t) /\ SameDev(f, t) /\ SameText(f, t) /\ SameShare(f, t) /\ t.h = f.h
         /\ t.fuse = f.fuse /\ t.trouble = f.trouble
         /\ t.ent = f.ent /\ t.n = f.n
    BY <2>10, ScratchSet DEF Errors
  <2> HIDE DEF t
  <2>12. /\ SameText(s, t) /\ SameShare(s, t) /\ t.h = s.h /\ t.ent = s.ent /\ t.n = s.n
         /\ Elsewise(s, t, {h}) /\ ~t.table[h].open /\ t.dev[h] = c.dev[h]
    BY <2>2, <2>9, <2>10, <2>11 DEF SameTable, SameText, SameShare, SameDev, Elsewise
  <2>13. t.dev[h] \in {s.dev[h], Closed} /\ (s.fuse = 0 => t.dev[h] = Closed)
    BY <2>9, <2>12
  <2>14. s.fuse = 0 => t.fuse = 0
    BY <2>8, <2>10, <2>11
  <2> QED
    BY <1>2, <2>1, <2>2, <2>11, <2>12, <2>13, <2>14
<1> QED
  BY <1>1, <1>2

(* n pieces from where a stream stands.                                    *)
LEMMA TextTyped ==
    ASSUME NEW d \in Streams, NEW n \in Nat, d.kind = "dir" => d.at + n <= Len(d.text)
    PROVE  /\ Text(d, n) \in Seq(Pieces) /\ Len(Text(d, n)) = n
           /\ d.kind = "dir" => \A i \in 1..n : Text(d, n)[i] = d.text[d.at + i]
<1> DEFINE f == [i \in 1..n |-> IF d.kind = "dir" THEN d.text[d.at + i] ELSE <<"data", 1>>]
<1>1. d.text \in Seq(Pieces) /\ d.at \in Nat
  BY DEF Streams
<1>2. <<"data", 1>> \in Pieces
  BY DEF Pieces
<1>3. ASSUME NEW i \in 1..n, d.kind = "dir" PROVE d.text[d.at + i] \in Pieces
  <2>1. d.at + i \in 1..Len(d.text)
    BY <1>1, <1>3
  <2> QED
    BY <1>1, <2>1
<1>4. f \in [1..n -> Pieces]
  BY <1>2, <1>3
<1>5. \A i \in 1..n : d.kind = "dir" => f[i] = d.text[d.at + i]
  OBVIOUS
<1> HIDE DEF f
<1>6. f \in Seq(Pieces) /\ Len(f) = n
  BY <1>4
<1> QED
  BY <1>5, <1>6 DEF Text, f

(* A stream moved on.                                                      *)
LEMMA MovedTyped ==
    ASSUME NEW d \in Streams, NEW at \in Nat, d.kind = "dir" => at <= Len(d.text)
    PROVE  LET e == [d EXCEPT !.at = at] IN
           e \in Streams /\ e.at = at /\ e.kind = d.kind /\ e.obj = d.obj /\ e.text = d.text
BY DEF Streams

(* The same stream, elsewhere.                                             *)
SameStream(d, e) == e.kind = d.kind /\ e.obj = d.obj /\ e.text = d.text

(* A stream read j further has j less left.                                *)
LEMMA LeftMoved ==
    ASSUME NEW s \in Libs, NEW t \in Libs, NEW h \in HandleSet, SameStream(s.dev[h], t.dev[h]), SameShare(s, t),
           NEW j \in 0..Left(s, h), t.dev[h].at = s.dev[h].at + j
    PROVE  Left(t, h) = Left(s, h) - j
<1>1. s.dev[h] \in Streams /\ s.size \in [Names -> Nat] /\ Left(s, h) \in Nat
  BY LeftTyped DEF Libs
<1>2. s.dev[h].at \in Nat /\ s.dev[h].text \in Seq(Pieces) /\ (s.dev[h].kind = "file" => s.dev[h].obj \in Names)
  BY <1>1 DEF Streams
<1>3. s.dev[h].kind = "file" => s.size[s.dev[h].obj] \in Nat
  BY <1>1, <1>2
<1>4. Len(s.dev[h].text) \in Nat
  BY <1>2
<1> DEFINE d == s.dev[h]
           e == t.dev[h]
           z == s.size[d.obj]
<1>5. e.kind = d.kind /\ e.obj = d.obj /\ e.text = d.text /\ t.size = s.size /\ e.at = d.at + j
  BY DEF SameStream, SameShare
<1>6. CASE d.kind = "dir"
  BY <1>1, <1>2, <1>4, <1>5, <1>6 DEF Left
<1>7. CASE d.kind = "file"
  BY <1>1, <1>2, <1>3, <1>5, <1>7 DEF Left
<1>8. CASE d.kind \notin {"dir", "file"}
  BY <1>1, <1>5, <1>8 DEF Left
<1> QED
  BY <1>6, <1>7, <1>8

(* network_read brings what comes next in the stream, and no more than is  *)
(* asked for or left.                                                      *)
LEMMA FetchedTyped ==
    ASSUME NEW s \in Libs, NEW h \in HandleSet, NEW n \in Nat
    PROVE  LET t == Fetched(s, h, n) IN
           /\ t \in Libs /\ SameTable(s, t) /\ SameText(s, t) /\ SameShare(s, t) /\ Elsewise(s, t, {h})
           /\ t.h = s.h /\ t.err = s.err /\ t.ent = s.ent
           /\ SameStream(s.dev[h], t.dev[h])
           /\ t.n \in 0..n /\ (t.n > 0 => Len(t.data) = t.n) /\ Left(t, h) + t.n <= Left(s, h)
           /\ s.fuse = 0 /\ n <= Left(s, h) =>
                 /\ t.n = n /\ t.dev[h].at = s.dev[h].at + n
                 /\ s.dev[h].kind = "dir" => \A i \in 1..n : t.data[i] = s.dev[h].text[s.dev[h].at + i]
           /\ t.n > 0 => t.dev[h].at = s.dev[h].at + t.n
           /\ Calm(s) /\ n <= Left(s, h) => t.n = n
<1> DEFINE d == s.dev[h]
           there == Left(s, h)
           k == Smaller(n, there)
           e == [d EXCEPT !.at = d.at + k]
           w == [s EXCEPT !.dev[h] = e]
           c == Called(s, w)
           x == Text(d, k)
           m == IF c.reply /\ n <= there THEN n ELSE 0
           b == [c EXCEPT !.n = m]
           t == [b EXCEPT !.data = x]
<1>1. d \in Streams /\ d.at \in Nat /\ there \in Nat /\ (d.kind = "dir" => d.at + there = Len(d.text))
  BY LeftTyped DEF Libs, Streams
<1>2. k \in Nat /\ k <= n /\ k <= there /\ (n <= there => k = n)
  BY <1>1 DEF Smaller
<1>3. Fetched(s, h, n) = t
  BY DEF Fetched, Delivered
<1> HIDE DEF k
<1>4. d.at + k \in Nat /\ (d.kind = "dir" => d.at + k <= Len(d.text))
  <2> HIDE DEF d, there
  <2> QED
    BY <1>1, <1>2
<1>5. e \in Streams /\ e.at = d.at + k /\ SameStream(d, e)
  <2> HIDE DEF d
  <2> QED
    BY <1>1, <1>4, MovedTyped DEF SameStream
<1>6. x \in Seq(Pieces) /\ Len(x) = k /\ (d.kind = "dir" => \A i \in 1..k : x[i] = d.text[d.at + i])
  <2> HIDE DEF d
  <2> QED
    BY <1>1, <1>2, <1>4, TextTyped
<1> HIDE DEF e, x, there
<1>7. /\ w \in Libs /\ w.dev = [s.dev EXCEPT ![h] = e]
      /\ SameTable(s, w) /\ SameText(s, w) /\ SameShare(s, w)
      /\ w.h = s.h /\ w.err = s.err /\ w.ent = s.ent /\ w.fuse = s.fuse /\ w.trouble = s.trouble
  BY <1>5, StreamingTyped
<1>8. s.dev \in [HandleSet -> Streams]
  BY DEF Libs
<1> HIDE DEF w
<1>9. w.dev[h] = e /\ \A y \in HandleSet \ {h} : w.dev[y] = s.dev[y]
  BY <1>7, <1>8
<1>10. c \in Libs
  BY <1>7, CalledTyped
<1>11. PICK a \in {s, w} : /\ SameFields(a, c) /\ (s.fuse = 0 => a = w /\ c.reply /\ c.fuse = 0)
                           /\ (c.reply => a = w) /\ (Calm(s) => c.reply)
  BY <1>7, CalledIs
<1> HIDE DEF c
<1>12. /\ SameTable(s, c) /\ SameText(s, c) /\ SameShare(s, c) /\ Elsewise(s, c, {h})
       /\ c.h = s.h /\ c.err = s.err /\ c.ent = s.ent /\ SameStream(d, c.dev[h])
       /\ s.fuse = 0 => c.dev[h] = e
       /\ c.dev[h] \in {d, e} /\ (c.reply => c.dev[h] = e)
  <2>1. CASE a = s
    BY <1>9, <1>11, <2>1 DEF SameFields, SameTable, SameText, SameShare, SameDev, Elsewise, SameStream
  <2>2. CASE a = w
    BY <1>5, <1>7, <1>9, <1>11, <2>2 DEF SameFields, SameTable, SameText, SameShare, SameDev, Elsewise
  <2> QED
    BY <2>1, <2>2
<1>13. m \in 0..n /\ (m > 0 => m = k /\ c.reply) /\ ((s.fuse = 0 \/ Calm(s)) /\ n <= there => m = n)
  BY <1>1, <1>2, <1>11
<1> HIDE DEF m
<1>14. b \in Libs
  BY <1>10, <1>13, FieldSet
<1>15. t \in Libs
  BY <1>6, <1>14, FieldSet
<1>16. /\ SameTable(c, t) /\ SameText(c, t) /\ SameShare(c, t) /\ SameDev(c, t) /\ t.n = m /\ t.data = x
       /\ t.h = c.h /\ t.err = c.err /\ t.ent = c.ent /\ t.fuse = c.fuse /\ t.trouble = c.trouble
  BY <1>10 DEF Libs, SameTable, SameText, SameShare, SameDev
<1> HIDE DEF t
<1>17. /\ SameTable(s, t) /\ SameText(s, t) /\ SameShare(s, t) /\ Elsewise(s, t, {h})
       /\ t.h = s.h /\ t.err = s.err /\ t.ent = s.ent /\ SameStream(d, t.dev[h])
       /\ s.fuse = 0 => t.dev[h] = e
  BY <1>12, <1>16 DEF SameTable, SameText, SameShare, SameDev, Elsewise
<1>18. s.fuse = 0 /\ n <= there => /\ t.n = n /\ t.dev[h].at = d.at + n
                                   /\ d.kind = "dir" => \A i \in 1..n : t.data[i] = d.text[d.at + i]
  BY <1>2, <1>5, <1>6, <1>13, <1>16, <1>17
<1>19. t.n \in 0..n /\ (t.n > 0 => Len(t.data) = t.n)
  BY <1>6, <1>13, <1>16
<1>20. Left(t, h) + t.n <= there
  <2>1. PICK j \in {0, k} : t.dev[h].at = d.at + j /\ m <= j
    <3>1. t.dev[h] \in {d, e} /\ (c.reply => t.dev[h] = e)
      BY <1>12, <1>16 DEF SameDev
    <3>2. CASE m > 0
      BY <1>2, <1>5, <1>13, <3>1, <3>2
    <3>3. CASE m = 0
      BY <1>1, <1>2, <1>5, <3>1, <3>3
    <3> QED
      BY <1>13, <3>2, <3>3
  <2>2. j \in 0..Left(s, h)
    BY <1>1, <1>2 DEF there
  <2>3. Left(t, h) = Left(s, h) - j
    BY <1>15, <1>17, <2>1, <2>2, LeftMoved
  <2> QED
    BY <1>1, <1>13, <1>16, <2>1, <2>2, <2>3 DEF there
<1>21. (t.n > 0 => t.dev[h].at = d.at + t.n) /\ (Calm(s) /\ n <= there => t.n = n)
  BY <1>5, <1>12, <1>13, <1>16 DEF SameDev
<1> QED
  BY <1>3, <1>15, <1>17, <1>18, <1>19, <1>20, <1>21 DEF there

(* A read that brings nothing.                                             *)
LEMMA NoneRead ==
    ASSUME NEW s \in Libs
    PROVE  LET t == [s EXCEPT !.n = 0] IN
           /\ t \in Libs /\ t.n = 0 /\ SameTable(s, t) /\ SameDev(s, t) /\ SameText(s, t) /\ SameShare(s, t)
           /\ t.h = s.h /\ t.err = s.err /\ t.ent = s.ent
           /\ t.fuse = s.fuse /\ t.trouble = s.trouble /\ t.status = s.status
<1> DEFINE t == [s EXCEPT !.n = 0]
<1>1. t \in Libs
  BY FieldSet
<1>2. /\ t.n = 0 /\ SameTable(s, t) /\ SameDev(s, t) /\ SameText(s, t) /\ SameShare(s, t)
      /\ t.h = s.h /\ t.err = s.err /\ t.ent = s.ent
      /\ t.fuse = s.fuse /\ t.trouble = s.trouble /\ t.status = s.status
  BY DEF Libs, SameTable, SameDev, SameText, SameShare
<1> QED
  BY <1>1, <1>2

(* What a read of want pieces from h does.                                 *)
HasRead(s, t, h, want) ==
    /\ t \in Libs /\ SameTable(s, t) /\ SameText(s, t) /\ SameShare(s, t)
    /\ h \in HandleSet => Elsewise(s, t, {h}) /\ SameStream(s.dev[h], t.dev[h])
    /\ ~IsOpen(s, h) => SameDev(s, t)
    /\ t.h = s.h /\ t.err = s.err /\ t.ent = s.ent /\ (s.fuse = 0 => t.fuse = 0)
    /\ t.n \in 0..want /\ (t.n > 0 => Len(t.data) = t.n)
    /\ h \in HandleSet => Left(t, h) + t.n <= Left(s, h)
    /\ s.fuse = 0 /\ IsOpen(s, h) =>
          /\ t.n = Smaller(want, Left(s, h)) /\ t.dev[h].at = s.dev[h].at + t.n
          /\ s.dev[h].kind = "dir" => \A i \in 1..t.n : t.data[i] = s.dev[h].text[s.dev[h].at + i]
    /\ t.n > 0 => h \in HandleSet /\ t.dev[h].at = s.dev[h].at + t.n
    /\ Calm(s) /\ IsOpen(s, h) /\ want > 0 /\ t.n = 0 => Left(s, h) = 0

(* fujifs_read.                                                            *)
LEMMA ReadTyped ==
    ASSUME NEW s \in Libs, NEW h, NEW want \in Nat
    PROVE  HasRead(s, Read(s, h, want), h, want)
<1>1. CASE ~IsOpen(s, h)
  <2> DEFINE t == [s EXCEPT !.n = 0]
  <2>1. Read(s, h, want) = t
    BY <1>1 DEF Read
  <2>2. /\ t \in Libs /\ t.n = 0 /\ SameTable(s, t) /\ SameDev(s, t) /\ SameText(s, t) /\ SameShare(s, t)
        /\ t.h = s.h /\ t.err = s.err /\ t.ent = s.ent /\ t.fuse = s.fuse /\ t.trouble = s.trouble
    BY NoneRead
  <2> HIDE DEF t
  <2>4. h \in HandleSet => Left(t, h) + t.n <= Left(s, h)
    <3>1. Left(t, h) = Left(s, h)
      BY <2>2 DEF Left, SameDev, SameShare
    <3> QED
      BY <2>2, <3>1, LeftTyped
  <2>3. HasRead(s, t, h, want)
    BY <1>1, <2>2, <2>4 DEF HasRead, Elsewise, SameStream, SameTable, SameDev
  <2> QED
    BY <2>1, <2>3
<1>2. CASE IsOpen(s, h)
  <2> DEFINE e == StreamError(s, h)
             c == Status(s, h, e)
             m == Smaller(want, c.status.len)
             z == [c EXCEPT !.n = 0]
             f == Fetched(c, h, m)
  <2>1. h \in HandleSet
    BY <1>2 DEF IsOpen
  <2>2. e \in {"ok", "eof", "failed"} /\ (e = "ok" <=> s.dev[h].kind # "closed" /\ Left(s, h) # 0)
    BY DEF StreamError
  <2>3. Read(s, h, want) = IF c.status.err # "ok" /\ c.status.len = 0 THEN z ELSE f
    BY <1>2 DEF Read, ReadKnowing
  <2>4. Left(s, h) \in Nat /\ (s.dev[h].kind = "closed" => Left(s, h) = 0)
    BY <2>1, LeftTyped DEF Left
  <2> HIDE DEF e
  <2>5. /\ c \in Libs
        /\ SameTable(s, c) /\ SameDev(s, c) /\ SameText(s, c) /\ SameShare(s, c)
        /\ c.h = s.h /\ c.err = s.err /\ c.ent = s.ent
        /\ s.fuse = 0 => c.fuse = 0 /\ c.status = [err |-> e, len |-> Left(s, h)]
        /\ c.trouble = s.trouble
    BY <2>1, <2>2, StatusTyped
  <2>9. Calm(s) => /\ c.status.err = e /\ c.status.len <= Left(s, h)
                   /\ Left(s, h) # 0 => c.status.len # 0
    BY <2>1, <2>2, StatusCalm
  <2> HIDE DEF c
  <2>6. m \in Nat /\ m <= want
    <3>1. c.status.len \in Nat
      BY <2>5 DEF Libs, Statuses
    <3> QED
      BY <3>1, SmallerTyped
  <2>7. CASE c.status.err # "ok" /\ c.status.len = 0
    <3>1. /\ z \in Libs /\ z.n = 0 /\ SameTable(c, z) /\ SameDev(c, z) /\ SameText(c, z) /\ SameShare(c, z)
          /\ z.h = c.h /\ z.err = c.err /\ z.ent = c.ent /\ z.fuse = c.fuse /\ z.trouble = c.trouble
      BY <2>5, NoneRead
    <3> HIDE DEF z
    <3>2. s.fuse = 0 => Left(s, h) = 0 /\ Smaller(want, Left(s, h)) = 0
      BY <2>2, <2>4, <2>5, <2>7 DEF Smaller
    <3>7. Calm(s) => Left(s, h) = 0
      BY <2>2, <2>4, <2>9, <2>7
    <3>3. s.dev[h].at \in Nat
      BY <2>1 DEF Libs, Streams
    <3>4. /\ SameTable(s, z) /\ SameText(s, z) /\ SameShare(s, z) /\ SameDev(s, z)
          /\ z.h = s.h /\ z.err = s.err /\ z.ent = s.ent /\ (s.fuse = 0 => z.fuse = 0)
      BY <2>5, <3>1 DEF SameTable, SameText, SameShare, SameDev
    <3>6. Left(z, h) + z.n <= Left(s, h)
      <4>1. Left(z, h) = Left(s, h)
        BY <3>4 DEF Left, SameDev, SameShare
      <4> QED
        BY <2>4, <3>1, <4>1
    <3>5. HasRead(s, z, h, want)
      BY <1>2, <2>1, <3>1, <3>2, <3>3, <3>4, <3>6, <3>7 DEF HasRead, Elsewise, SameStream, SameTable, SameDev
    <3> QED
      BY <2>3, <2>7, <3>5
  <2>8. CASE ~(c.status.err # "ok" /\ c.status.len = 0)
    <3>1. /\ f \in Libs /\ SameTable(c, f) /\ SameText(c, f) /\ SameShare(c, f) /\ Elsewise(c, f, {h})
          /\ f.h = c.h /\ f.err = c.err /\ f.ent = c.ent
          /\ SameStream(c.dev[h], f.dev[h])
          /\ f.n \in 0..m /\ (f.n > 0 => Len(f.data) = f.n) /\ Left(f, h) + f.n <= Left(c, h)
          /\ c.fuse = 0 /\ m <= Left(c, h) =>
                /\ f.n = m /\ f.dev[h].at = c.dev[h].at + m
                /\ c.dev[h].kind = "dir" => \A i \in 1..m : f.data[i] = c.dev[h].text[c.dev[h].at + i]
          /\ f.n > 0 => f.dev[h].at = c.dev[h].at + f.n
          /\ Calm(c) /\ m <= Left(c, h) => f.n = m
      BY <2>1, <2>5, <2>6, FetchedTyped
    <3>2. Left(c, h) = Left(s, h)
      BY <2>5 DEF Left, SameDev, SameShare
    <3>3. s.fuse = 0 => c.fuse = 0 /\ m = Smaller(want, Left(s, h)) /\ m <= Left(c, h)
      <4>1. s.fuse = 0 => c.fuse = 0 /\ c.status.len = Left(s, h)
        BY <2>5
      <4>2. Smaller(want, Left(s, h)) <= Left(s, h)
        BY <2>4, SmallerTyped
      <4> QED
        BY <3>2, <4>1, <4>2
    <3>8. Calm(s) /\ want > 0 /\ f.n = 0 => Left(s, h) = 0
      <4>1. c.status.len \in Nat
        BY <2>5 DEF Libs, Statuses
      <4>2. Calm(s) => Calm(c) /\ m <= Left(c, h) /\ (want > 0 /\ Left(s, h) # 0 => m # 0)
        BY <2>4, <2>5, <2>9, <3>2, <4>1 DEF Calm, Smaller
      <4> HIDE DEF m, f
      <4> QED
        BY <3>1, <4>2
    <3> HIDE DEF m, f
    <3>9. f.n > 0 => f.dev[h].at = s.dev[h].at + f.n
      BY <2>5, <3>1 DEF SameDev
    <3>4. /\ SameTable(s, f) /\ SameText(s, f) /\ SameShare(s, f) /\ Elsewise(s, f, {h})
          /\ f.h = s.h /\ f.err = s.err /\ f.ent = s.ent /\ SameStream(s.dev[h], f.dev[h])
          /\ s.fuse = 0 => f.fuse = 0
      BY <2>5, <3>1 DEF SameTable, SameText, SameShare, SameDev, Elsewise
    <3>5. f.n \in 0..want
      BY <2>6, <3>1
    <3>6. s.fuse = 0 => /\ f.n = m /\ f.dev[h].at = s.dev[h].at + m
                        /\ s.dev[h].kind = "dir" => \A i \in 1..m : f.data[i] = s.dev[h].text[s.dev[h].at + i]
      BY <2>5, <3>1, <3>3 DEF SameDev
    <3>7. HasRead(s, f, h, want)
      BY <1>2, <2>1, <3>1, <3>2, <3>3, <3>4, <3>5, <3>6, <3>8, <3>9 DEF HasRead
    <3> QED
      BY <2>3, <2>8, <3>7
  <2> QED
    BY <2>7, <2>8
<1> QED
  BY <1>1, <1>2

(* What a write of want pieces to h does: the file never shrinks.          *)
HasWritten(s, t, h, want) ==
    /\ t \in Libs /\ SameTable(s, t) /\ SameText(s, t) /\ t.exist = s.exist
    /\ \A n \in Names : t.size[n] >= s.size[n]
    /\ h \in HandleSet => Elsewise(s, t, {h}) /\ SameStream(s.dev[h], t.dev[h])
    /\ h \notin HandleSet => SameDev(s, t)
    /\ t.h = s.h /\ t.err = s.err /\ t.ent = s.ent /\ (s.fuse = 0 => t.fuse = 0)
    /\ t.n \in {-1, want}
    /\ s.fuse = 0 /\ h \in HandleSet /\ h < Total /\ s.dev[h].kind = "file" =>
          t.n = want /\ t.dev[h].at = s.dev[h].at + want
    /\ t.n = want =>
          /\ h \in HandleSet /\ s.dev[h].kind = "file" /\ t.dev[h].at = s.dev[h].at + want
          /\ t.size = [s.size EXCEPT ![s.dev[h].obj] = IF s.dev[h].at + want > @ THEN s.dev[h].at + want ELSE @]

(* The count a call returns.                                               *)
LEMMA CountSet ==
    ASSUME NEW s \in Libs, NEW n \in Int
    PROVE  LET t == [s EXCEPT !.n = n] IN
           /\ t \in Libs /\ t.n = n /\ SameTable(s, t) /\ SameDev(s, t) /\ SameText(s, t) /\ SameShare(s, t)
           /\ t.h = s.h /\ t.err = s.err /\ t.ent = s.ent
           /\ t.fuse = s.fuse /\ t.trouble = s.trouble
<1> DEFINE t == [s EXCEPT !.n = n]
<1>1. t \in Libs
  BY FieldSet
<1>2. /\ t.n = n /\ SameTable(s, t) /\ SameDev(s, t) /\ SameText(s, t) /\ SameShare(s, t)
      /\ t.h = s.h /\ t.err = s.err /\ t.ent = s.ent /\ t.fuse = s.fuse /\ t.trouble = s.trouble
  BY DEF Libs, SameTable, SameDev, SameText, SameShare
<1> QED
  BY <1>1, <1>2

(* A file grows.                                                           *)
LEMMA SizeSet ==
    ASSUME NEW s \in Libs, NEW n \in Names, NEW k \in Nat, k >= s.size[n]
    PROVE  LET t == [s EXCEPT !.size[n] = k] IN
           /\ t \in Libs /\ t.exist = s.exist /\ SameTable(s, t) /\ SameDev(s, t) /\ SameText(s, t)
           /\ \A x \in Names : t.size[x] >= s.size[x]
           /\ t.size = [s.size EXCEPT ![n] = k]
           /\ t.h = s.h /\ t.n = s.n /\ t.err = s.err /\ t.ent = s.ent
           /\ t.fuse = s.fuse /\ t.trouble = s.trouble /\ t.data = s.data
           /\ t.status = s.status
<1> DEFINE v == [s.size EXCEPT ![n] = k]
           t == [s EXCEPT !.size = v]
<1>1. v \in [Names -> Nat] /\ \A x \in Names : v[x] >= s.size[x]
  BY DEF Libs
<1> HIDE DEF v
<1>2. t \in Libs
  BY <1>1, FieldSet
<1>3. /\ t.size = v /\ t.exist = s.exist /\ SameTable(s, t) /\ SameDev(s, t) /\ SameText(s, t)
      /\ t.h = s.h /\ t.n = s.n /\ t.err = s.err /\ t.ent = s.ent
      /\ t.fuse = s.fuse /\ t.trouble = s.trouble /\ t.data = s.data
      /\ t.status = s.status
  BY DEF Libs, SameTable, SameDev, SameText
<1> QED
  BY <1>1, <1>2, <1>3 DEF v

(* fujifs_write.                                                           *)
LEMMA WriteTyped ==
    ASSUME NEW s \in Libs, NEW h \in Int, NEW want \in Nat
    PROVE  HasWritten(s, Write(s, h, want), h, want)
<1>1. \A x \in Names : s.size[x] \in Nat
  BY DEF Libs
<1>2. CASE h < 1 \/ h >= Total
  <2> DEFINE t == [s EXCEPT !.n = -1]
  <2>1. Write(s, h, want) = t
    BY <1>2 DEF Write
  <2>2. /\ t \in Libs /\ t.n = -1 /\ SameTable(s, t) /\ SameDev(s, t) /\ SameText(s, t) /\ SameShare(s, t)
        /\ t.h = s.h /\ t.err = s.err /\ t.ent = s.ent /\ t.fuse = s.fuse /\ t.trouble = s.trouble
    BY CountSet
  <2> HIDE DEF t
  <2>3. Total \in Nat /\ ~(h \in HandleSet /\ h < Total) /\ want # -1
    BY <1>2, FujiFsAssumption DEF HandleSet
  <2>4. HasWritten(s, t, h, want)
    BY <1>1, <2>2, <2>3 DEF HasWritten, Elsewise, SameStream, SameTable, SameDev, SameShare
  <2> QED
    BY <2>1, <2>4
<1>3. CASE ~(h < 1 \/ h >= Total)
  <2> DEFINE d == s.dev[h]
  <2>1. h \in HandleSet
    BY <1>3, FujiFsAssumption DEF HandleSet
  <2>2. d \in Streams /\ d.at \in Nat
    BY <2>1 DEF Libs, Streams
  <2>3. CASE d.kind # "file"
    <3> DEFINE c == Called(s, s)
               t == [c EXCEPT !.n = -1]
    <3>1. Write(s, h, want) = t
      BY <1>3, <2>3 DEF Write
    <3>2. c \in Libs /\ SameFields(s, c) /\ (s.fuse = 0 => c.fuse = 0)
      BY CalledTyped, CalledIs
    <3> HIDE DEF c
    <3>3. /\ t \in Libs /\ t.n = -1 /\ SameTable(c, t) /\ SameDev(c, t) /\ SameText(c, t) /\ SameShare(c, t)
          /\ t.h = c.h /\ t.err = c.err /\ t.ent = c.ent /\ t.fuse = c.fuse /\ t.trouble = c.trouble
      BY <3>2, CountSet
    <3> HIDE DEF t
    <3>5. want # -1
      OBVIOUS
    <3>4. HasWritten(s, t, h, want)
      BY <1>1, <2>1, <2>3, <3>2, <3>3, <3>5
      DEF HasWritten, Elsewise, SameStream, SameTable, SameDev, SameShare, SameText, SameFields
    <3> QED
      BY <3>1, <3>4
  <2>4. CASE d.kind = "file"
    <3> DEFINE e == [d EXCEPT !.at = d.at + want]
               v == [s EXCEPT !.dev[h] = e]
               z == s.size[d.obj]
               k == IF d.at + want > z THEN d.at + want ELSE z
               w == [v EXCEPT !.size[d.obj] = k]
               c == Called(s, w)
               m == IF c.reply THEN want ELSE -1
               t == [c EXCEPT !.n = m]
               grown == [s.size EXCEPT ![d.obj] = k]
    <3>1. v.size = s.size
      BY DEF Libs
    <3>2. Write(s, h, want) = t
      BY <1>3, <2>4, <3>1 DEF Write, Written
    <3>3. d.obj \in Names /\ z \in Nat /\ k \in Nat /\ k >= z
      BY <1>1, <2>2, <2>4 DEF Streams
    <3>4. e \in Streams /\ e.at = d.at + want /\ SameStream(d, e)
      <4> HIDE DEF d
      <4>1. d.at + want \in Nat /\ d.kind # "dir"
        BY <2>2, <2>4
      <4> QED
        BY <2>2, <4>1, MovedTyped DEF SameStream
    <3> HIDE DEF e, k
    <3>5. /\ v \in Libs /\ v.dev = [s.dev EXCEPT ![h] = e]
          /\ SameTable(s, v) /\ SameText(s, v) /\ SameShare(s, v)
          /\ v.h = s.h /\ v.err = s.err /\ v.ent = s.ent /\ v.fuse = s.fuse /\ v.trouble = s.trouble
      BY <2>1, <3>4, StreamingTyped
    <3>6. s.dev \in [HandleSet -> Streams]
      BY DEF Libs
    <3> HIDE DEF v
    <3>7. v.dev[h] = e /\ \A y \in HandleSet \ {h} : v.dev[y] = s.dev[y]
      BY <2>1, <3>5, <3>6
    <3>8. /\ w \in Libs /\ w.exist = v.exist /\ SameTable(v, w) /\ SameDev(v, w) /\ SameText(v, w)
          /\ \A x \in Names : w.size[x] >= v.size[x]
          /\ w.size = grown
          /\ w.h = v.h /\ w.err = v.err /\ w.ent = v.ent /\ w.fuse = v.fuse /\ w.trouble = v.trouble
      <4>1. k >= v.size[d.obj]
        BY <3>1, <3>3
      <4>2. grown = [v.size EXCEPT ![d.obj] = k]
        BY <3>1
      <4> HIDE DEF d, grown
      <4> QED
        BY <3>3, <3>5, <4>1, <4>2, SizeSet
    <3> HIDE DEF w, d, z, grown
    <3>9. c \in Libs
      BY <3>8, CalledTyped
    <3>10. PICK b \in {s, w} : /\ SameFields(b, c) /\ (s.fuse = 0 => b = w /\ c.fuse = 0 /\ c.reply)
                               /\ c.reply => b = w
      BY <3>5, <3>8, CalledIs
    <3> HIDE DEF c
    <3>11. /\ SameTable(s, c) /\ SameText(s, c) /\ c.exist = s.exist
           /\ \A x \in Names : c.size[x] >= s.size[x]
           /\ Elsewise(s, c, {h}) /\ SameStream(s.dev[h], c.dev[h])
           /\ c.h = s.h /\ c.err = s.err /\ c.ent = s.ent /\ (s.fuse = 0 => c.dev[h] = e)
      <4>1. w.dev[h] = e
        BY <3>7, <3>8 DEF SameDev
      <4>2. CASE b = s
        BY <1>1, <3>10, <4>1, <4>2 DEF SameFields, SameTable, SameText, SameShare, SameDev, Elsewise, SameStream
      <4>3. CASE b = w
        <5>1. SameFields(w, c) /\ (s.fuse = 0 => c.fuse = 0)
          BY <3>10, <4>3
        <5>2. SameTable(s, c) /\ SameText(s, c) /\ c.exist = s.exist /\ c.dev = v.dev /\ c.size = w.size
          BY <3>5, <3>8, <5>1 DEF SameFields, SameTable, SameText, SameShare, SameDev
        <5>3. \A x \in Names : c.size[x] >= s.size[x]
          BY <3>1, <3>8, <5>2
        <5>4. Elsewise(s, c, {h})
          BY <3>7, <5>1, <5>2 DEF SameTable, Elsewise
        <5>5. c.dev[h] = e /\ SameStream(s.dev[h], c.dev[h])
          BY <3>4, <3>7, <5>2 DEF d
        <5>6. c.h = s.h /\ c.err = s.err /\ c.ent = s.ent
          BY <3>5, <3>8, <5>1 DEF SameFields
        <5> QED
          BY <5>2, <5>3, <5>4, <5>5, <5>6
      <4> QED
        BY <4>2, <4>3
    <3>18. c.reply => c.dev[h] = e /\ c.size = grown
      BY <3>5, <3>7, <3>8, <3>10 DEF SameFields, SameShare, SameDev
    <3>12. m \in {-1, want} /\ (s.fuse = 0 => m = want) /\ (m = want => c.reply)
      BY <3>10
    <3> HIDE DEF m
    <3>13. /\ t \in Libs /\ t.n = m /\ SameTable(c, t) /\ SameDev(c, t) /\ SameText(c, t) /\ SameShare(c, t)
           /\ t.h = c.h /\ t.err = c.err /\ t.ent = c.ent
           /\ t.fuse = c.fuse /\ t.trouble = c.trouble
      BY <3>9, <3>12, CountSet
    <3> HIDE DEF t
    <3>14. /\ SameTable(s, t) /\ SameText(s, t) /\ t.exist = s.exist
           /\ \A x \in Names : t.size[x] >= s.size[x]
           /\ Elsewise(s, t, {h}) /\ SameStream(s.dev[h], t.dev[h])
           /\ t.h = s.h /\ t.err = s.err /\ t.ent = s.ent /\ (s.fuse = 0 => t.dev[h] = e /\ t.fuse = 0)
      BY <3>10, <3>11, <3>13 DEF SameTable, SameText, SameShare, SameDev, Elsewise
    <3>16. t.n = want => t.dev[h].at = d.at + want /\ t.size = grown
      BY <3>4, <3>12, <3>13, <3>18 DEF SameDev, SameShare
    <3>17. t.n = want =>
             t.size = [s.size EXCEPT ![d.obj] = IF d.at + want > @ THEN d.at + want ELSE @]
      BY <3>16 DEF grown, k, z
    <3>15. HasWritten(s, t, h, want)
      BY <2>1, <2>4, <3>4, <3>12, <3>13, <3>14, <3>16, <3>17 DEF HasWritten, d
    <3> QED
      BY <3>2, <3>15
  <2> QED
    BY <2>3, <2>4
<1> QED
  BY <1>2, <1>3

-----------------------------------------------------------------------------
(* Moving a stream; the buffer.                                            *)

(* Seeking moves only the stream of a file, where it can be told to.       *)
LEMMA SeekTyped ==
    ASSUME NEW s \in Libs, NEW h, NEW position \in Nat
    PROVE  LET t == Seek(s, h, position) IN
           /\ t \in Libs /\ SameTable(s, t) /\ SameText(s, t) /\ SameShare(s, t)
           /\ h \in HandleSet => Elsewise(s, t, {h}) /\ SameStream(s.dev[h], t.dev[h])
           /\ h \notin HandleSet => SameDev(s, t)
           /\ t.h = s.h /\ t.ent = s.ent /\ (s.fuse = 0 => t.fuse = 0)
           /\ s.fuse = 0 /\ IsOpen(s, h) /\ s.dev[h].kind = "file" => t.dev[h].at = position
<1>1. CASE ~IsOpen(s, h)
  <2> DEFINE t == Failing(s, "not_connected")
  <2>1. Seek(s, h, position) = t
    BY <1>1 DEF Seek
  <2>2. /\ t \in Libs /\ SameTable(s, t) /\ SameDev(s, t) /\ SameText(s, t) /\ SameShare(s, t)
        /\ t.h = s.h /\ t.ent = s.ent /\ t.fuse = s.fuse /\ t.trouble = s.trouble
    BY ScratchSet DEF Errors
  <2> HIDE DEF t
  <2>3. h \in HandleSet => Elsewise(s, t, {h}) /\ SameStream(s.dev[h], t.dev[h])
    BY <2>2 DEF Elsewise, SameStream, SameTable, SameDev
  <2> QED
    BY <1>1, <2>1, <2>2, <2>3
<1>2. CASE IsOpen(s, h)
  <2> DEFINE d == s.dev[h]
             e == IF d.kind = "file" THEN [d EXCEPT !.at = position] ELSE d
             w == [s EXCEPT !.dev[h] = e]
             c == Called(s, w)
             r == IF c.reply /\ c.dev[h].kind = "file" THEN "none" ELSE "service"
             t == Failing(c, r)
  <2>1. h \in HandleSet
    BY <1>2 DEF IsOpen
  <2>2. d \in Streams
    BY <2>1 DEF Libs
  <2>3. e \in Streams /\ SameStream(d, e) /\ (d.kind = "file" => e.at = position)
    <3> HIDE DEF d
    <3>1. CASE d.kind = "file"
      <4> DEFINE x == [d EXCEPT !.at = position]
      <4>1. x \in Streams /\ x.at = position /\ x.kind = d.kind /\ x.obj = d.obj /\ x.text = d.text
        BY <2>2, <3>1, MovedTyped
      <4>2. e = x
        BY <3>1
      <4> HIDE DEF x, e
      <4> QED
        BY <4>1, <4>2 DEF SameStream
    <3>2. CASE d.kind # "file"
      BY <2>2, <3>2 DEF SameStream
    <3> QED
      BY <3>1, <3>2
  <2>4. Seek(s, h, position) = t
    <3>1. d.kind # "file" => w = s
      BY <2>1 DEF Libs
    <3>2. d.kind = "file" => w = [s EXCEPT !.dev[h].at = position]
      OBVIOUS
    <3>3. c = Called(s, IF d.kind = "file" THEN [s EXCEPT !.dev[h].at = position] ELSE s)
      BY <3>1, <3>2
    <3> HIDE DEF c
    <3> QED
      BY <1>2, <3>3 DEF Seek, Sought
  <2> HIDE DEF e
  <2>5. /\ w \in Libs /\ w.dev = [s.dev EXCEPT ![h] = e]
        /\ SameTable(s, w) /\ SameText(s, w) /\ SameShare(s, w)
        /\ w.h = s.h /\ w.ent = s.ent /\ w.fuse = s.fuse /\ w.trouble = s.trouble
    BY <2>1, <2>3, StreamingTyped
  <2>6. s.dev \in [HandleSet -> Streams]
    BY DEF Libs
  <2> HIDE DEF w
  <2>7. w.dev[h] = e /\ \A x \in HandleSet \ {h} : w.dev[x] = s.dev[x]
    BY <2>1, <2>5, <2>6
  <2>8. c \in Libs
    BY <2>5, CalledTyped
  <2>9. PICK b \in {s, w} : SameFields(b, c) /\ (s.fuse = 0 => b = w /\ c.fuse = 0)
    BY <2>5, CalledIs
  <2> HIDE DEF c
  <2>10. /\ SameTable(s, c) /\ SameText(s, c) /\ SameShare(s, c) /\ Elsewise(s, c, {h})
         /\ c.h = s.h /\ c.ent = s.ent /\ SameStream(d, c.dev[h])
         /\ s.fuse = 0 => c.dev[h] = e
    <3>1. CASE b = s
      BY <2>7, <2>9, <3>1 DEF SameFields, SameTable, SameText, SameShare, SameDev, Elsewise, SameStream
    <3>2. CASE b = w
      BY <2>3, <2>5, <2>7, <2>9, <3>2 DEF SameFields, SameTable, SameText, SameShare, SameDev, Elsewise
    <3> QED
      BY <3>1, <3>2
  <2>11. r \in Errors
    BY DEF Errors
  <2> HIDE DEF r
  <2>12. /\ t \in Libs /\ SameTable(c, t) /\ SameDev(c, t) /\ SameText(c, t) /\ SameShare(c, t)
         /\ t.h = c.h /\ t.ent = c.ent /\ t.fuse = c.fuse /\ t.trouble = c.trouble
    BY <2>8, <2>11, ScratchSet
  <2> HIDE DEF t
  <2>13. /\ SameTable(s, t) /\ SameText(s, t) /\ SameShare(s, t) /\ Elsewise(s, t, {h})
         /\ t.h = s.h /\ t.ent = s.ent /\ SameStream(d, t.dev[h]) /\ t.dev[h] = c.dev[h]
    BY <2>10, <2>12 DEF SameTable, SameText, SameShare, SameDev, Elsewise
  <2>14. (s.fuse = 0 => t.fuse = 0) /\ (s.fuse = 0 /\ d.kind = "file" => t.dev[h].at = position)
    BY <2>3, <2>9, <2>10, <2>12, <2>13
  <2> QED
    BY <2>1, <2>4, <2>12, <2>13, <2>14 DEF d
<1> QED
  BY <1>1, <1>2

(* Text put into fujifs_buf.                                               *)
LEMMA TextSet ==
    ASSUME NEW s \in Libs, NEW v \in [1..BufSize -> Pieces]
    PROVE  LET t == [s EXCEPT !.buf = v] IN
           /\ t \in Libs /\ t.buf = v /\ SameTable(s, t) /\ SameDev(s, t) /\ SameShare(s, t) /\ t.status = s.status
           /\ t.h = s.h /\ t.n = s.n /\ t.err = s.err /\ t.ent = s.ent /\ t.data = s.data
           /\ t.fuse = s.fuse /\ t.trouble = s.trouble
<1> DEFINE t == [s EXCEPT !.buf = v]
<1>1. t \in Libs
  BY FieldSet
<1>2. /\ t.buf = v /\ SameTable(s, t) /\ SameDev(s, t) /\ SameShare(s, t) /\ t.status = s.status
      /\ t.h = s.h /\ t.n = s.n /\ t.err = s.err /\ t.ent = s.ent /\ t.data = s.data
      /\ t.fuse = s.fuse /\ t.trouble = s.trouble
  BY DEF Libs, SameTable, SameDev, SameShare
<1> QED
  BY <1>1, <1>2

(* The entry a call returns.                                               *)
LEMMA EntSet ==
    ASSUME NEW s \in Libs, NEW e \in Entries
    PROVE  LET t == [s EXCEPT !.ent = e] IN
           /\ t \in Libs /\ t.ent = e /\ SameTable(s, t) /\ SameDev(s, t) /\ SameText(s, t) /\ SameShare(s, t)
           /\ t.status = s.status
           /\ t.h = s.h /\ t.n = s.n /\ t.err = s.err /\ t.data = s.data
           /\ t.fuse = s.fuse /\ t.trouble = s.trouble
<1> DEFINE t == [s EXCEPT !.ent = e]
<1>1. t \in Libs
  BY FieldSet
<1>2. /\ t.ent = e /\ SameTable(s, t) /\ SameDev(s, t) /\ SameText(s, t) /\ SameShare(s, t) /\ t.status = s.status
      /\ t.h = s.h /\ t.n = s.n /\ t.err = s.err /\ t.data = s.data
      /\ t.fuse = s.fuse /\ t.trouble = s.trouble
  BY DEF Libs, SameTable, SameDev, SameText, SameShare
<1> QED
  BY <1>1, <1>2

(* A handle's place in the buffer set.                                     *)
LEMMA PlaceSet ==
    ASSUME NEW s \in Libs, NEW h \in HandleSet, NEW p \in 0..BufSize, NEW l \in 0..BufSize
    PROVE  LET t == [s EXCEPT !.table[h].position = p, !.table[h].length = l] IN
           /\ t \in Libs /\ t.table[h].position = p /\ t.table[h].length = l /\ t.table[h].open = s.table[h].open
           /\ SameDev(s, t) /\ SameText(s, t) /\ SameShare(s, t) /\ t.status = s.status
           /\ t.h = s.h /\ t.n = s.n /\ t.err = s.err /\ t.ent = s.ent /\ t.data = s.data
           /\ t.fuse = s.fuse /\ t.trouble = s.trouble
           /\ Elsewise(s, t, {h})
<1> DEFINE a == [s.table[h] EXCEPT !.position = p]
           e == [a EXCEPT !.length = l]
           t == [s EXCEPT !.table[h] = e]
<1>1. s.table[h] \in Handles
  BY DEF Libs
<1>2. a \in Handles /\ a.open = s.table[h].open /\ a.position = p
  BY <1>1, EntrySet
<1> HIDE DEF a
<1>3. e \in Handles /\ e.open = a.open /\ e.position = a.position /\ e.length = l
  BY <1>2, EntrySet
<1>4. [s EXCEPT !.table[h].position = p, !.table[h].length = l] = t
  BY DEF Libs, a
<1> HIDE DEF e
<1>5. /\ t \in Libs /\ t.table[h] = e
      /\ SameDev(s, t) /\ SameText(s, t) /\ SameShare(s, t) /\ t.status = s.status
      /\ t.h = s.h /\ t.n = s.n /\ t.err = s.err /\ t.ent = s.ent /\ t.data = s.data
      /\ t.fuse = s.fuse /\ t.trouble = s.trouble
      /\ Elsewise(s, t, {h})
  BY <1>3, TableTyped
<1> HIDE DEF t
<1> QED
  BY <1>2, <1>3, <1>4, <1>5

(* The end of what a handle has in the buffer.                             *)
LEMMA LengthSet ==
    ASSUME NEW s \in Libs, NEW h \in HandleSet, NEW l \in 0..BufSize
    PROVE  LET t == [s EXCEPT !.table[h].length = l] IN
           /\ t \in Libs /\ t.table[h].position = s.table[h].position /\ t.table[h].length = l
           /\ t.table[h].open = s.table[h].open
           /\ SameDev(s, t) /\ SameText(s, t) /\ SameShare(s, t) /\ t.status = s.status
           /\ t.h = s.h /\ t.n = s.n /\ t.err = s.err /\ t.ent = s.ent /\ t.data = s.data
           /\ t.fuse = s.fuse /\ t.trouble = s.trouble
           /\ Elsewise(s, t, {h})
<1> DEFINE e == [s.table[h] EXCEPT !.length = l]
           t == [s EXCEPT !.table[h] = e]
<1>1. s.table[h] \in Handles
  BY DEF Libs
<1>2. e \in Handles /\ e.open = s.table[h].open /\ e.position = s.table[h].position /\ e.length = l
  BY <1>1, EntrySet
<1>3. [s EXCEPT !.table[h].length = l] = t
  OBVIOUS
<1> HIDE DEF e
<1>4. /\ t \in Libs /\ t.table[h] = e
      /\ SameDev(s, t) /\ SameText(s, t) /\ SameShare(s, t) /\ t.status = s.status
      /\ t.h = s.h /\ t.n = s.n /\ t.err = s.err /\ t.ent = s.ent /\ t.data = s.data
      /\ t.fuse = s.fuse /\ t.trouble = s.trouble
      /\ Elsewise(s, t, {h})
  BY <1>2, TableTyped
<1> HIDE DEF t
<1> QED
  BY <1>2, <1>3, <1>4

(* How far a handle has read in the buffer.                                *)
LEMMA PositionSet ==
    ASSUME NEW s \in Libs, NEW h \in HandleSet, NEW p \in 0..BufSize
    PROVE  LET t == [s EXCEPT !.table[h].position = p] IN
           /\ t \in Libs /\ t.table[h].position = p /\ t.table[h].length = s.table[h].length
           /\ t.table[h].open = s.table[h].open
           /\ SameDev(s, t) /\ SameText(s, t) /\ SameShare(s, t) /\ t.status = s.status
           /\ t.h = s.h /\ t.n = s.n /\ t.err = s.err /\ t.ent = s.ent /\ t.data = s.data
           /\ t.fuse = s.fuse /\ t.trouble = s.trouble
           /\ Elsewise(s, t, {h})
<1> DEFINE e == [s.table[h] EXCEPT !.position = p]
           t == [s EXCEPT !.table[h] = e]
<1>1. s.table[h] \in Handles
  BY DEF Libs
<1>2. e \in Handles /\ e.open = s.table[h].open /\ e.position = p /\ e.length = s.table[h].length
  BY <1>1, EntrySet
<1>3. [s EXCEPT !.table[h].position = p] = t
  OBVIOUS
<1> HIDE DEF e
<1>4. /\ t \in Libs /\ t.table[h] = e
      /\ SameDev(s, t) /\ SameText(s, t) /\ SameShare(s, t) /\ t.status = s.status
      /\ t.h = s.h /\ t.n = s.n /\ t.err = s.err /\ t.ent = s.ent /\ t.data = s.data
      /\ t.fuse = s.fuse /\ t.trouble = s.trouble
      /\ Elsewise(s, t, {h})
  BY <1>2, TableTyped
<1> HIDE DEF t
<1> QED
  BY <1>2, <1>3, <1>4

-----------------------------------------------------------------------------
(* fujifs_readdir.                                                         *)

(* Reading on from h changes neither what streams there nor that it is     *)
(* open, and nothing of another handle.                                    *)
Stays(s, t, h) ==
    /\ t \in Libs /\ SameShare(s, t) /\ Elsewise(s, t, {h}) /\ SameStream(s.dev[h], t.dev[h])
    /\ t.table[h].open = s.table[h].open /\ t.h = s.h /\ t.err = s.err

(* Two steps that leave a handle open leave it open.                       *)
LEMMA StaysOn ==
    ASSUME NEW s, NEW t, NEW u, NEW h, Stays(s, t, h), Stays(t, u, h)
    PROVE  Stays(s, u, h)
BY DEF Stays, SameShare, Elsewise, SameStream

(* A step that leaves the streams and the share alone is one.              *)
LEMMA StaysSame ==
    ASSUME NEW s \in Libs, NEW t \in Libs, NEW h \in HandleSet, SameDev(s, t), SameShare(s, t),
           t.table[h].open = s.table[h].open, t.h = s.h, t.err = s.err, Elsewise(s, t, {h})
    PROVE  Stays(s, t, h)
BY DEF Stays, SameDev, SameStream

(* What Refill does, kept pieces of the buffer kept.                       *)
Refills(s, t, h, kept) ==
    /\ Stays(s, t, h) /\ Left(t, h) \in Nat
    /\ \/ /\ t.ent = "end" /\ Left(t, h) <= Left(s, h) /\ t.table[h].position = s.table[h].position
          /\ t.table[h].length \in {0, s.table[h].length}
       \/ /\ t.ent = "none" /\ t.table[h].position = 0 /\ t.table[h].length > kept
          /\ Left(t, h) + t.table[h].length <= Left(s, h) + kept
    /\ s.fuse = 0 /\ IsOpen(s, h) =>
          LET m == Smaller(BufSize - kept, Left(s, h)) IN
          /\ (t.ent = "end") <=> m = 0
          /\ m > 0 => /\ t.table[h].length = kept + m /\ t.dev[h].at = s.dev[h].at + m
                      /\ \A i \in 1..kept : t.buf[i] = s.buf[s.table[h].position + i]
                      /\ s.dev[h].kind = "dir" =>
                            \A i \in 1..m : t.buf[kept + i] = s.dev[h].text[s.dev[h].at + i]

(* The buffer is filled behind what is kept of it, for one handle.         *)
LEMMA RefillTyped ==
    ASSUME NEW s \in Libs, NEW h \in HandleSet, NEW kept \in Nat, s.table[h].position + kept <= BufSize
    PROVE  Refills(s, Refill(s, h, kept), h, kept)
<1> DEFINE p == s.table[h].position
           v == [i \in 1..BufSize |-> IF i <= kept THEN s.buf[p + i] ELSE s.buf[i]]
           u == [s EXCEPT !.buf = v]
           want == BufSize - kept
           r == Read(u, h, want)
           a == [r EXCEPT !.ent = "end"]
           l == IF kept = 0 THEN 0 ELSE r.table[h].length
           x == [a EXCEPT !.table[h].length = l]
           b == [r EXCEPT !.ent = "none"]
           c == [b EXCEPT !.table[h].position = 0, !.table[h].length = kept + r.n]
           w == [i \in 1..BufSize |-> IF i \in (kept + 1)..(kept + r.n) THEN r.data[i - kept] ELSE r.buf[i]]
           y == [c EXCEPT !.buf = w]
<1>1. p \in 0..BufSize /\ s.table[h].length \in 0..BufSize /\ BufSize \in Nat /\ kept \in 0..BufSize
  BY FujiFsAssumption DEF Libs, Handles
<1>2. v \in [1..BufSize -> Pieces]
  <2>1. \A i \in 1..BufSize : s.buf[i] \in Pieces
    BY DEF Libs
  <2>2. \A i \in 1..BufSize : i <= kept => p + i \in 1..BufSize
    BY <1>1
  <2> QED
    BY <2>1, <2>2
<1>3. \A i \in 1..kept : v[i] = s.buf[p + i]
  BY <1>1
<1>4. Refill(s, h, kept) = Refilled(r, h, kept)
  BY DEF Refill, MovedUp
<1>5. want \in Nat
  BY <1>1
<1> HIDE DEF v
<1>6. /\ u \in Libs /\ u.buf = v /\ SameTable(s, u) /\ SameDev(s, u) /\ SameShare(s, u)
      /\ u.h = s.h /\ u.err = s.err /\ u.fuse = s.fuse /\ u.trouble = s.trouble
  BY <1>2, TextSet
<1> HIDE DEF u, want
<1>7. HasRead(u, r, h, want)
  BY <1>5, <1>6, ReadTyped
<1> HIDE DEF r
<1>8. /\ r \in Libs /\ Stays(s, r, h) /\ SameTable(s, r) /\ r.n \in 0..want /\ (r.n > 0 => Len(r.data) = r.n)
      /\ r.buf = v
  BY <1>6, <1>7 DEF HasRead, Stays, SameTable, SameDev, SameShare, SameText, Elsewise, SameStream
<1>9. Left(u, h) = Left(s, h) /\ Left(s, h) \in Nat /\ Left(r, h) \in Nat /\ Left(r, h) + r.n <= Left(s, h)
  <2>1. Left(u, h) = Left(s, h)
    BY <1>6 DEF Left, SameDev, SameShare
  <2> QED
    BY <1>7, <1>8, <2>1, LeftTyped DEF HasRead
<1> DEFINE m == Smaller(want, Left(s, h))
           clean == s.fuse = 0 /\ IsOpen(s, h)
<1>10. clean => /\ r.n = m /\ r.dev[h].at = s.dev[h].at + m
                /\ s.dev[h].kind = "dir" => \A i \in 1..m : r.data[i] = s.dev[h].text[s.dev[h].at + i]
  <2>1. IsOpen(s, h) = IsOpen(u, h)
    BY <1>6 DEF IsOpen, SameTable
  <2> QED
    BY <1>6, <1>7, <1>9, <2>1 DEF HasRead, SameDev
<1> HIDE DEF clean
<1>11. CASE r.n = 0
  <2>1. r.table[h].length \in 0..BufSize /\ r.table[h].length = s.table[h].length /\ r.table[h].position = p
    BY <1>1, <1>8 DEF SameTable
  <2>2. l \in 0..BufSize /\ l \in {0, s.table[h].length}
    BY <1>1, <2>1
  <2>3. /\ a \in Libs /\ a.ent = "end" /\ SameTable(r, a) /\ SameDev(r, a) /\ SameText(r, a) /\ SameShare(r, a)
        /\ a.h = r.h /\ a.err = r.err /\ a.fuse = r.fuse /\ a.trouble = r.trouble
    BY <1>8, EntSet DEF Entries
  <2>4. Refilled(r, h, kept) = x
    <3>1. a.table = r.table
      BY <2>3 DEF SameTable
    <3> QED
      BY <1>11, <3>1 DEF Refilled
  <2> HIDE DEF a, l
  <2>5. /\ x \in Libs /\ x.table[h].position = a.table[h].position /\ x.table[h].length = l
        /\ x.table[h].open = a.table[h].open
        /\ SameDev(a, x) /\ SameText(a, x) /\ SameShare(a, x)
        /\ x.h = a.h /\ x.err = a.err /\ x.ent = a.ent /\ x.fuse = a.fuse /\ x.trouble = a.trouble
        /\ Elsewise(a, x, {h})
    <3>1. LET t == [a EXCEPT !.table[h].length = l] IN
          /\ t \in Libs /\ t.table[h].position = a.table[h].position /\ t.table[h].length = l
          /\ t.table[h].open = a.table[h].open
          /\ SameDev(a, t) /\ SameText(a, t) /\ SameShare(a, t) /\ t.status = a.status
          /\ t.h = a.h /\ t.n = a.n /\ t.err = a.err /\ t.ent = a.ent /\ t.data = a.data
          /\ t.fuse = a.fuse /\ t.trouble = a.trouble
          /\ Elsewise(a, t, {h})
      BY <2>2, <2>3, LengthSet
    <3> QED
      BY <3>1
  <2> HIDE DEF x
  <2>6. Stays(r, x, h)
    BY <1>8, <2>3, <2>5 DEF Stays, SameTable, SameDev, SameText, SameShare, Elsewise, SameStream
  <2>7. Stays(s, x, h)
    BY <1>8, <2>6, StaysOn
  <2>8. Left(x, h) = Left(r, h)
    BY <2>3, <2>5 DEF Left, SameDev, SameShare
  <2>9. x.table[h].position = p
    BY <2>1, <2>3, <2>5 DEF SameTable
  <2>10. clean => m = 0
    BY <1>10, <1>11
  <2> HIDE DEF p, m
  <2>11. Refills(s, x, h, kept)
    BY <1>9, <1>11, <2>2, <2>3, <2>5, <2>7, <2>8, <2>9, <2>10 DEF Refills, clean, want, m, p
  <2> QED
    BY <1>4, <2>4, <2>11
<1>12. CASE r.n # 0
  <2>1. r.n \in 1..want /\ kept + r.n \in 0..BufSize
    BY <1>1, <1>8, <1>12 DEF want
  <2>2. w \in [1..BufSize -> Pieces]
    <3>1. r.data \in Seq(Pieces) /\ r.buf \in [1..BufSize -> Pieces]
      BY <1>8 DEF Libs
    <3>2. \A i \in 1..BufSize : i \in (kept + 1)..(kept + r.n) => i - kept \in 1..Len(r.data)
      BY <1>8, <2>1
    <3>3. \A i \in 1..Len(r.data) : r.data[i] \in Pieces
      BY <3>1
    <3> QED
      BY <3>1, <3>2, <3>3
  <2>3. (\A i \in 1..kept : w[i] = v[i]) /\ (\A i \in 1..r.n : w[kept + i] = r.data[i])
    <3>1. \A i \in 1..kept : i \in 1..BufSize /\ i \notin (kept + 1)..(kept + r.n)
      BY <1>1, <2>1
    <3>2. \A i \in 1..r.n : kept + i \in 1..BufSize /\ kept + i \in (kept + 1)..(kept + r.n) /\ kept + i - kept = i
      BY <1>1, <2>1
    <3> QED
      BY <1>8, <3>1, <3>2
  <2> HIDE DEF w
  <2>4. /\ b \in Libs /\ b.ent = "none" /\ SameTable(r, b) /\ SameDev(r, b) /\ SameText(r, b) /\ SameShare(r, b)
        /\ b.h = r.h /\ b.err = r.err /\ b.fuse = r.fuse /\ b.trouble = r.trouble
    BY <1>8, EntSet DEF Entries
  <2>5. Refilled(r, h, kept) = y
    BY <1>12 DEF Refilled, w
  <2> HIDE DEF b
  <2>6. /\ c \in Libs /\ c.table[h].position = 0 /\ c.table[h].length = kept + r.n
        /\ c.table[h].open = b.table[h].open
        /\ SameDev(b, c) /\ SameText(b, c) /\ SameShare(b, c)
        /\ c.h = b.h /\ c.err = b.err /\ c.ent = b.ent /\ c.fuse = b.fuse /\ c.trouble = b.trouble
        /\ Elsewise(b, c, {h})
    <3> DEFINE k == kept + r.n
    <3>1. k \in 0..BufSize /\ 0 \in 0..BufSize
      BY <1>1, <2>1
    <3> HIDE DEF k
    <3>0. PICK o \in 0..BufSize : o = 0
      BY <3>1
    <3>5. k \in 0..BufSize
      BY <3>1
    <3> DEFINE g == [b EXCEPT !.table[h].position = o]
               z == [g EXCEPT !.table[h].length = k]
    <3>2. /\ g \in Libs /\ g.table[h].position = o /\ g.table[h].open = b.table[h].open
          /\ SameDev(b, g) /\ SameText(b, g) /\ SameShare(b, g)
          /\ g.h = b.h /\ g.err = b.err /\ g.ent = b.ent /\ g.fuse = b.fuse /\ g.trouble = b.trouble
          /\ Elsewise(b, g, {h})
      BY <2>4, PositionSet
    <3>3. c = z
      BY <3>0 DEF k
    <3> HIDE DEF c, g
    <3>6. g \in Libs
      BY <3>2
    <3>4. /\ z \in Libs /\ z.table[h].position = g.table[h].position /\ z.table[h].length = k
          /\ z.table[h].open = g.table[h].open
          /\ SameDev(g, z) /\ SameText(g, z) /\ SameShare(g, z)
          /\ z.h = g.h /\ z.err = g.err /\ z.ent = g.ent /\ z.fuse = g.fuse /\ z.trouble = g.trouble
          /\ Elsewise(g, z, {h})
      BY <3>5, <3>6, LengthSet
    <3> HIDE DEF z
    <3> QED
      BY <3>0, <3>2, <3>3, <3>4 DEF k, SameDev, SameText, SameShare, Elsewise
  <2> HIDE DEF c
  <2>7. /\ y \in Libs /\ y.buf = w /\ SameTable(c, y) /\ SameDev(c, y) /\ SameShare(c, y)
        /\ y.h = c.h /\ y.err = c.err /\ y.ent = c.ent /\ y.fuse = c.fuse /\ y.trouble = c.trouble
    BY <2>2, <2>6, TextSet
  <2> HIDE DEF y
  <2>8. Stays(r, y, h)
    BY <1>8, <2>4, <2>6, <2>7 DEF Stays, SameTable, SameDev, SameText, SameShare, Elsewise, SameStream
  <2>9. Stays(s, y, h)
    BY <1>8, <2>8, StaysOn
  <2>10. Left(y, h) = Left(r, h)
    BY <2>4, <2>6, <2>7 DEF Left, SameDev, SameShare
  <2>11. y.table[h].position = 0 /\ y.table[h].length = kept + r.n /\ y.dev = r.dev
    BY <2>4, <2>6, <2>7 DEF SameTable, SameDev
  <2>12. clean => /\ m = r.n
                  /\ y.table[h].length = kept + m /\ y.dev[h].at = s.dev[h].at + m
                  /\ \A i \in 1..kept : y.buf[i] = s.buf[p + i]
                  /\ s.dev[h].kind = "dir" => \A i \in 1..m : y.buf[kept + i] = s.dev[h].text[s.dev[h].at + i]
    BY <1>3, <1>10, <2>3, <2>7, <2>11
  <2>13. m # 0 \/ ~clean
    BY <1>12, <2>12
  <2>14. y.table[h].length > kept /\ Left(y, h) + y.table[h].length <= Left(s, h) + kept
    BY <1>9, <2>1, <2>10, <2>11
  <2> HIDE DEF p, m
  <2>15. Refills(s, y, h, kept)
    BY <1>9, <2>4, <2>6, <2>7, <2>9, <2>10, <2>11, <2>12, <2>13, <2>14 DEF Refills, clean, want, m, p
  <2> QED
    BY <1>4, <2>5, <2>15
<1> QED
  BY <1>11, <1>12

(* What taking a record apart does.  A whole one at the position is the    *)
(* entry; whatever lies there, the position moves on.                      *)
Parses(s, t, h) ==
    LET p == s.table[h].position IN
    /\ Stays(s, t, h) /\ SameDev(s, t) /\ t.ent \in Names \cup {"junk"}
    /\ t.table[h].length = s.table[h].length /\ t.table[h].position \in (p + 1)..BufSize
    /\ \A n \in Names : p + 2 <= BufSize /\ s.buf[p + 1] = <<n, 1>> /\ s.buf[p + 2] = <<n, 2>> =>
          /\ t.ent = n /\ t.table[h].position = p + 2
          /\ \A i \in (p + 3)..BufSize : t.buf[i] = s.buf[i]

(* An entry is parsed from the buffer, whoever it was filled for.          *)
LEMMA ParsedTyped ==
    ASSUME NEW s \in Libs, NEW h \in HandleSet, s.table[h].position < BufSize
    PROVE  Parses(s, Parsed(s, h), h)
<1> DEFINE p == s.table[h].position
           i == p + 1
           ends == {k \in i..BufSize : s.buf[k][2] = 2}
           j == IF ends = {} THEN BufSize ELSE CHOOSE x \in ends : \A y \in ends : x <= y
           whole == j = i + 1 /\ s.buf[i][1] = s.buf[j][1] /\ s.buf[i][2] = 1 /\ s.buf[i][1] \in Names
           n == IF whole THEN s.buf[i][1] ELSE "junk"
           v == [k \in 1..BufSize |-> IF k \in i..j THEN Spent(s.buf[k]) ELSE s.buf[k]]
           a == [s EXCEPT !.ent = n]
           b == [a EXCEPT !.table[h].position = j]
           t == [b EXCEPT !.buf = v]
<1>1. p \in 0..(BufSize - 1) /\ BufSize \in Nat
  BY FujiFsAssumption DEF Libs, Handles
<1>2. i \in 1..BufSize
  BY <1>1
<1>3. j \in i..BufSize /\ (i + 1 \in ends /\ i \notin ends => j = i + 1)
  <2>1. ends \in SUBSET Nat
    BY <1>2
  <2>2. CASE ends = {}
    BY <1>1, <1>2, <2>2
  <2>3. CASE ends # {}
    <3>1. \E x \in ends : \A y \in ends : x <= y
      <4> HIDE DEF ends
      <4> QED
        BY <2>1, <2>3, Smallest
    <3>2. j \in ends /\ \A y \in ends : j <= y
      <4> HIDE DEF ends
      <4> QED
        BY <2>3, <3>1
    <3>3. j \in i..BufSize
      <4> HIDE DEF j
      <4> QED
        BY <3>2
    <3> HIDE DEF j, ends
    <3> QED
      BY <1>2, <3>2, <3>3
  <2> QED
    BY <2>2, <2>3
<1>4. Parsed(s, h) = t
  BY DEF Parsed, TakenApart
<1>5. \A k \in 1..BufSize : s.buf[k] \in Pieces
  BY DEF Libs
<1> HIDE DEF j
<1>6. v \in [1..BufSize -> Pieces]
  <2>1. \A x \in Pieces : Spent(x) \in Pieces
    BY DEF Spent, Pieces, PathText
  <2> QED
    BY <1>5, <2>1
<1>7. \A k \in 1..BufSize : k > j => v[k] = s.buf[k]
  BY <1>3
<1> HIDE DEF v
<1>8. n \in Names \cup {"junk"}
  OBVIOUS
<1> HIDE DEF n
<1>9. /\ a \in Libs /\ a.ent = n /\ SameTable(s, a) /\ SameDev(s, a) /\ SameText(s, a) /\ SameShare(s, a)
      /\ a.h = s.h /\ a.err = s.err /\ a.fuse = s.fuse /\ a.trouble = s.trouble
  <2>1. n \in Entries
    BY <1>8 DEF Entries
  <2> QED
    BY <2>1, EntSet
<1> HIDE DEF a
<1>10. j \in 0..BufSize
  BY <1>2, <1>3
<1>11. /\ b \in Libs /\ b.table[h].position = j /\ b.table[h].length = a.table[h].length
       /\ b.table[h].open = a.table[h].open
       /\ SameDev(a, b) /\ SameText(a, b) /\ SameShare(a, b)
       /\ b.h = a.h /\ b.err = a.err /\ b.ent = a.ent /\ b.fuse = a.fuse /\ b.trouble = a.trouble
       /\ Elsewise(a, b, {h})
  <2>1. a \in Libs
    BY <1>9
  <2> QED
    BY <1>10, <2>1, PositionSet
<1> HIDE DEF b
<1>12. /\ t \in Libs /\ t.buf = v /\ SameTable(b, t) /\ SameDev(b, t) /\ SameShare(b, t)
       /\ t.h = b.h /\ t.err = b.err /\ t.ent = b.ent /\ t.fuse = b.fuse /\ t.trouble = b.trouble
  <2>1. b \in Libs
    BY <1>11
  <2> QED
    BY <1>6, <2>1, TextSet
<1> HIDE DEF t
<1>13. /\ Stays(s, t, h) /\ SameDev(s, t) /\ t.ent = n /\ t.table[h].position = j
       /\ t.table[h].length = s.table[h].length
  BY <1>9, <1>11, <1>12 DEF Stays, SameTable, SameDev, SameText, SameShare, Elsewise, SameStream
<1>14. ASSUME NEW x \in Names, p + 2 <= BufSize, s.buf[p + 1] = <<x, 1>>, s.buf[p + 2] = <<x, 2>>
       PROVE  n = x /\ j = p + 2
  <2>1. i + 1 = p + 2 /\ i + 1 \in i..BufSize /\ i \in i..BufSize
    BY <1>1, <1>14
  <2>2. s.buf[i] = <<x, 1>> /\ s.buf[i + 1] = <<x, 2>>
    BY <1>14, <2>1
  <2>3. i + 1 \in ends /\ i \notin ends
    BY <2>1, <2>2
  <2>4. j = i + 1
    BY <1>3, <2>3
  <2>5. whole
    BY <2>2, <2>4
  <2> QED
    BY <2>1, <2>2, <2>4, <2>5 DEF n
<1>15. \A x \in Names : p + 2 <= BufSize /\ s.buf[p + 1] = <<x, 1>> /\ s.buf[p + 2] = <<x, 2>> =>
          /\ t.ent = x /\ t.table[h].position = p + 2
          /\ \A k \in (p + 3)..BufSize : t.buf[k] = s.buf[k]
  <2>1. \A x \in Names : p + 2 <= BufSize /\ s.buf[p + 1] = <<x, 1>> /\ s.buf[p + 2] = <<x, 2>> => n = x /\ j = p + 2
    BY <1>14
  <2>2. j = p + 2 => \A k \in (p + 3)..BufSize : t.buf[k] = s.buf[k]
    <3> SUFFICES ASSUME j = p + 2, NEW k \in (p + 3)..BufSize PROVE t.buf[k] = s.buf[k]
      OBVIOUS
    <3>1. k \in 1..BufSize /\ k > j
      BY <1>1
    <3> QED
      BY <1>7, <1>12, <3>1
  <2> QED
    BY <1>13, <2>1, <2>2
<1>16. j \in (p + 1)..BufSize
  BY <1>3
<1> QED
  BY <1>4, <1>8, <1>13, <1>15, <1>16 DEF Parses

(* What is still to come of a directory is a number.                       *)
LEMMA AheadTyped ==
    ASSUME NEW s \in Libs, NEW h \in HandleSet
    PROVE  Ahead(s, h) \in Nat /\ InBuffer(s.table[h]) \in 0..BufSize /\ Left(s, h) \in Nat
<1>1. s.table[h] \in Handles /\ Left(s, h) \in Nat /\ BufSize \in Nat
  BY LeftTyped, FujiFsAssumption DEF Libs
<1>2. s.table[h].position \in 0..BufSize /\ s.table[h].length \in 0..BufSize
  BY <1>1 DEF Handles
<1> QED
  BY <1>1, <1>2 DEF Ahead, InBuffer

(* A turn of the scan: the search comes to its end or gets on.             *)
Turned(s, t, h) ==
    /\ Stays(s, t, h) /\ t.ent \in Names \cup {"junk", "end"}
    /\ Ahead(t, h) <= Ahead(s, h)
    /\ t.ent # "end" => Ahead(t, h) < Ahead(s, h)

(* A parsed entry leaves less ahead.                                       *)
LEMMA ParsedTurns ==
    ASSUME NEW s \in Libs, NEW h \in HandleSet, s.table[h].position < s.table[h].length
    PROVE  Turned(s, Parsed(s, h), h) /\ Parses(s, Parsed(s, h), h)
<1> DEFINE t == Parsed(s, h)
<1>1. s.table[h].position \in Nat /\ s.table[h].length \in Nat /\ s.table[h].position < BufSize /\ BufSize \in Nat
  BY FujiFsAssumption DEF Libs, Handles
<1>2. Parses(s, t, h)
  BY <1>1, ParsedTyped
<1> HIDE DEF t
<1>3. Left(t, h) = Left(s, h) /\ Left(s, h) \in Nat
  BY <1>2, LeftTyped DEF Parses, Stays, Left, SameDev, SameShare
<1>4. t.table[h].position > s.table[h].position /\ t.table[h].position \in Nat /\ t.table[h].length = s.table[h].length
  BY <1>1, <1>2 DEF Parses
<1>5. Ahead(t, h) < Ahead(s, h)
  BY <1>1, <1>3, <1>4 DEF Ahead, InBuffer
<1>6. Ahead(t, h) \in Nat /\ Ahead(s, h) \in Nat
  BY <1>2, AheadTyped DEF Parses, Stays
<1>7. Turned(s, t, h)
  <2>1. t.ent \in Names \cup {"junk"} /\ Stays(s, t, h)
    BY <1>2 DEF Parses
  <2> QED
    BY <1>5, <1>6, <2>1 DEF Turned
<1> QED
  BY <1>2, <1>7 DEF t

(* A filled buffer leaves no more ahead, and something to parse unless it is *)
(* the end.                                                                *)
LEMMA RefillTurns ==
    ASSUME NEW s \in Libs, NEW h \in HandleSet, NEW t, Refills(s, t, h, InBuffer(s.table[h]))
    PROVE  /\ Stays(s, t, h) /\ Ahead(t, h) <= Ahead(s, h)
           /\ t.ent = "end" \/ (t.ent = "none" /\ t.table[h].position < t.table[h].length)
<1> DEFINE kept == InBuffer(s.table[h])
<1>1. Ahead(s, h) \in Nat /\ kept \in 0..BufSize /\ Left(s, h) \in Nat /\ BufSize \in Nat
  BY AheadTyped, FujiFsAssumption
<1>2. Stays(s, t, h) /\ t \in Libs
  BY DEF Refills, Stays
<1>3. Ahead(t, h) \in Nat /\ Left(t, h) \in Nat
  BY <1>2, AheadTyped
<1>4. s.table[h].position \in Nat /\ s.table[h].length \in Nat
  BY DEF Libs, Handles
<1>5. t.table[h].position \in Nat /\ t.table[h].length \in Nat
  BY <1>2 DEF Libs, Handles
<1>6. CASE t.ent = "end" /\ Left(t, h) <= Left(s, h) /\ t.table[h].position = s.table[h].position
           /\ t.table[h].length \in {0, s.table[h].length}
  <2>1. InBuffer(t.table[h]) <= kept
    BY <1>4, <1>5, <1>6 DEF InBuffer
  <2>2. InBuffer(t.table[h]) \in Nat
    BY <1>2, AheadTyped
  <2> HIDE DEF kept
  <2> QED
    BY <1>1, <1>2, <1>3, <1>6, <2>1, <2>2 DEF Ahead, kept
<1>7. CASE t.ent = "none" /\ t.table[h].position = 0 /\ t.table[h].length > kept
           /\ Left(t, h) + t.table[h].length <= Left(s, h) + kept
  <2>1. InBuffer(t.table[h]) = t.table[h].length /\ t.table[h].position < t.table[h].length
    BY <1>1, <1>5, <1>7 DEF InBuffer
  <2> HIDE DEF kept
  <2> QED
    BY <1>1, <1>2, <1>3, <1>5, <1>7, <2>1 DEF Ahead, kept
<1> QED
  BY <1>6, <1>7 DEF Refills

(* fujifs_readdir with the rest of a record in the buffer.                 *)
LEMMA CompletedTyped ==
    ASSUME NEW s \in Libs, NEW h \in HandleSet,
           s.ent = "end" \/ (s.ent = "none" /\ s.table[h].position < s.table[h].length)
    PROVE  Turned(s, Completed(s, h), h)
<1> DEFINE f == s.table[h]
           kept == f.length - f.position
           r == Refill(s, h, kept)
<1>1. Ahead(s, h) \in Nat
  BY AheadTyped
<1>2. f.position \in 0..BufSize /\ f.length \in 0..BufSize /\ BufSize \in Nat
  BY FujiFsAssumption DEF Libs, Handles
<1>3. CASE s.ent = "end"
  <2>1. Completed(s, h) = s
    BY <1>3 DEF Completed
  <2>2. Stays(s, s, h)
    BY DEF Stays, SameShare, Elsewise, SameStream
  <2> QED
    BY <1>1, <1>3, <2>1, <2>2 DEF Turned
<1>4. CASE s.ent = "none" /\ f.position < f.length /\ ~\A i \in (f.position + 1)..f.length : s.buf[i][2] # 2
  <2>1. Completed(s, h) = Parsed(s, h)
    BY <1>4 DEF Completed
  <2> QED
    BY <1>4, <2>1, ParsedTurns
<1>5. CASE s.ent = "none" /\ f.position < f.length /\ \A i \in (f.position + 1)..f.length : s.buf[i][2] # 2
  <2>1. Completed(s, h) = IF r.ent = "end" THEN r ELSE Parsed(r, h)
    BY <1>5 DEF Completed, ParsedUnlessEnd
  <2>2. kept = InBuffer(f) /\ kept \in Nat /\ f.position + kept <= BufSize
    BY <1>2, <1>5 DEF InBuffer
  <2>3. Refills(s, r, h, kept)
    <3> HIDE DEF kept
    <3> QED
      BY <2>2, RefillTyped
  <2> HIDE DEF r
  <2>4. /\ Stays(s, r, h) /\ Ahead(r, h) <= Ahead(s, h)
        /\ r.ent = "end" \/ (r.ent = "none" /\ r.table[h].position < r.table[h].length)
    BY <2>2, <2>3, RefillTurns
  <2>5. r \in Libs
    BY <2>4 DEF Stays
  <2>6. CASE r.ent = "end"
    BY <2>1, <2>4, <2>6 DEF Turned
  <2>7. CASE r.ent = "none" /\ r.table[h].position < r.table[h].length
    <3> DEFINE t == Parsed(r, h)
    <3>1. Turned(r, t, h)
      BY <2>5, <2>7, ParsedTurns
    <3>2. Completed(s, h) = t
      BY <2>1, <2>7
    <3> HIDE DEF t
    <3>3. Stays(s, t, h) /\ t \in Libs
      BY <2>4, <3>1, StaysOn DEF Turned, Stays
    <3>4. Ahead(r, h) \in Nat /\ Ahead(t, h) \in Nat
      BY <2>5, <3>3, AheadTyped
    <3> QED
      BY <1>1, <2>4, <3>1, <3>2, <3>3, <3>4 DEF Turned
  <2> QED
    BY <2>4, <2>6, <2>7
<1> QED
  BY <1>3, <1>4, <1>5

(* fujifs_readdir ends with less ahead, or at the end.                     *)
LEMMA ReadDirTyped ==
    ASSUME NEW s \in Libs, NEW h \in HandleSet
    PROVE  Turned(s, ReadDir(s, h), h)
<1> DEFINE f == s.table[h]
           a == [s EXCEPT !.ent = "none"]
           r == Refill(s, h, 0)
<1>1. Ahead(s, h) \in Nat
  BY AheadTyped
<1>2. f.position \in 0..BufSize /\ f.length \in 0..BufSize /\ BufSize \in Nat
  BY FujiFsAssumption DEF Libs, Handles
<1>3. PICK u : /\ ReadDir(s, h) = Completed(u, h) /\ u \in Libs
               /\ Stays(s, u, h) /\ Ahead(u, h) <= Ahead(s, h)
               /\ u.ent = "end" \/ (u.ent = "none" /\ u.table[h].position < u.table[h].length)
  <2>1. CASE f.position >= f.length
    <3>1. ReadDir(s, h) = Completed(r, h)
      BY <2>1 DEF ReadDir
    <3>2. 0 = InBuffer(f) /\ f.position + 0 <= BufSize
      BY <1>2, <2>1 DEF InBuffer
    <3>3. Refills(s, r, h, 0)
      BY <3>2, RefillTyped
    <3> HIDE DEF r
    <3>4. /\ Stays(s, r, h) /\ Ahead(r, h) <= Ahead(s, h)
          /\ r.ent = "end" \/ (r.ent = "none" /\ r.table[h].position < r.table[h].length)
      BY <3>2, <3>3, RefillTurns
    <3> QED
      BY <3>1, <3>4 DEF Stays
  <2>2. CASE f.position < f.length
    <3>1. ReadDir(s, h) = Completed(a, h)
      BY <1>2, <2>2 DEF ReadDir
    <3>2. /\ a \in Libs /\ a.ent = "none" /\ SameTable(s, a) /\ SameDev(s, a) /\ SameText(s, a) /\ SameShare(s, a)
          /\ a.h = s.h /\ a.err = s.err /\ a.fuse = s.fuse /\ a.trouble = s.trouble
      BY EntSet DEF Entries
    <3> HIDE DEF a
    <3>3. Stays(s, a, h) /\ Ahead(a, h) = Ahead(s, h)
      BY <3>2 DEF Stays, SameTable, SameDev, SameShare, Elsewise, SameStream, Ahead, Left
    <3>4. a.table[h].position < a.table[h].length
      BY <2>2, <3>2 DEF SameTable
    <3> QED
      BY <1>1, <3>1, <3>2, <3>3, <3>4
  <2> QED
    BY <1>2, <2>1, <2>2
<1> DEFINE t == Completed(u, h)
<1>4. Turned(u, t, h)
  BY <1>3, CompletedTyped
<1> HIDE DEF t
<1>5. Stays(s, t, h) /\ t \in Libs
  BY <1>3, <1>4, StaysOn DEF Turned, Stays
<1>6. Ahead(u, h) \in Nat /\ Ahead(t, h) \in Nat
  BY <1>3, <1>5, AheadTyped
<1>7. Turned(s, t, h)
  BY <1>1, <1>3, <1>4, <1>5, <1>6 DEF Turned
<1> QED
  BY <1>3, <1>7 DEF t

-----------------------------------------------------------------------------
(* A directory read without trouble.                                       *)

(* h streams the listing l, the first m entries of which are taken: what   *)
(* is in the buffer for h is what comes next.                              *)
Place(s, h, l, m) ==
    LET f == s.table[h]
        d == s.dev[h] IN
    /\ f.open /\ d.kind = "dir" /\ d.text = TextOf(l) /\ f.position <= f.length
    /\ d.at = 2 * m + f.length - f.position
    /\ \A i \in 1..(f.length - f.position) : s.buf[f.position + i] = TextOf(l)[2 * m + i]

(* The numbers of a place in a listing.                                    *)
LEMMA PlaceIs ==
    ASSUME NEW s \in Libs, NEW h \in HandleSet, NEW l \in Seq(Names), NEW m \in 0..Len(l), Place(s, h, l, m)
    PROVE  /\ s.table[h].position \in 0..BufSize /\ s.table[h].length \in 0..BufSize
           /\ s.table[h].length - s.table[h].position \in Nat
           /\ s.table[h].length - s.table[h].position + 2 * m <= 2 * Len(l)
           /\ Left(s, h) = 2 * Len(l) - 2 * m - (s.table[h].length - s.table[h].position)
           /\ InBuffer(s.table[h]) = s.table[h].length - s.table[h].position
<1> DEFINE f == s.table[h]
           d == s.dev[h]
<1>1. f.position \in 0..BufSize /\ f.length \in 0..BufSize /\ BufSize \in Nat
  BY FujiFsAssumption DEF Libs, Handles
<1>2. d \in Streams /\ Len(l) \in Nat
  BY DEF Libs
<1>3. d.at \in Nat /\ (d.kind = "dir" => d.at <= Len(d.text))
  BY <1>2 DEF Streams
<1>4. d.kind = "dir" /\ Len(d.text) = 2 * Len(l) /\ d.at = 2 * m + f.length - f.position /\ f.position <= f.length
  BY TextIs DEF Place
<1>5. Left(s, h) = Len(d.text) - d.at
  BY <1>4 DEF Left
<1>6. InBuffer(f) = f.length - f.position
  BY <1>1, <1>4 DEF InBuffer
<1> HIDE DEF f, d
<1>7. f.length - f.position \in Nat
  BY <1>1, <1>4
<1> QED
  BY <1>1, <1>2, <1>3, <1>4, <1>5, <1>6, <1>7 DEF f, d

(* The places of what is put behind the first k.                           *)
LEMMA Behind ==
    ASSUME NEW k \in Nat, NEW q \in Nat, NEW m \in Nat, NEW i \in 1..(k + q), i > k
    PROVE  i - k \in 1..q /\ k + (i - k) = i /\ 2 * m + k + (i - k) = 2 * m + i
OBVIOUS

(* The arithmetic of a buffer that ends behind what is kept.               *)
LEMMA KeptIs ==
    ASSUME NEW p \in Nat, NEW g \in Nat, NEW m \in Nat, NEW k \in Nat, p + k = g
    PROVE  g - p = k /\ 2 * m + g - p = 2 * m + k
OBVIOUS

(* The buffer filled up when it holds no whole record.                     *)
LEMMA PlaceRefilled ==
    ASSUME BufSize >= 2, NEW s \in Libs, NEW h \in HandleSet, NEW l \in Seq(Names), NEW m \in 0..Len(l),
           Place(s, h, l, m), m < Len(l), s.fuse = 0,
           NEW kept \in 0..1, kept = InBuffer(s.table[h])
    PROVE  LET t == Refill(s, h, kept) IN
           /\ t \in Libs /\ t.fuse = 0 /\ t.ent = "none"
           /\ Place(t, h, l, m) /\ InBuffer(t.table[h]) \in Nat \ {0, 1}
<1> DEFINE t == Refill(s, h, kept)
           p == s.table[h].position
           g == s.table[h].length
           x == TextOf(l)
           q == Smaller(BufSize - kept, Left(s, h))
<1>0. /\ p \in 0..BufSize /\ g \in 0..BufSize
      /\ Left(s, h) = 2 * Len(l) - 2 * m - (g - p)
  BY PlaceIs
<1>1. /\ p \in 0..BufSize /\ g \in 0..BufSize /\ p + kept = g
      /\ Left(s, h) = 2 * Len(l) - 2 * m - kept /\ kept \in Nat /\ Len(l) \in Nat /\ BufSize \in Nat
      /\ m \in Nat /\ m < Len(l) /\ BufSize >= 2
  <2>1. Len(l) \in Nat /\ BufSize \in Nat
    BY FujiFsAssumption
  <2>2. kept = g - p
    BY PlaceIs
  <2> HIDE DEF p, g
  <2> QED
    BY <1>0, <2>1, <2>2
<1>2. /\ s.table[h].open /\ s.dev[h].kind = "dir" /\ s.dev[h].text = x
      /\ s.dev[h].at = 2 * m + kept /\ IsOpen(s, h)
      /\ \A i \in 1..kept : s.buf[p + i] = x[2 * m + i]
  <2> HIDE DEF x
  <2>1. /\ s.table[h].open /\ s.dev[h].kind = "dir" /\ s.dev[h].text = x
        /\ s.dev[h].at = 2 * m + g - p
    BY Zenon DEF Place, x
  <2>2. \A i \in 1..(g - p) : s.buf[p + i] = x[2 * m + i]
    BY Zenon DEF Place, x
  <2> HIDE DEF p, g
  <2>6. p \in Nat /\ g \in Nat /\ m \in Nat /\ p + kept = g
    BY <1>1
  <2>3. g - p = kept /\ 2 * m + g - p = 2 * m + kept
    BY <2>6, KeptIs
  <2>4. s.dev[h].at = 2 * m + kept
    BY <2>1, <2>3
  <2>5. \A i \in 1..kept : s.buf[p + i] = x[2 * m + i]
    BY <2>2, <2>3
  <2> QED
    BY <2>1, <2>4, <2>5 DEF IsOpen
<1>3. Refills(s, t, h, kept)
  <2>1. s.table[h].position + kept <= BufSize
    BY <1>1
  <2> QED
    BY <1>1, <2>1, RefillTyped
<1>4. q \in Nat /\ kept + q >= 2 /\ q > 0
  <2> DEFINE a == Left(s, h)
  <2>1. a = 2 * Len(l) - 2 * m - kept
    BY <1>1
  <2> HIDE DEF a, p, g
  <2>2. a \in Nat /\ a > 0 /\ a + kept >= 2 /\ BufSize - kept \in Nat /\ BufSize - kept > 0
    BY <1>1, <2>1
  <2>3. q \in {BufSize - kept, a}
    BY DEF Smaller, a
  <2> HIDE DEF q, p, g
  <2>4. CASE q = a
    BY <2>2, <2>4
  <2>5. CASE q = BufSize - kept
    BY <1>1, <2>2, <2>5
  <2> QED
    BY <2>3, <2>4, <2>5
<1> HIDE DEF t
<1>5. /\ t.ent # "end" /\ t.table[h].length = kept + q /\ t.dev[h].at = s.dev[h].at + q
      /\ \A i \in 1..kept : t.buf[i] = s.buf[p + i]
      /\ \A i \in 1..q : t.buf[kept + i] = x[s.dev[h].at + i]
  <2> HIDE DEF q, x
  <2> QED
    BY <1>2, <1>3, <1>4 DEF Refills, q
<1>6. /\ Stays(s, t, h) /\ t.ent = "none" /\ t.table[h].position = 0
  BY <1>3, <1>5 DEF Refills
<1>7. /\ t \in Libs /\ t.fuse = 0 /\ t.table[h].open /\ t.dev[h].kind = "dir" /\ t.dev[h].text = x
  BY <1>2, <1>6 DEF Stays, Elsewise, SameStream
<1> HIDE DEF q, x, p, g
<1>8. t.dev[h].at = 2 * m + t.table[h].length - t.table[h].position
  BY <1>1, <1>2, <1>4, <1>5, <1>6
<1>11. InBuffer(t.table[h]) = kept + q
  <2>1. t.table[h].length = kept + q /\ t.table[h].position = 0
    BY <1>5, <1>6
  <2> QED
    BY <1>1, <1>4, <2>1 DEF InBuffer
<1>9. ASSUME NEW i \in 1..(kept + q) PROVE t.buf[i] = x[2 * m + i]
  <2>1. i \in Nat /\ s.dev[h].at = 2 * m + kept
    BY <1>1, <1>2, <1>4
  <2>2. CASE i <= kept
    <3>1. i \in 1..kept
      BY <1>1, <2>1, <2>2
    <3> QED
      BY <1>2, <1>5, <3>1
  <2>3. CASE i > kept
    <3>1. i - kept \in 1..q /\ kept + (i - kept) = i /\ 2 * m + kept + (i - kept) = 2 * m + i
      <4>1. kept \in Nat /\ m \in Nat /\ q \in Nat
        BY <1>1, <1>4
      <4> QED
        BY <2>3, <4>1, Behind
    <3> QED
      BY <1>5, <2>1, <3>1
  <2> QED
    BY <1>1, <2>1, <2>2, <2>3
<1>12. \A i \in 1..(t.table[h].length - t.table[h].position) : t.buf[t.table[h].position + i] = x[2 * m + i]
  <2>1. t.table[h].length - t.table[h].position = kept + q /\ t.table[h].position = 0
    <3>1. t.table[h].length = kept + q /\ t.table[h].position = 0
      BY <1>5, <1>6
    <3> QED
      BY <1>1, <1>4, <3>1
  <2>2. \A i \in 1..(kept + q) : 0 + i = i
    BY <1>1, <1>4
  <2> QED
    BY <1>9, <2>1, <2>2
<1>10. t.table[h].position <= t.table[h].length /\ InBuffer(t.table[h]) \in Nat \ {0, 1}
  <2>1. t.table[h].length = kept + q /\ t.table[h].position = 0
    BY <1>5, <1>6
  <2> QED
    BY <1>1, <1>4, <1>11, <2>1
<1> QED
  BY <1>6, <1>7, <1>8, <1>10, <1>12 DEF Place, t, x

(* The record at the position is the next entry.                           *)
LEMMA PlaceParsed ==
    ASSUME NEW s \in Libs, NEW h \in HandleSet, NEW l \in Seq(Names), NEW m \in 0..Len(l),
           Place(s, h, l, m), InBuffer(s.table[h]) \notin {0, 1}
    PROVE  /\ m < Len(l) /\ m + 1 \in 0..Len(l)
           /\ Parsed(s, h).ent = l[m + 1] /\ Place(Parsed(s, h), h, l, m + 1)
<1> DEFINE t == Parsed(s, h)
           p == s.table[h].position
           g == s.table[h].length
           x == TextOf(l)
<1>1. /\ p \in 0..BufSize /\ g \in 0..BufSize /\ Len(l) \in Nat /\ BufSize \in Nat
      /\ g - p + 2 * m <= 2 * Len(l)
  BY PlaceIs, FujiFsAssumption
<1>2. /\ m < Len(l) /\ m + 1 \in 1..Len(l) /\ p + 2 <= BufSize /\ p < g /\ 1 \in 1..(g - p) /\ 2 \in 1..(g - p)
      /\ m \in Nat
  <2>1. g - p \notin {0, 1} /\ m \in Nat /\ g - p \in Nat
    BY PlaceIs
  <2> HIDE DEF p, g
  <2> QED
    BY <1>1, <2>1
<1>3. l[m + 1] \in Names
  BY <1>2
<1>4. x[2 * m + 1] = <<l[m + 1], 1>> /\ x[2 * m + 2] = <<l[m + 1], 2>>
  <2>1. 2 * (m + 1) - 1 = 2 * m + 1 /\ 2 * (m + 1) = 2 * m + 2
    BY <1>1
  <2>2. x[2 * (m + 1) - 1] = <<l[m + 1], 1>> /\ x[2 * (m + 1)] = <<l[m + 1], 2>>
    BY <1>2, TextIs
  <2> HIDE DEF x
  <2> QED
    BY <2>1, <2>2
<1>5. /\ s.table[h].open /\ s.dev[h].kind = "dir" /\ s.dev[h].text = x
      /\ s.dev[h].at = 2 * m + g - p
      /\ \A i \in 1..(g - p) : s.buf[p + i] = x[2 * m + i]
  BY DEF Place
<1> HIDE DEF x
<1>6. s.buf[p + 1] = <<l[m + 1], 1>> /\ s.buf[p + 2] = <<l[m + 1], 2>>
  BY <1>2, <1>4, <1>5
<1>7. Parses(s, t, h)
  BY <1>2, ParsedTurns
<1> HIDE DEF t
<1>8. /\ t.ent = l[m + 1] /\ t.table[h].position = p + 2 /\ t.table[h].length = g
      /\ \A i \in (p + 3)..BufSize : t.buf[i] = s.buf[i]
      /\ SameDev(s, t) /\ t.table[h].open
  BY <1>2, <1>3, <1>5, <1>6, <1>7 DEF Parses, Stays
<1> HIDE DEF p, g
<1>9. ASSUME NEW i \in 1..(g - (p + 2)) PROVE t.buf[p + 2 + i] = x[2 * (m + 1) + i]
  <2>1. p + 2 + i \in (p + 3)..BufSize /\ i + 2 \in 1..(g - p) /\ p + 2 + i = p + (i + 2)
        /\ 2 * (m + 1) + i = 2 * m + (i + 2)
    BY <1>1, <1>2
  <2> QED
    BY <1>5, <1>8, <2>1
<1>10. 2 * m + g - p = 2 * (m + 1) + g - (p + 2) /\ p + 2 <= g
  BY <1>1, <1>2
<1>11. Place(t, h, l, m + 1)
  <2>1. t.dev[h].kind = "dir" /\ t.dev[h].text = x /\ t.dev[h].at = 2 * (m + 1) + g - (p + 2)
    BY <1>5, <1>8, <1>10 DEF SameDev
  <2> QED
    BY <1>8, <1>9, <1>10, <2>1 DEF Place, x
<1>12. m + 1 \in 0..Len(l)
  BY <1>1, <1>2
<1> QED
  BY <1>2, <1>8, <1>11, <1>12 DEF t

(* Two pieces or more contain the end of an entry, one does not.           *)
LEMMA PlaceWhole ==
    ASSUME NEW s \in Libs, NEW h \in HandleSet, NEW l \in Seq(Names), NEW m \in 0..Len(l),
           Place(s, h, l, m), m < Len(l), InBuffer(s.table[h]) \in Nat \ {0, 1}
    PROVE  ~\A i \in (s.table[h].position + 1)..s.table[h].length : s.buf[i][2] # 2
<1> DEFINE p == s.table[h].position
           g == s.table[h].length
           x == TextOf(l)
<1>1. p \in 0..BufSize /\ g \in 0..BufSize /\ g - p \in Nat \ {0, 1} /\ Len(l) \in Nat /\ BufSize \in Nat /\ m \in Nat
  BY PlaceIs, FujiFsAssumption
<1>2. \A i \in 1..(g - p) : s.buf[p + i] = x[2 * m + i]
  BY DEF Place
<1>3. x[2 * m + 2] = <<l[m + 1], 2>>
  <2>1. 2 * (m + 1) = 2 * m + 2 /\ m + 1 \in 1..Len(l)
    BY <1>1
  <2>2. x[2 * (m + 1)] = <<l[m + 1], 2>>
    BY <2>1, TextIs
  <2> HIDE DEF x
  <2> QED
    BY <2>1, <2>2
<1> HIDE DEF p, g, x
<1>4. 2 \in 1..(g - p) /\ p + 2 \in (p + 1)..g
  BY <1>1
<1>5. s.buf[p + 2][2] = 2
  BY <1>2, <1>3, <1>4
<1> QED
  BY <1>4, <1>5 DEF p, g

(* Half an entry in the buffer has no end.                                 *)
LEMMA PlaceHalf ==
    ASSUME NEW s \in Libs, NEW h \in HandleSet, NEW l \in Seq(Names), NEW m \in 0..Len(l),
           Place(s, h, l, m), m < Len(l), InBuffer(s.table[h]) = 1
    PROVE  \A i \in (s.table[h].position + 1)..s.table[h].length : s.buf[i][2] # 2
<1> DEFINE p == s.table[h].position
           g == s.table[h].length
           x == TextOf(l)
<1>1. p \in 0..BufSize /\ g \in 0..BufSize /\ g - p = 1 /\ Len(l) \in Nat /\ BufSize \in Nat /\ m \in Nat
  BY PlaceIs, FujiFsAssumption
<1>2. \A i \in 1..(g - p) : s.buf[p + i] = x[2 * m + i]
  BY DEF Place
<1>3. x[2 * m + 1] = <<l[m + 1], 1>>
  <2>1. 2 * (m + 1) - 1 = 2 * m + 1 /\ m + 1 \in 1..Len(l)
    BY <1>1
  <2>2. x[2 * (m + 1) - 1] = <<l[m + 1], 1>>
    BY <2>1, TextIs
  <2> HIDE DEF x
  <2> QED
    BY <2>1, <2>2
<1> HIDE DEF p, g, x
<1>4. 1 \in 1..(g - p) /\ \A i \in (p + 1)..g : i = p + 1
  BY <1>1
<1>5. s.buf[p + 1][2] = 1
  BY <1>2, <1>3, <1>4
<1> QED
  BY <1>4, <1>5 DEF p, g

(* From any place in a listing fujifs_readdir returns the next entry, and  *)
(* the end only behind the last.                                           *)
LEMMA PlaceRead ==
    ASSUME BufSize >= 2, NEW s \in Libs, NEW h \in HandleSet, NEW l \in Seq(Names), NEW m \in 0..Len(l),
           Place(s, h, l, m), s.fuse = 0
    PROVE  LET t == ReadDir(s, h) IN
           /\ m < Len(l) => t.ent = l[m + 1] /\ m + 1 \in 0..Len(l) /\ Place(t, h, l, m + 1)
           /\ m = Len(l) => t.ent = "end"
<1> DEFINE f == s.table[h]
           k == InBuffer(f)
           a == [s EXCEPT !.ent = "none"]
           r == Refill(s, h, 0)
<1>1. /\ f.position \in 0..BufSize /\ f.length \in 0..BufSize /\ k = f.length - f.position /\ k \in Nat
      /\ f.position <= f.length
      /\ k + 2 * m <= 2 * Len(l) /\ Left(s, h) = 2 * Len(l) - 2 * m - k
  BY PlaceIs DEF Place
<1>2. Len(l) \in Nat /\ m \in Nat /\ BufSize \in Nat
  BY FujiFsAssumption
<1>3. k = 0 <=> f.position >= f.length
  <2> DEFINE p == f.position
             g == f.length
  <2>1. p \in 0..BufSize /\ g \in 0..BufSize /\ k = g - p /\ p <= g
    BY <1>1
  <2> HIDE DEF k, p, g
  <2>2. k = 0 <=> p >= g
    BY <1>2, <2>1
  <2> QED
    BY <2>2 DEF p, g
<1>4. CASE k = 0
  <2>1. ReadDir(s, h) = Completed(r, h)
    BY <1>3, <1>4 DEF ReadDir
  <2>2. CASE m < Len(l)
    <3>1. /\ r \in Libs /\ r.fuse = 0 /\ r.ent = "none"
          /\ Place(r, h, l, m) /\ InBuffer(r.table[h]) \in Nat \ {0, 1}
      <4>1. 0 \in 0..1
        OBVIOUS
      <4> QED
        BY <1>4, <2>2, <4>1, PlaceRefilled
    <3> HIDE DEF r
    <3> DEFINE t == Parsed(r, h)
    <3>2. m + 1 \in 0..Len(l) /\ t.ent = l[m + 1] /\ Place(t, h, l, m + 1)
      BY <3>1, PlaceParsed
    <3>3. Completed(r, h) = t
      <4>1. ~\A i \in (r.table[h].position + 1)..r.table[h].length : r.buf[i][2] # 2
        BY <2>2, <3>1, PlaceWhole
      <4> QED
        BY <3>1, <4>1 DEF Completed
    <3> HIDE DEF t
    <3> QED
      BY <1>2, <2>1, <2>2, <3>2, <3>3
  <2>3. CASE m = Len(l)
    <3>1. Left(s, h) = 0
      BY <1>1, <1>2, <1>4, <2>3
    <3>2. IsOpen(s, h)
      BY DEF IsOpen, Place
    <3>3. f.position + 0 <= BufSize
      BY <1>1, <1>2
    <3>4. Refills(s, r, h, 0)
      BY <3>3, RefillTyped
    <3>5. Smaller(BufSize - 0, Left(s, h)) = 0
      BY <1>2, <3>1 DEF Smaller
    <3>6. r.ent = "end"
      BY <3>2, <3>4, <3>5 DEF Refills
    <3>7. Completed(r, h) = r
      BY <3>6 DEF Completed
    <3> QED
      BY <1>2, <2>1, <2>3, <3>6, <3>7
  <2> QED
    BY <1>2, <2>2, <2>3
<1>5. CASE k # 0
  <2>1. ReadDir(s, h) = Completed(a, h)
    BY <1>1, <1>3, <1>5 DEF ReadDir
  <2>2. /\ a \in Libs /\ a.ent = "none" /\ SameTable(s, a) /\ SameDev(s, a) /\ SameText(s, a) /\ SameShare(s, a)
        /\ a.h = s.h /\ a.err = s.err /\ a.fuse = s.fuse /\ a.trouble = s.trouble
    BY EntSet DEF Entries
  <2> HIDE DEF a
  <2>3. Place(a, h, l, m) /\ InBuffer(a.table[h]) = k
    BY <2>2 DEF Place, SameTable, SameDev, SameText
  <2>4. m < Len(l)
    <3>1. k + 2 * m <= 2 * Len(l) /\ k \in Nat /\ k # 0
      BY <1>1, <1>5
    <3> HIDE DEF k
    <3> QED
      BY <1>2, <3>1
  <2>5. CASE k = 1
    <3> DEFINE b == Refill(a, h, 1)
               t == Parsed(b, h)
    <3>1. /\ b \in Libs /\ b.fuse = 0 /\ b.ent = "none"
          /\ Place(b, h, l, m) /\ InBuffer(b.table[h]) \in Nat \ {0, 1}
      <4>1. 1 \in 0..1
        OBVIOUS
      <4> QED
        BY <2>2, <2>3, <2>4, <2>5, <4>1, PlaceRefilled
    <3> HIDE DEF b
    <3>2. m + 1 \in 0..Len(l) /\ t.ent = l[m + 1] /\ Place(t, h, l, m + 1)
      BY <3>1, PlaceParsed
    <3>3. a.table[h].length - a.table[h].position = 1
      BY <2>2, <2>3, <2>5, PlaceIs
    <3>4. \A i \in (a.table[h].position + 1)..a.table[h].length : a.buf[i][2] # 2
      BY <2>2, <2>3, <2>4, <2>5, PlaceHalf
    <3>5. Completed(a, h) = t
      <4>1. Completed(a, h) = ParsedUnlessEnd(Refill(a, h, 1), h)
        BY <2>2, <3>3, <3>4 DEF Completed
      <4> QED
        BY <3>1, <4>1 DEF ParsedUnlessEnd, b
    <3> HIDE DEF t
    <3> QED
      BY <1>2, <2>1, <2>4, <3>2, <3>5
  <2>6. CASE k # 1
    <3> DEFINE t == Parsed(a, h)
    <3>1. InBuffer(a.table[h]) \in Nat \ {0, 1}
      BY <1>1, <1>5, <2>3, <2>6
    <3>2. m + 1 \in 0..Len(l) /\ t.ent = l[m + 1] /\ Place(t, h, l, m + 1)
      BY <2>2, <2>3, <3>1, PlaceParsed
    <3>3. Completed(a, h) = t
      <4>1. ~\A i \in (a.table[h].position + 1)..a.table[h].length : a.buf[i][2] # 2
        BY <2>2, <2>3, <2>4, <3>1, PlaceWhole
      <4> QED
        BY <2>2, <4>1 DEF Completed
    <3> HIDE DEF t
    <3> QED
      BY <1>2, <2>1, <2>4, <3>2, <3>3
  <2> QED
    BY <2>5, <2>6
<1> QED
  BY <1>4, <1>5

-----------------------------------------------------------------------------
(* The scan.                                                               *)

(* The number of its last turn, and the states it goes through.            *)
LastTurn(s, h) == Ahead(s, h)
(* The turns of the loop that looks for an entry that matches.             *)
AreTurns(f, s, h, wanted) ==
    f = [k \in 0..LastTurn(s, h) |-> NextEntry(IF k = 0 THEN s ELSE f[k - 1], h, wanted)]
Turns(s, h, wanted) == CHOOSE f : AreTurns(f, s, h, wanted)

(* The loop ends at its last turn.                                         *)
LEMMA ScanFromIs ==
    ASSUME NEW s, NEW h, NEW wanted
    PROVE  ScanFrom(s, h, wanted) = Turns(s, h, wanted)[LastTurn(s, h)]
BY DEF ScanFrom, Turns, AreTurns, LastTurn

(* One turn.                                                               *)
LEMMA NextEntryIn ==
    ASSUME NEW s \in Libs, NEW h \in HandleSet, NEW wanted
    PROVE  NextEntry(s, h, wanted) \in Libs
BY ReadDirTyped DEF NextEntry, Turned, Stays

(* Every turn follows from the one before: by Iterated.                    *)
LEMMA TurnsAre ==
    ASSUME NEW s \in Libs, NEW h \in HandleSet, NEW wanted
    PROVE  /\ LastTurn(s, h) \in Nat
           /\ Turns(s, h, wanted) \in [0..LastTurn(s, h) -> Libs]
           /\ Turns(s, h, wanted)[0] = NextEntry(s, h, wanted)
           /\ \A k \in 1..LastTurn(s, h) :
                 Turns(s, h, wanted)[k] = NextEntry(Turns(s, h, wanted)[k - 1], h, wanted)
<1> DEFINE n == LastTurn(s, h)
           a == NextEntry(s, h, wanted)
           g == [k \in 1..n |-> [v \in Libs |-> NextEntry(v, h, wanted)]]
<1>1. n \in Nat /\ a \in Libs
  BY NextEntryIn, AheadTyped DEF LastTurn
<1>2. g \in [1..n -> [Libs -> Libs]]
  BY NextEntryIn
<1>3. \A k \in 1..n, v \in Libs : g[k][v] = NextEntry(v, h, wanted)
  OBVIOUS
<1> HIDE DEF g, n, a
<1>4. PICK f \in [0..n -> Libs] : Follows(f, n, a, g)
  BY <1>1, <1>2, Iterated
<1>5. f[0] = a /\ \A k \in 1..n : k - 1 \in 0..n /\ f[k] = NextEntry(f[k - 1], h, wanted)
  BY <1>1, <1>3, <1>4 DEF Follows
<1>6. AreTurns(f, s, h, wanted)
  <2>1. \A k \in 0..n : k # 0 => k \in 1..n
    BY <1>1
  <2> QED
    BY <1>4, <1>5, <2>1 DEF AreTurns, n, a
<1> DEFINE u == Turns(s, h, wanted)
<1>7. AreTurns(u, s, h, wanted)
  BY <1>6 DEF Turns
<1> HIDE DEF u
<1>8. DOMAIN u = 0..n /\ u[0] = a /\ \A k \in 1..n : u[k] = NextEntry(u[k - 1], h, wanted)
  <2>1. 0 \in 0..n /\ \A k \in 1..n : k \in 0..n /\ k # 0
    BY <1>1
  <2> QED
    BY <1>7, <2>1 DEF AreTurns, n, a
<1>9. \A k \in 0..n : u[k] \in Libs
  <2> DEFINE R == {k \in 0..n : u[k] \in Libs}
  <2>1. 0 \in R
    BY <1>1, <1>8
  <2>2. ASSUME NEW k \in 1..n, k - 1 \in R PROVE k \in R
    <3>1. u[k - 1] \in Libs /\ k \in 0..n
      BY <1>1, <2>2
    <3> QED
      BY <1>8, <3>1, NextEntryIn
  <2> HIDE DEF R
  <2>3. \A k \in 0..n : k \in R
    BY <1>1, <2>1, <2>2, UpToN
  <2> QED
    BY <2>3 DEF R
<1>10. u = [k \in 0..n |-> u[k]]
  BY <1>7 DEF AreTurns, n
<1>11. u \in [0..n -> Libs]
  BY <1>9, <1>10
<1> QED
  BY <1>1, <1>8, <1>11 DEF u, n, a

(* The scan is a turn, and stops only where it should.                     *)
LEMMA ScanTyped ==
    ASSUME NEW s \in Libs, NEW h \in HandleSet, NEW wanted \in SUBSET (Names \cup {"junk"})
    PROVE  /\ Turned(s, Scan(s, h, wanted), h)
           /\ Scan(s, h, wanted).ent \in wanted \cup {"end"}
<1> DEFINE z == [s EXCEPT !.ent = "none"]
           u == Turns(z, h, wanted)
           n == LastTurn(z, h)
           R == {k \in 0..n : /\ Turned(s, u[k], h)
                              /\ u[k].ent \notin wanted \cup {"end"} => Ahead(u[k], h) + k + 1 <= Ahead(s, h)}
<1>1. /\ z \in Libs /\ z.ent = "none" /\ SameTable(s, z) /\ SameDev(s, z) /\ SameText(s, z) /\ SameShare(s, z)
      /\ z.h = s.h /\ z.err = s.err /\ z.fuse = s.fuse /\ z.trouble = s.trouble
  BY EntSet DEF Entries
<1>2. Scan(s, h, wanted) = u[n]
  BY ScanFromIs DEF Scan
<1> HIDE DEF z
<1>3. /\ n \in Nat /\ u \in [0..n -> Libs] /\ u[0] = NextEntry(z, h, wanted)
      /\ \A k \in 1..n : u[k] = NextEntry(u[k - 1], h, wanted)
  BY <1>1, TurnsAre
<1> HIDE DEF u, n
<1>4. Ahead(s, h) \in Nat
  BY AheadTyped
<1>5. 0 \in R
  <2>1. "none" \notin wanted \cup {"end"}
    BY FujiFsAssumption
  <2>2. u[0] = ReadDir(z, h)
    BY <1>1, <1>3, <2>1 DEF NextEntry
  <2>3. Turned(z, u[0], h)
    BY <1>1, <2>2, ReadDirTyped
  <2>4. Stays(s, z, h) /\ Ahead(z, h) = Ahead(s, h)
    BY <1>1 DEF Stays, SameTable, SameDev, SameShare, Elsewise, SameStream, Ahead, Left
  <2>5. Stays(s, u[0], h)
    BY <2>3, <2>4, StaysOn DEF Turned
  <2>6. Turned(s, u[0], h)
    BY <2>3, <2>4, <2>5 DEF Turned
  <2>7. u[0].ent # "end" => Ahead(u[0], h) + 0 + 1 <= Ahead(s, h)
    <3>1. Ahead(u[0], h) \in Nat
      BY <1>3, AheadTyped
    <3> QED
      BY <1>4, <2>6, <3>1 DEF Turned
  <2> QED
    BY <1>3, <2>6, <2>7
<1>6. ASSUME NEW k \in 1..n, k - 1 \in R PROVE k \in R
  <2> DEFINE a == u[k - 1]
             b == u[k]
  <2>1. k \in Nat /\ k - 1 \in 0..n /\ k \in 0..n /\ a \in Libs /\ b \in Libs /\ b = NextEntry(a, h, wanted)
    BY <1>3
  <2>2. Turned(s, a, h) /\ (a.ent \notin wanted \cup {"end"} => Ahead(a, h) + (k - 1) + 1 <= Ahead(s, h))
    BY <1>6
  <2> HIDE DEF a, b
  <2>3. Ahead(a, h) \in Nat /\ Ahead(b, h) \in Nat
    BY <2>1, AheadTyped
  <2>4. CASE a.ent \in wanted \cup {"end"}
    <3>1. b = a
      BY <2>1, <2>4 DEF NextEntry
    <3> QED
      BY <2>1, <2>2, <2>4, <3>1 DEF b
  <2>5. CASE a.ent \notin wanted \cup {"end"}
    <3>1. Turned(a, b, h)
      BY <2>1, <2>5, ReadDirTyped DEF NextEntry
    <3>2. Stays(s, b, h)
      BY <2>2, <3>1, StaysOn DEF Turned
    <3>3. Turned(s, b, h)
      BY <1>4, <2>2, <2>3, <3>1, <3>2 DEF Turned
    <3>4. b.ent \notin wanted \cup {"end"} => Ahead(b, h) + k + 1 <= Ahead(s, h)
      BY <1>4, <2>1, <2>2, <2>3, <2>5, <3>1 DEF Turned
    <3> QED
      BY <2>1, <3>3, <3>4 DEF b
  <2> QED
    BY <2>4, <2>5
<1> HIDE DEF R
<1>7. n \in R
  <2>1. \A k \in 0..n : k \in R
    BY <1>3, <1>5, <1>6, UpToN
  <2> QED
    BY <1>3, <2>1
<1>8. n = Ahead(s, h)
  BY <1>1 DEF SameTable, SameDev, SameShare, Ahead, Left, n, LastTurn
<1>9. Ahead(u[n], h) \in Nat
  BY <1>3, AheadTyped
<1> QED
  BY <1>2, <1>3, <1>4, <1>7, <1>8, <1>9 DEF R

(* In a directory read without trouble the scan stops at the next entry    *)
(* wanted, or at the end if there is none.                                 *)
LEMMA PlaceScan ==
    ASSUME BufSize >= 2, NEW s \in Libs, NEW h \in HandleSet, NEW wanted \in SUBSET (Names \cup {"junk"}),
           NEW l \in Seq(Names), NEW m \in 0..Len(l), Place(s, h, l, m), s.fuse = 0
    PROVE  LET t == Scan(s, h, wanted)
               all == UpTo(l, wanted) IN
           \/ t.ent = "end" /\ all[Len(l)] = all[m]
           \/ \E j \in 1..Len(l) : /\ t.ent = l[j] /\ l[j] \in wanted /\ Place(t, h, l, j)
                                   /\ all[j] = Append(all[m], l[j])
<1> DEFINE z == [s EXCEPT !.ent = "none"]
           u == Turns(z, h, wanted)
           n == LastTurn(z, h)
           all == UpTo(l, wanted)
           At(v, j) == v.fuse = 0 /\ v.ent = l[j] /\ Place(v, h, l, j) /\ all[j - 1] = all[m]
           AtEnd(v) == v.ent = "end" /\ all[Len(l)] = all[m]
           R == {k \in 0..n : AtEnd(u[k]) \/ \E j \in 1..Len(l) : At(u[k], j)}
<1>1. /\ z \in Libs /\ z.ent = "none" /\ SameTable(s, z) /\ SameDev(s, z) /\ SameText(s, z) /\ SameShare(s, z)
      /\ z.h = s.h /\ z.err = s.err /\ z.fuse = s.fuse /\ z.trouble = s.trouble
  BY EntSet DEF Entries
<1>2. Scan(s, h, wanted) = u[n]
  BY ScanFromIs DEF Scan
<1> HIDE DEF z
<1>3. /\ n \in Nat /\ u \in [0..n -> Libs] /\ u[0] = NextEntry(z, h, wanted)
      /\ \A k \in 1..n : u[k] = NextEntry(u[k - 1], h, wanted)
  BY <1>1, TurnsAre
<1> HIDE DEF u, n
<1>4. \A i \in 1..Len(l) : all[i] = IF l[i] \in wanted THEN Append(all[i - 1], l[i]) ELSE all[i - 1]
  BY UpToIs
<1> HIDE DEF all
<1>5. Place(z, h, l, m)
  BY <1>1 DEF Place, SameTable, SameDev, SameText
<1>6. ASSUME NEW v \in Libs, NEW j \in 0..Len(l), Place(v, h, l, j), v.fuse = 0, all[j] = all[m]
      PROVE  AtEnd(ReadDir(v, h)) \/ \E i \in 1..Len(l) : At(ReadDir(v, h), i)
  <2> DEFINE t == ReadDir(v, h)
  <2>1. /\ j < Len(l) => t.ent = l[j + 1] /\ j + 1 \in 0..Len(l) /\ Place(t, h, l, j + 1)
        /\ j = Len(l) => t.ent = "end"
    BY <1>6, PlaceRead
  <2>2. Turned(v, t, h)
    BY ReadDirTyped
  <2> HIDE DEF t
  <2>3. t.fuse = 0
    BY <1>6, <2>2 DEF Turned, Stays, Elsewise
  <2>4. Len(l) \in Nat /\ j \in Nat
    OBVIOUS
  <2>5. CASE j < Len(l)
    <3>1. j + 1 \in 1..Len(l) /\ j + 1 - 1 = j
      BY <2>4, <2>5
    <3>2. At(t, j + 1)
      BY <1>6, <2>1, <2>3, <2>5, <3>1
    <3> QED
      BY <3>1, <3>2 DEF t
  <2>6. CASE j = Len(l)
    <3>1. AtEnd(t)
      BY <1>6, <2>1, <2>6
    <3> QED
      BY <3>1 DEF t
  <2> QED
    BY <2>4, <2>5, <2>6
<1>7. 0 \in R
  <2>1. "none" \notin wanted \cup {"end"}
    BY FujiFsAssumption
  <2>2. u[0] = ReadDir(z, h)
    BY <1>1, <1>3, <2>1 DEF NextEntry
  <2>3. AtEnd(ReadDir(z, h)) \/ \E i \in 1..Len(l) : At(ReadDir(z, h), i)
    <3>1. z.fuse = 0
      BY <1>1
    <3> HIDE DEF At, AtEnd
    <3> QED
      BY <1>1, <1>5, <1>6, <3>1
  <2> HIDE DEF At, AtEnd
  <2> QED
    BY <1>3, <2>2, <2>3
<1>8. ASSUME NEW k \in 1..n, k - 1 \in R PROVE k \in R
  <2> DEFINE a == u[k - 1]
  <2>1. k \in 0..n /\ k - 1 \in 0..n /\ a \in Libs /\ u[k] = NextEntry(a, h, wanted)
    BY <1>3
  <2>2. AtEnd(a) \/ \E j \in 1..Len(l) : At(a, j)
    BY <1>8
  <2> HIDE DEF a
  <2>3. CASE a.ent \in wanted \cup {"end"}
    <3>1. u[k] = a
      BY <2>1, <2>3 DEF NextEntry
    <3> HIDE DEF At, AtEnd
    <3> QED
      BY <2>1, <2>2, <3>1
  <2>4. CASE a.ent \notin wanted \cup {"end"}
    <3>1. u[k] = ReadDir(a, h)
      BY <2>1, <2>4 DEF NextEntry
    <3>2. PICK j \in 1..Len(l) : At(a, j)
      BY <2>2, <2>4
    <3>3. l[j] \notin wanted
      BY <2>4, <3>2
    <3>4. all[j] = all[m] /\ j \in 0..Len(l)
      BY <1>4, <3>2, <3>3
    <3>5. Place(a, h, l, j) /\ a.fuse = 0
      BY <3>2
    <3> HIDE DEF At, AtEnd
    <3>6. AtEnd(ReadDir(a, h)) \/ \E i \in 1..Len(l) : At(ReadDir(a, h), i)
      BY <1>6, <2>1, <3>4, <3>5
    <3> QED
      BY <2>1, <3>1, <3>6
  <2> QED
    BY <2>3, <2>4
<1> HIDE DEF R
<1>9. n \in R
  <2>1. \A k \in 0..n : k \in R
    BY <1>3, <1>7, <1>8, UpToN
  <2> QED
    BY <1>3, <2>1
<1> DEFINE t == u[n]
<1>10. t.ent \in wanted \cup {"end"}
  BY <1>2, ScanTyped
<1>11. AtEnd(t) \/ \E j \in 1..Len(l) : At(t, j)
  <2> HIDE DEF At, AtEnd
  <2> QED
    BY <1>9 DEF R
<1> HIDE DEF t
<1>12. Scan(s, h, wanted) = t
  BY <1>2 DEF t
<1>13. CASE AtEnd(t)
  BY <1>12, <1>13 DEF all
<1>14. CASE \E j \in 1..Len(l) : At(t, j)
  <2>1. PICK j \in 1..Len(l) : At(t, j)
    BY <1>14
  <2>2. l[j] \in Names
    OBVIOUS
  <2>3. l[j] # "end"
    BY <2>2, FujiFsAssumption
  <2>4. l[j] \in wanted
    BY <1>10, <2>1, <2>3
  <2>5. all[j] = Append(all[m], l[j])
    BY <1>4, <2>1, <2>4
  <2> QED
    BY <1>12, <2>1, <2>4, <2>5 DEF all
<1> QED
  BY <1>11, <1>13, <1>14

-----------------------------------------------------------------------------
(* fujifs_opendir.                                                         *)

(* What opening the directory d does with a handle h that was free.        *)
DirOpenedAt(s, t, h, d) ==
    /\ t \in Libs /\ t.h = h /\ Elsewise(s, t, {h}) /\ SameShare(s, t)
    /\ t.err \in {"none", "failed"}
    /\ t.err = "none" => t.table[h].open /\ t.table[h].position = 0 /\ t.table[h].length = 0
    /\ t.err = "failed" => ~t.table[h].open
    /\ s.fuse = 0 => t.dev[h] = StreamOf(s, d, "dir") /\ (t.err = "none" <=> Exists(s, d))

(* A handle taken and given back.                                          *)
LEMMA GivenBackFree ==
    ASSUME NEW s \in Libs, NEW t \in Libs, NEW h \in Free(s), Elsewise(s, t, {h}), ~t.table[h].open
    PROVE  Free(t) = Free(s) /\ Elsewise(s, t, Free(s))
BY DEF Free, Elsewise

(* A directory handle that did not open starts over.                       *)
LEMMA RewoundTyped ==
    ASSUME NEW s \in Libs, s.h \in HandleSet
    PROVE  LET t == Rewound(s) IN
           /\ t \in Libs /\ SameDev(s, t) /\ SameShare(s, t)
           /\ t.fuse = s.fuse /\ t.trouble = s.trouble /\ t.h = s.h
           /\ Elsewise(s, t, {s.h}) /\ ~t.table[s.h].open
           /\ t.table[s.h].position = 0 /\ t.table[s.h].length = 0
<1> DEFINE h == s.h
           e == Ennify(s)
           f == Freed(e, h)
           g == [f EXCEPT !.table[h].position = 0]
           t == [g EXCEPT !.table[h].length = 0]
<1>1. /\ e \in Libs /\ SameTable(s, e) /\ SameDev(s, e) /\ SameShare(s, e) /\ e.h = s.h
      /\ e.fuse = s.fuse /\ e.trouble = s.trouble
  BY EnnifyTyped
<1>2. Rewound(s) = t
  BY DEF Rewound
<1> HIDE DEF e
<1>3. /\ f \in Libs /\ ~f.table[h].open
      /\ SameDev(e, f) /\ SameShare(e, f) /\ f.h = e.h
      /\ f.fuse = e.fuse /\ f.trouble = e.trouble /\ Elsewise(e, f, {h})
  BY <1>1, FreedTyped
<1> HIDE DEF f
<1>4. PICK o \in 0..BufSize : o = 0
  BY FujiFsAssumption
<1> DEFINE g2 == [f EXCEPT !.table[h].position = o]
           t2 == [g EXCEPT !.table[h].length = o]
<1>5. g = g2 /\ t = t2
  BY <1>4
<1>6. f \in Libs /\ h \in HandleSet
  BY <1>3
<1>7. /\ g2 \in Libs /\ g2.table[h].position = o /\ g2.table[h].open = f.table[h].open
      /\ SameDev(f, g2) /\ SameShare(f, g2) /\ g2.h = f.h
      /\ g2.fuse = f.fuse /\ g2.trouble = f.trouble /\ Elsewise(f, g2, {h})
  BY <1>6, PositionSet
<1> HIDE DEF g2, g, t
<1>8. g \in Libs
  BY <1>5, <1>7
<1>9. /\ t2 \in Libs /\ t2.table[h].position = g.table[h].position /\ t2.table[h].length = o
      /\ t2.table[h].open = g.table[h].open
      /\ SameDev(g, t2) /\ SameShare(g, t2) /\ t2.h = g.h
      /\ t2.fuse = g.fuse /\ t2.trouble = g.trouble /\ Elsewise(g, t2, {h})
  BY <1>6, <1>8, LengthSet
<1> HIDE DEF t2
<1>10. /\ t \in Libs /\ SameDev(s, t) /\ SameShare(s, t)
       /\ t.fuse = s.fuse /\ t.trouble = s.trouble /\ t.h = s.h
       /\ Elsewise(s, t, {h}) /\ ~t.table[h].open /\ t.table[h].position = 0 /\ t.table[h].length = 0
  BY <1>1, <1>3, <1>4, <1>5, <1>7, <1>9 DEF SameTable, SameDev, SameShare, Elsewise
<1> QED
  BY <1>2, <1>10

(* fujifs_opendir: no handle, or one that was free, at the start of the listing. *)
LEMMA OpenDirTyped ==
    ASSUME NEW s \in Libs, NEW owner \in 0..Total, NEW d \in Objects
    PROVE  LET t == OpenDir(s, owner, d)
               h == Lowest(Free(s)) IN
           /\ h = 0 => /\ t \in Libs /\ t.err = "no_device" /\ t.h = 0 /\ Untouched(s, t)
                       /\ t.fuse = s.fuse /\ t.trouble = s.trouble
           /\ h # 0 => h \in Free(s) /\ h \in HandleSet /\ DirOpenedAt(s, t, h, d)
<1> DEFINE h == Lowest(Free(s))
           f == FindHandle(s)
           r == Rewound(f)
           t == Open(r, owner, d, "dir", TRUE)
<1>0. OpenDir(s, owner, d) = OpenDirOn(f, owner, d) /\ h = Lowest(Free(s))
  BY DEF OpenDir
<1>1. /\ f \in Libs /\ f.h = h /\ h \in {0} \cup Free(s) /\ f.err = "none"
      /\ SameDev(s, f) /\ SameShare(s, f) /\ f.fuse = s.fuse /\ f.trouble = s.trouble
      /\ h = 0 => SameTable(s, f)
      /\ h # 0 => Elsewise(s, f, {h})
  BY FindHandleIs
<1> HIDE DEF f, h
<1>2. CASE h = 0
  <2> DEFINE w == Failing(f, "no_device")
  <2>1. OpenDirOn(f, owner, d) = w
    BY <1>1, <1>2 DEF OpenDirOn
  <2>2. /\ w \in Libs /\ w.err = "no_device"
        /\ SameTable(f, w) /\ SameDev(f, w) /\ SameShare(f, w) /\ w.h = f.h
        /\ w.fuse = f.fuse /\ w.trouble = f.trouble
    BY <1>1, ScratchSet DEF Errors
  <2> HIDE DEF w
  <2>3. Untouched(s, w)
    BY <1>1, <1>2, <2>2 DEF Untouched, SameTable, SameDev, SameShare
  <2> QED
    BY <1>0, <1>1, <1>2, <2>1, <2>2, <2>3
<1>3. CASE h # 0
  <2>1. h \in Free(s) /\ h \in HandleSet /\ f.h \in HandleSet
    BY <1>1, <1>3 DEF Free
  <2>2. OpenDirOn(f, owner, d) = t
    BY <1>1, <1>3 DEF OpenDirOn
  <2>3. /\ r \in Libs /\ SameDev(f, r) /\ SameShare(f, r)
        /\ r.fuse = f.fuse /\ r.trouble = f.trouble
        /\ Elsewise(f, r, {f.h}) /\ ~r.table[f.h].open
        /\ r.table[f.h].position = 0 /\ r.table[f.h].length = 0
    BY <1>1, <2>1, RewoundTyped
  <2> HIDE DEF r
  <2>4. /\ SameDev(s, r) /\ SameShare(s, r) /\ r.fuse = s.fuse /\ r.trouble = s.trouble
        /\ Elsewise(s, r, {h}) /\ ~r.table[h].open /\ r.table[h].position = 0 /\ r.table[h].length = 0
    BY <1>1, <1>3, <2>3 DEF SameDev, SameShare, Elsewise
  <2>5. Free(r) = Free(s)
    BY <2>1, <2>3, <2>4, GivenBackFree
  <2>6. h = Lowest(Free(r))
    BY <2>5 DEF h
  <2>7. Openable(d, "dir")
    BY DEF Openable
  <2>8. OpenedAt(r, t, h, d, "dir") /\ t.err # "service"
    BY <1>3, <2>3, <2>6, <2>7, OpenTyped
  <2> HIDE DEF t
  <2>9. /\ t \in Libs /\ t.h = h /\ Elsewise(r, t, {h}) /\ SameShare(r, t) /\ t.err \in {"none", "failed"}
        /\ t.err = "none" => t.table[h].open /\ t.table[h].position = 0 /\ t.table[h].length = 0
        /\ t.err = "failed" => ~t.table[h].open
    BY <2>4, <2>8 DEF OpenedAt
  <2>10. Elsewise(s, t, {h}) /\ SameShare(s, t)
    BY <2>4, <2>9 DEF Elsewise, SameShare
  <2>11. ASSUME s.fuse = 0 PROVE t.dev[h] = StreamOf(s, d, "dir") /\ (t.err = "none" <=> Exists(s, d))
    <3>1. Made(r, d, "dir") = r
      BY DEF Made
    <3>2. t.dev[h] = StreamOf(r, d, "dir") /\ (t.err = "failed" <=> ~Exists(r, d))
      BY <2>4, <2>8, <2>11, <3>1 DEF OpenedAt
    <3>3. StreamOf(r, d, "dir") = StreamOf(s, d, "dir") /\ Exists(s, d) = Exists(r, d)
      BY <2>3, <2>4, StreamSame
    <3> QED
      BY <2>9, <3>2, <3>3
  <2>12. DirOpenedAt(s, t, h, d)
    BY <2>9, <2>10, <2>11 DEF DirOpenedAt
  <2> QED
    BY <1>0, <1>3, <2>1, <2>2, <2>12
<1> QED
  BY <1>2, <1>3

(* A directory just opened is at the beginning of its listing.             *)
LEMMA OpenedPlace ==
    ASSUME NEW s \in Libs, NEW t, NEW h \in HandleSet, NEW d \in Objects,
           DirOpenedAt(s, t, h, d), t.err = "none", s.fuse = 0
    PROVE  Place(t, h, Listing(s, d), 0) /\ t.fuse = 0 /\ t.dev[h].kind = "dir" /\ t.dev[h].obj = d
<1> DEFINE l == Listing(s, d)
<1>1. t.table[h].open /\ t.table[h].position = 0 /\ t.table[h].length = 0 /\ t.fuse = 0
  BY DEF DirOpenedAt, Elsewise
<1>2. t.dev[h] = StreamOf(s, d, "dir") /\ Exists(s, d)
  BY DEF DirOpenedAt
<1>3. Openable(d, "dir")
  BY DEF Openable
<1>4. StreamOf(s, d, "dir") = [kind |-> "dir", obj |-> d, text |-> TextOf(l), at |-> 0]
  BY <1>2, <1>3, StreamTyped
<1> HIDE DEF l
<1>5. t.dev[h].kind = "dir" /\ t.dev[h].obj = d /\ t.dev[h].text = TextOf(l) /\ t.dev[h].at = 0
  BY <1>2, <1>4
<1> QED
  BY <1>1, <1>5 DEF Place, l

-----------------------------------------------------------------------------
(* fujifs_stat.                                                            *)

(* What is in a list and wanted is found in it.                            *)
LEMMA MatchingHas ==
    ASSUME NEW T, NEW l \in Seq(T), NEW S, NEW k \in 1..Len(l), l[k] \in S
    PROVE  \E j \in 1..Len(UpTo(l, S)[Len(l)]) : UpTo(l, S)[Len(l)][j] = l[k]
<1> DEFINE u == UpTo(l, S)
           R == {i \in 0..Len(l) : k <= i => \E j \in 1..Len(u[i]) : u[i][j] = l[k]}
<1>1. /\ u \in [0..Len(l) -> Seq(T)] /\ u[0] = << >>
      /\ \A i \in 1..Len(l) : u[i] = IF l[i] \in S THEN Append(u[i - 1], l[i]) ELSE u[i - 1]
  BY UpToIs
<1> HIDE DEF u
<1>2. Len(l) \in Nat /\ 0 \in R
  OBVIOUS
<1>3. ASSUME NEW i \in 1..Len(l), i - 1 \in R PROVE i \in R
  <2>0. i \in Nat /\ i - 1 \in 0..Len(l) /\ i \in 0..Len(l)
    BY <1>2, <1>3
  <2>1. u[i - 1] \in Seq(T)
    BY <1>1, <2>0
  <2>2. PICK v \in Seq(T) : v = u[i - 1]
    BY <2>1
  <2>3. l[i] \in T
    OBVIOUS
  <2>4. Append(v, l[i]) \in Seq(T) /\ Len(Append(v, l[i])) = Len(v) + 1 /\ Len(v) \in Nat
        /\ Append(v, l[i])[Len(v) + 1] = l[i]
        /\ \A j \in 1..Len(v) : Append(v, l[i])[j] = v[j]
    BY <2>3
  <2>5. CASE k = i
    <3>1. u[i] = Append(v, l[i])
      BY <1>1, <2>2, <2>5
    <3>2. Len(v) + 1 \in 1..Len(u[i]) /\ u[i][Len(v) + 1] = l[k]
      BY <2>4, <2>5, <3>1
    <3> QED
      BY <2>0, <3>2
  <2>6. CASE k # i
    <3>1. SUFFICES ASSUME k <= i PROVE \E j \in 1..Len(u[i]) : u[i][j] = l[k]
      BY <2>0
    <3>2. k <= i - 1
      BY <2>0, <2>6, <3>1
    <3>3. PICK j \in 1..Len(v) : v[j] = l[k]
      BY <1>3, <2>2, <3>2
    <3>4. u[i] = v \/ u[i] = Append(v, l[i])
      BY <1>1, <2>2
    <3>5. CASE u[i] = v
      BY <3>3, <3>5
    <3>6. CASE u[i] = Append(v, l[i])
      <4>1. j \in 1..Len(u[i]) /\ u[i][j] = l[k]
        BY <2>4, <3>3, <3>6
      <4> QED
        BY <4>1
    <3> QED
      BY <3>4, <3>5, <3>6
  <2> QED
    BY <2>5, <2>6
<1> HIDE DEF R
<1>4. \A i \in 0..Len(l) : i \in R
  BY <1>2, <1>3, UpToN
<1>5. Len(l) \in R
  BY <1>2, <1>4
<1> QED
  BY <1>5 DEF R, u

(* A name that is on the share stands in the listing of its directory.     *)
LEMMA ListingHas ==
    ASSUME NEW s \in Libs, NEW n \in s.exist
    PROVE  LET l == Listing(s, Parent[n]) IN \E j \in 1..Len(l) : l[j] = n
<1> DEFINE S == {x \in s.exist : Parent[x] = Parent[n]}
<1>1. n \in Names /\ n \in S
  BY DEF Libs
<1>2. Order \in Seq(Names)
  BY FujiFsAssumption
<1>3. PICK k \in 1..Len(Order) : Order[k] = n
  BY <1>1, <1>2 DEF Names
<1>4. Listing(s, Parent[n]) = UpTo(Order, S)[Len(Order)]
  BY MatchingIs DEF Listing
<1> HIDE DEF S
<1>5. \E j \in 1..Len(UpTo(Order, S)[Len(Order)]) : UpTo(Order, S)[Len(Order)][j] = Order[k]
  BY <1>1, <1>2, <1>3, MatchingHas
<1> QED
  BY <1>3, <1>4, <1>5

(* A use of the library by one caller: it takes no handle that is not free *)
(* at c, and leaves the others as they are.                                *)
Within(c, s) == s \in Libs /\ Elsewise(c, s, Free(c))

(* What has been taken was free.                                           *)
LEMMA WithinFree ==
    ASSUME NEW c \in Libs, NEW s, Within(c, s)
    PROVE  Free(s) \subseteq Free(c)
BY DEF Within, Free, Elsewise

(* One more step on handles that were free stays within them.              *)
LEMMA WithinOn ==
    ASSUME NEW c \in Libs, NEW s, Within(c, s), NEW t \in Libs, NEW H \in SUBSET Free(c), Elsewise(s, t, H)
    PROVE  Within(c, t)
BY DEF Within, Elsewise

(* Nothing taken yet.                                                      *)
LEMMA WithinSelf ==
    ASSUME NEW c \in Libs
    PROVE  Within(c, c)
BY DEF Within, Elsewise

(* Borrowed handles are given back.                                        *)
Borrowed(s, t) == Within(s, t) /\ Free(t) = Free(s) /\ SameShare(s, t)

(* A step that leaves handles, streams and share alone.                    *)
LEMMA BorrowedSame ==
    ASSUME NEW s \in Libs, NEW t \in Libs, SameTable(s, t), SameDev(s, t), SameShare(s, t), s.fuse = 0 => t.fuse = 0
    PROVE  Borrowed(s, t)
BY DEF Borrowed, Within, SameTable, SameDev, Elsewise, Free

(* Two such calls are one.                                                 *)
LEMMA BorrowedOn ==
    ASSUME NEW s \in Libs, NEW t, NEW u, Borrowed(s, t), Borrowed(t, u)
    PROVE  Borrowed(s, u)
BY DEF Borrowed, Within, Elsewise, SameShare

(* A handle of the caller's is closed again.                               *)
LEMMA BorrowedBack ==
    ASSUME NEW s \in Libs, NEW h \in Free(s), NEW t \in Libs, Elsewise(s, t, {h}), SameShare(s, t), ~t.table[h].open
    PROVE  Borrowed(s, t)
BY GivenBackFree DEF Borrowed, Within


(* What fujifs_stat does with a directory once it is open: it is read up   *)
(* to the name, and closed.                                                *)
LEMMA StatInTyped ==
    ASSUME NEW s \in Libs, NEW h \in Free(s), NEW o, NEW d \in Objects, NEW n \in Names, DirOpenedAt(s, o, h, d)
    PROVE  Borrowed(s, StatIn(o, n))
<1>1. o \in Libs /\ o.h = h /\ Elsewise(s, o, {h}) /\ SameShare(s, o) /\ h \in HandleSet
      /\ o.err \in {"none", "failed"} /\ (o.err = "failed" => ~o.table[h].open)
      /\ (o.err = "none" => o.table[h].open)
  BY DEF DirOpenedAt, Free
<1>2. CASE o.err # "none"
  <2> DEFINE w == Failing(o, "service")
  <2>1. StatIn(o, n) = w
    BY <1>2 DEF StatIn
  <2>2. /\ w \in Libs /\ SameTable(o, w) /\ SameDev(o, w) /\ SameShare(o, w)
        /\ w.fuse = o.fuse /\ w.trouble = o.trouble
    BY <1>1, ScratchSet DEF Errors
  <2> HIDE DEF w
  <2>3. Borrowed(s, o)
    BY <1>1, <1>2, BorrowedBack
  <2>4. Borrowed(o, w)
    BY <1>1, <2>2, BorrowedSame
  <2> QED
    BY <2>1, <2>3, <2>4, BorrowedOn
<1>3. CASE o.err = "none"
  <2> DEFINE r == Scan(o, h, {n})
             c == Close(r, h)
             e == IF r.ent = n THEN "none" ELSE "not_found"
             w == Failing(c, e)
  <2>1. StatIn(o, n) = w
    BY <1>1, <1>3 DEF StatIn, Looked
  <2>2. {n} \in SUBSET (Names \cup {"junk"})
    OBVIOUS
  <2>3. Stays(o, r, h)
    BY <1>1, <2>2, ScanTyped DEF Turned
  <2>4. r \in Libs /\ SameShare(o, r) /\ Elsewise(o, r, {h}) /\ r.table[h].open
    BY <1>1, <1>3, <2>3 DEF Stays
  <2>5. e \in Errors
    BY DEF Errors
  <2> HIDE DEF r, e
  <2>6. IsOpen(r, h)
    BY <1>1, <2>4 DEF IsOpen
  <2>7. c \in Libs /\ SameShare(r, c) /\ (r.fuse = 0 => c.fuse = 0) /\ Elsewise(r, c, {h}) /\ ~c.table[h].open
    BY <2>4, <2>6, CloseTyped
  <2> HIDE DEF c
  <2>8. w \in Libs /\ SameTable(c, w) /\ SameDev(c, w) /\ SameShare(c, w) /\ w.fuse = c.fuse /\ w.trouble = c.trouble
    BY <2>5, <2>7, ScratchSet
  <2> HIDE DEF w
  <2>9. Elsewise(s, w, {h}) /\ SameShare(s, w) /\ ~w.table[h].open
    BY <1>1, <2>4, <2>7, <2>8 DEF Elsewise, SameShare, SameTable, SameDev
  <2> QED
    BY <2>1, <2>8, <2>9, BorrowedBack
<1> QED
  BY <1>2, <1>3

(* In good times it finds the name if it is there.                         *)
LEMMA StatInFinds ==
    ASSUME BufSize >= 2, NEW s \in Libs, NEW h \in Free(s), NEW o, NEW n \in s.exist,
           DirOpenedAt(s, o, h, Parent[n]), s.fuse = 0, Exists(s, Parent[n])
    PROVE  StatIn(o, n).err = "none"
<1>0. n \in Names /\ Parent[n] \in Objects
  BY FujiFsAssumption DEF Libs, Objects
<1>1. o \in Libs /\ o.h = h /\ h \in HandleSet /\ o.err = "none"
  BY DEF DirOpenedAt, Free
<1> DEFINE l == Listing(s, Parent[n])
           r == Scan(o, h, {n})
           all == UpTo(l, {n})
<1>2. l \in Seq(Names)
  BY ListingTyped
<1>3. Place(o, h, l, 0) /\ o.fuse = 0
  BY <1>0, <1>1, OpenedPlace
<1>4. \E j \in 1..Len(l) : l[j] = n
  BY ListingHas
<1>5. StatIn(o, n) = Failing(Close(r, h), IF r.ent = n THEN "none" ELSE "not_found")
  BY <1>1 DEF StatIn, Looked
<1> HIDE DEF l
<1>6. 0 \in 0..Len(l) /\ {n} \in SUBSET (Names \cup {"junk"})
  BY <1>0, <1>2
<1>7. \/ r.ent = "end" /\ all[Len(l)] = all[0]
      \/ \E j \in 1..Len(l) : r.ent = l[j] /\ l[j] \in {n}
  <2>1. \A m \in 0..Len(l) : Place(o, h, l, m) =>
           (\/ r.ent = "end" /\ all[Len(l)] = all[m]
            \/ \E j \in 1..Len(l) : r.ent = l[j] /\ l[j] \in {n})
    BY <1>1, <1>2, <1>3, <1>6, PlaceScan
  <2> QED
    BY <1>3, <1>6, <2>1
<1>8. all[0] = << >>
  BY <1>2, UpToIs
<1>9. all[Len(l)] # << >>
  <2>1. PICK k \in 1..Len(l) : l[k] = n
    BY <1>4
  <2> DEFINE only == {n}
  <2>0. l[k] \in only
    BY <2>1
  <2> HIDE DEF only
  <2>2. \E j \in 1..Len(UpTo(l, only)[Len(l)]) : UpTo(l, only)[Len(l)][j] = l[k]
    BY <1>2, <2>0, MatchingHas
  <2> USE DEF only
  <2> QED
    BY <2>2
<1>10. r.ent = n
  BY <1>7, <1>8, <1>9
<1> HIDE DEF r
<1> QED
  BY <1>5, <1>10 DEF Failing

(* fujifs_stat borrows a handle and leaves the share alone; an entry that  *)
(* is there is found if a handle is free and the call meets no trouble.    *)
LEMMA StatTyped ==
    ASSUME NEW s \in Libs, NEW owner \in 0..Total, NEW n \in Names
    PROVE  /\ Borrowed(s, Stat(s, owner, n))
           /\ BufSize >= 2 /\ s.fuse = 0 /\ n \in s.exist /\ Exists(s, Parent[n]) /\ Free(s) # {} =>
                 Stat(s, owner, n).err = "none"
<1> DEFINE h == Lowest(Free(s))
           f == FindHandle(s)
<1>0. Stat(s, owner, n) = StatOn(f, owner, n) /\ Parent[n] \in Objects
  BY FujiFsAssumption DEF Stat, Objects
<1>1. /\ f \in Libs /\ f.h = h /\ h \in {0} \cup Free(s) /\ f.err = "none"
      /\ SameDev(s, f) /\ SameShare(s, f) /\ f.fuse = s.fuse /\ f.trouble = s.trouble
      /\ h = 0 => SameTable(s, f)
      /\ h # 0 => Elsewise(s, f, {h})
  BY FindHandleIs
<1>2. Free(s) = {} <=> h = 0
  BY LowestIs
<1> HIDE DEF f
<1>3. CASE h = 0
  <2> DEFINE w == Failing(f, "no_device")
  <2>1. StatOn(f, owner, n) = w
    BY <1>1, <1>3 DEF StatOn
  <2>2. /\ w \in Libs /\ SameTable(f, w) /\ SameDev(f, w) /\ SameShare(f, w)
        /\ w.fuse = f.fuse /\ w.trouble = f.trouble
    BY <1>1, ScratchSet DEF Errors
  <2> HIDE DEF w
  <2>3. SameTable(s, w) /\ SameDev(s, w) /\ SameShare(s, w)
    BY <1>1, <1>3, <2>2 DEF SameTable, SameDev, SameShare
  <2>4. Borrowed(s, w)
    BY <1>1, <2>2, <2>3, BorrowedSame
  <2> QED
    BY <1>0, <1>2, <1>3, <2>1, <2>4
<1>4. CASE h # 0
  <2> DEFINE e == Ennify(f)
             b == Freed(e, h)
             o == OpenDir(b, owner, Parent[n])
  <2>1. h \in Free(s) /\ h \in HandleSet /\ h # 0
    BY <1>1, <1>4 DEF Free
  <2> HIDE DEF h
  <2>2. StatOn(f, owner, n) = StatIn(o, n)
    BY <1>1, <2>1 DEF StatOn
  <2>3. /\ e \in Libs /\ SameTable(f, e) /\ SameDev(f, e) /\ SameShare(f, e)
        /\ e.fuse = f.fuse /\ e.trouble = f.trouble
    BY <1>1, EnnifyTyped
  <2> HIDE DEF e
  <2>4. /\ b \in Libs /\ ~b.table[h].open /\ SameDev(e, b) /\ SameShare(e, b)
        /\ b.fuse = e.fuse /\ b.trouble = e.trouble
        /\ Elsewise(e, b, {h})
    BY <2>1, <2>3, FreedTyped
  <2> HIDE DEF b
  <2>5. /\ Elsewise(s, b, {h}) /\ SameShare(s, b) /\ b.fuse = s.fuse /\ b.trouble = s.trouble
    BY <1>1, <2>1, <2>3, <2>4 DEF SameTable, SameDev, SameShare, Elsewise
  <2>6. Borrowed(s, b) /\ Free(b) = Free(s)
    BY <2>1, <2>4, <2>5, BorrowedBack DEF Borrowed
  <2>7. Lowest(Free(b)) = h /\ h \in Free(b)
    BY <2>1, <2>6 DEF h
  <2>8. DirOpenedAt(b, o, h, Parent[n])
    BY <1>0, <2>1, <2>4, <2>7, OpenDirTyped
  <2> HIDE DEF o
  <2>9. Borrowed(b, StatIn(o, n))
    BY <1>0, <2>4, <2>7, <2>8, StatInTyped
  <2>10. Borrowed(s, StatIn(o, n))
    BY <2>6, <2>9, BorrowedOn
  <2>11. ASSUME BufSize >= 2, s.fuse = 0, n \in s.exist, Exists(s, Parent[n]) PROVE StatIn(o, n).err = "none"
    <3>1. b.fuse = 0 /\ n \in b.exist /\ Exists(b, Parent[n])
      BY <2>5, <2>11 DEF SameShare, Exists
    <3> QED
      BY <2>4, <2>7, <2>8, <2>11, <3>1, StatInFinds
  <2> QED
    BY <1>0, <2>2, <2>10, <2>11
<1> QED
  BY <1>3, <1>4

-----------------------------------------------------------------------------
(* fujifs_path_operation, fujifs_chdir and fujifs_open_url.                *)

(* The device of the host is asked; no handle and no stream changes, nor   *)
(* the size of a file.                                                     *)
LEMMA PathOperationTyped ==
    ASSUME NEW s \in Libs, NEW h \in HandleSet, NEW op, NEW n
    PROVE  LET t == PathOperation(s, h, op, n) IN
           /\ t \in Libs /\ SameTable(s, t) /\ SameDev(s, t) /\ t.size = s.size /\ t.h = s.h
           /\ s.fuse = 0 => t.fuse = 0
           /\ op = "chdir" => SameShare(s, t)
<1> DEFINE e == Ennify(s)
           ok == PathAllowed(s, op, n)
           w == IF ok THEN PathDone(e, op, n) ELSE e
           c == Called(e, w)
           x == OperationError(e, c, h, ok)
           u == Status(c, h, x)
           good == u.status.err = "eof" /\ u.status.len = 0
           v == IF good THEN "ok" ELSE u.status.err
           z == IF good \/ u.status.err = "ok" THEN "none" ELSE "failed"
           a == [u EXCEPT !.status.err = v]
           t == [a EXCEPT !.err = z]
<1>1. PathOperation(s, h, op, n) = t
  <2>1. PathOperation(s, h, op, n) = Reported(u)
    BY DEF PathOperation, Operated, Told
  <2> HIDE DEF u
  <2>2. Reported(u) = t
    BY DEF Reported
  <2> QED
    BY <2>1, <2>2
<1>2. /\ e \in Libs /\ SameTable(s, e) /\ SameDev(s, e) /\ SameShare(s, e) /\ e.h = s.h
      /\ e.fuse = s.fuse /\ e.trouble = s.trouble
  BY EnnifyTyped
<1> HIDE DEF e
<1>3. /\ w \in Libs /\ SameTable(e, w) /\ SameDev(e, w) /\ w.size = e.size /\ w.h = e.h
      /\ w.fuse = e.fuse /\ w.trouble = e.trouble
      /\ op = "chdir" => w = e
  <2>1. CASE ~ok \/ op \notin {"mkdir", "rmdir", "delete"}
    <3>1. w = e
      BY <2>1 DEF PathDone
    <3> QED
      BY <1>2, <3>1 DEF SameTable, SameDev
  <2>2. CASE ok /\ op \in {"mkdir", "rmdir", "delete"}
    <3> DEFINE y == IF op = "mkdir" THEN e.exist \cup {n} ELSE e.exist \ {n}
               k == [e EXCEPT !.exist = y]
    <3>1. y \in SUBSET Names
      <4>1. op = "mkdir" => n \in Names
        BY <2>2, FujiFsAssumption DEF PathAllowed
      <4>2. e.exist \in SUBSET Names
        BY <1>2 DEF Libs
      <4> QED
        BY <4>1, <4>2
    <3>2. w = k
      BY <2>2 DEF PathDone
    <3> HIDE DEF y, w
    <3>3. k \in Libs
      BY <1>2, <3>1, FieldSet
    <3>4. SameTable(e, k) /\ SameDev(e, k) /\ k.size = e.size /\ k.h = e.h /\ k.fuse = e.fuse /\ k.trouble = e.trouble
      BY <1>2 DEF Libs, SameTable, SameDev
    <3> QED
      BY <2>2, <3>2, <3>3, <3>4
  <2> QED
    BY <2>1, <2>2
<1> HIDE DEF w
<1>4. c \in Libs
  BY <1>2, <1>3, CalledTyped
<1>5. PICK b \in {e, w} : SameFields(b, c) /\ (e.fuse = 0 => c.fuse = 0)
  BY <1>2, <1>3, CalledIs
<1>6. /\ SameTable(e, c) /\ SameDev(e, c) /\ c.size = e.size /\ c.h = e.h
      /\ op = "chdir" => SameShare(e, c)
  <2>1. CASE b = e
    BY <1>5, <2>1 DEF SameFields, SameTable, SameDev, SameShare
  <2>2. CASE b = w
    BY <1>3, <1>5, <2>2 DEF SameFields, SameTable, SameDev, SameShare
  <2> QED
    BY <2>1, <2>2
<1>7. x \in {"ok", "eof", "failed"}
  <2>1. StreamError(c, h) \in {"ok", "eof", "failed"}
    BY DEF StreamError
  <2> HIDE DEF c, ok
  <2> QED
    BY <2>1 DEF OperationError
<1> HIDE DEF c, x
<1>8. /\ u \in Libs /\ SameTable(c, u) /\ SameDev(c, u) /\ SameShare(c, u) /\ u.h = c.h
      /\ c.fuse = 0 => u.fuse = 0
  BY <1>4, <1>7, StatusTyped
<1> HIDE DEF u
<1>9. v \in {"ok", "eof", "failed"} /\ z \in Errors /\ u.status \in Statuses
  BY <1>8 DEF Libs, Statuses, Errors
<1> HIDE DEF good, v, z
<1> DEFINE st == [u.status EXCEPT !.err = v]
           a2 == [u EXCEPT !.status = st]
<1>10. st \in Statuses
  BY <1>9 DEF Statuses
<1>11. a = a2
  OBVIOUS
<1> HIDE DEF st, a
<1>12. a2 \in Libs
  BY <1>8, <1>10, FieldSet
<1>13. SameTable(u, a2) /\ SameDev(u, a2) /\ SameShare(u, a2) /\ a2.h = u.h /\ a2.fuse = u.fuse /\ a2.trouble = u.trouble
  BY <1>8 DEF Libs, SameTable, SameDev, SameShare
<1> HIDE DEF a2, t
<1>14. t = Failing(a2, z)
  BY <1>11 DEF Failing, t
<1>15. /\ t \in Libs /\ SameTable(a2, t) /\ SameDev(a2, t) /\ SameShare(a2, t) /\ t.h = a2.h
       /\ t.fuse = a2.fuse /\ t.trouble = a2.trouble
  BY <1>9, <1>12, <1>14, ScratchSet
<1>16. /\ t \in Libs /\ SameTable(s, t) /\ SameDev(s, t) /\ t.size = s.size /\ t.h = s.h
       /\ s.fuse = 0 => t.fuse = 0
       /\ op = "chdir" => SameShare(s, t)
  BY <1>2, <1>5, <1>6, <1>8, <1>13, <1>15 DEF SameTable, SameDev, SameShare
<1> QED
  BY <1>1, <1>16


(* The working directory is everybody's: only the parents noted in the     *)
(* table change.                                                           *)
LEMMA ChDirTyped ==
    ASSUME NEW s \in Libs, NEW h \in HandleSet, NEW d
    PROVE  LET t == ChDir(s, h, d) IN
           /\ t \in Libs /\ SameDev(s, t) /\ SameShare(s, t) /\ t.h = s.h /\ (s.fuse = 0 => t.fuse = 0)
           /\ \A x \in HandleSet : t.table[x].open = s.table[x].open
<1> DEFINE p == PathOperation(s, h, "chdir", d)
           f == [x \in HandleSet |-> [p.table[x] EXCEPT !.parent = IF x = h THEN h ELSE IF @ = h THEN 0 ELSE @]]
           t == [p EXCEPT !.table = f]
<1>1. ChDir(s, h, d) = t
  BY DEF ChDir, Outdated
<1>2. p \in Libs /\ SameTable(s, p) /\ SameDev(s, p) /\ SameShare(s, p) /\ p.h = s.h /\ (s.fuse = 0 => p.fuse = 0)
  BY PathOperationTyped
<1> HIDE DEF p
<1>3. ASSUME NEW x \in HandleSet PROVE f[x] \in Handles /\ f[x].open = p.table[x].open
  <2> DEFINE e == p.table[x]
             q == IF x = h THEN h ELSE IF e.parent = h THEN 0 ELSE e.parent
  <2>1. e \in Handles
    BY <1>2 DEF Libs
  <2>2. f[x] = [e EXCEPT !.parent = q]
    OBVIOUS
  <2> HIDE DEF e
  <2>3. q \in 0..Total
    BY <2>1, FujiFsAssumption DEF Handles, HandleSet
  <2> HIDE DEF q, f
  <2> QED
    BY <2>1, <2>2, <2>3, EntrySet DEF e
<1>4. f \in [HandleSet -> Handles]
  BY <1>3
<1> HIDE DEF f
<1>5. t \in Libs
  BY <1>2, <1>4, FieldSet
<1>6. SameDev(p, t) /\ SameShare(p, t) /\ t.h = p.h /\ t.fuse = p.fuse /\ t.trouble = p.trouble /\ t.table = f
  BY <1>2 DEF Libs, SameDev, SameShare
<1> HIDE DEF t
<1> QED
  BY <1>1, <1>2, <1>3, <1>5, <1>6 DEF SameDev, SameShare, SameTable

(* Without a free handle nothing is opened.                                *)
NoneOpened(s, t) == t \in Libs /\ t.err = "no_device" /\ SameShare(s, t) /\ SameTable(s, t) /\ t.fuse = s.fuse /\ t.trouble = s.trouble

(* No handle is left.                                                      *)
LEMMA OpenNone ==
    ASSUME NEW s \in Libs, NEW owner, NEW n, NEW mode, NEW fq, Lowest(Free(s)) = 0
    PROVE  NoneOpened(s, Open(s, owner, n, mode, fq))
<1> DEFINE f == FindHandle(s)
           w == Failing(f, "no_device")
<1>1. f \in Libs /\ f.h = 0 /\ SameShare(s, f) /\ SameTable(s, f) /\ f.fuse = s.fuse /\ f.trouble = s.trouble
  BY FindHandleIs
<1>2. Open(s, owner, n, mode, fq) = w
  BY <1>1 DEF Open, OpenOn
<1> HIDE DEF f
<1>3. w \in Libs /\ w.err = "no_device" /\ SameShare(f, w) /\ SameTable(f, w) /\ w.fuse = f.fuse /\ w.trouble = f.trouble
  BY <1>1, ScratchSet DEF Errors
<1> QED
  BY <1>1, <1>2, <1>3 DEF SameShare, SameTable, NoneOpened

(* Of the handles that were free, one that has been opened is taken, and   *)
(* none by an attempt that failed.                                         *)
OneOpened(s, t) ==
    IF t.err = "none" THEN Free(s) \subseteq Free(t) \cup {t.h} ELSE Free(s) \subseteq Free(t)

(* What was opened is closed again.                                        *)
LEMMA OneClosed ==
    ASSUME NEW s, NEW t \in Libs, OneOpened(s, t), t.err = "none", t.h \in HandleSet
    PROVE  Free(s) \subseteq Free(Close(t, t.h))
<1> DEFINE h == t.h
           c == Close(t, h)
<1>1. c \in Libs /\ IF IsOpen(t, h) THEN Elsewise(t, c, {h}) /\ ~c.table[h].open ELSE SameTable(t, c)
  BY CloseTyped DEF Untouched
<1>2. h \in HandleSet /\ Free(s) \subseteq Free(t) \cup {h}
  BY DEF OneOpened
<1> SUFFICES Free(s) \subseteq Free(c)
  OBVIOUS
<1> HIDE DEF c, h
<1>3. CASE IsOpen(t, h)
  BY <1>1, <1>2, <1>3 DEF Free, Elsewise
<1>4. CASE ~IsOpen(t, h)
  BY <1>1, <1>2, <1>4 DEF Free, IsOpen, SameTable
<1> QED
  BY <1>3, <1>4

(* fujifs_open_url: a handle for the host, which streams nothing the share *)
(* could lose.                                                             *)
LEMMA OpenUrlTyped ==
    ASSUME NEW s \in Libs, NEW user \in BOOLEAN
    PROVE  LET t == OpenUrl(s, user) IN
           /\ t \in Libs /\ SameShare(s, t) /\ (s.fuse = 0 => t.fuse = 0)
           /\ t.err = "none" => t.h \in HandleSet
           /\ OneOpened(s, t)
<1> DEFINE f == FindHandle(s)
           h == f.h
           v == f.table[h].user \/ user
           a == [f EXCEPT !.table[h].user = v]
           b == Credentials(a)
           c == Freed(b, h)
           o == Open(c, 0, Root, "dir", TRUE)
<1>1. /\ f \in Libs /\ h \in {0} \cup Free(s) /\ SameShare(s, f)
      /\ f.fuse = s.fuse /\ f.trouble = s.trouble
      /\ IF h = 0 THEN SameTable(s, f) ELSE Elsewise(s, f, {h})
  BY FindHandleIs
<1>2. OpenUrl(s, user) = OpenUrlOn(f, user)
  BY DEF OpenUrl
<1> HIDE DEF f
<1>3. CASE h = 0
  <2> DEFINE w == Failing(f, "no_device")
  <2>1. OpenUrlOn(f, user) = w
    BY <1>3 DEF OpenUrlOn
  <2>2. w \in Libs /\ w.err = "no_device" /\ SameShare(f, w) /\ SameTable(f, w) /\ w.fuse = f.fuse /\ w.trouble = f.trouble
    BY <1>1, ScratchSet DEF Errors
  <2> HIDE DEF w
  <2>3. SameShare(s, w) /\ OneOpened(s, w)
    BY <1>1, <1>3, <2>2 DEF SameShare, SameTable, Free, OneOpened
  <2> QED
    BY <1>1, <1>2, <2>1, <2>2, <2>3
<1>4. CASE h # 0
  <2>1. h \in HandleSet
    BY <1>1, <1>4 DEF Free
  <2>2. OpenUrlOn(f, user) = Entered(o)
    BY <1>4 DEF OpenUrlOn
  <2>3. a \in Libs /\ SameShare(f, a) /\ a.fuse = f.fuse /\ a.trouble = f.trouble /\ Elsewise(f, a, {h})
    <3> DEFINE q == f.table[h]
               e == [q EXCEPT !.user = v]
               a2 == [f EXCEPT !.table[h] = e]
    <3>1. q \in Handles
      BY <1>1, <2>1 DEF Libs
    <3>2. v \in BOOLEAN
      BY <3>1 DEF Handles
    <3>3. a = a2
      OBVIOUS
    <3> HIDE DEF q, v, a
    <3>4. e \in Handles
      BY <3>1, <3>2, EntrySet
    <3> HIDE DEF e
    <3>5. PICK x \in HandleSet : x = h
      BY <2>1
    <3> DEFINE a3 == [f EXCEPT !.table[x] = e]
    <3>6. f \in Libs
      BY <1>1
    <3>7. a3 \in Libs /\ SameShare(f, a3) /\ a3.fuse = f.fuse /\ a3.trouble = f.trouble /\ Elsewise(f, a3, {x})
      <4>1. PICK w \in Libs : w = f
        BY <3>6
      <4>2. PICK y \in Handles : y = e
        BY <3>4
      <4> DEFINE a4 == [w EXCEPT !.table[x] = y]
      <4>3. a4 \in Libs /\ SameShare(w, a4) /\ a4.fuse = w.fuse /\ a4.trouble = w.trouble /\ Elsewise(w, a4, {x})
        BY TableTyped
      <4> QED
        BY <4>1, <4>2, <4>3
    <3>8. a2 = a3
      BY <3>5
    <3> HIDE DEF a2, a3
    <3> QED
      BY <3>3, <3>5, <3>7, <3>8
  <2> HIDE DEF v, a
  <2>4. b \in Libs /\ SameShare(a, b) /\ (a.fuse = 0 => b.fuse = 0) /\ Elsewise(a, b, {h})
    BY <2>1, <2>3, CredentialsTyped DEF Prepared, Elsewise
  <2> HIDE DEF b
  <2>5. c \in Libs /\ SameShare(b, c) /\ c.fuse = b.fuse /\ c.trouble = b.trouble /\ Elsewise(b, c, {h}) /\ ~c.table[h].open
    BY <2>1, <2>4, FreedTyped
  <2> HIDE DEF c
  <2>17. Free(s) \subseteq Free(c)
    <3> HIDE DEF h
    <3>1. Elsewise(s, f, {h})
      BY <1>1, <1>4
    <3>2. \A x \in HandleSet \ {h} : c.table[x] = s.table[x]
      BY <2>3, <2>4, <2>5, <3>1 DEF Elsewise
    <3> QED
      BY <2>5, <3>2 DEF Free
  <2>6. PICK z \in 0..Total : z = 0
    BY FujiFsAssumption
  <2> DEFINE k == Lowest(Free(c))
             y == Open(c, z, Root, "dir", TRUE)
  <2>12. Openable(Root, "dir") /\ c \in Libs
    BY <2>5 DEF Openable, Objects
  <2>15. ASSUME Lowest(Free(c)) = 0
         PROVE  /\ y \in Libs /\ y.err = "no_device" /\ SameShare(c, y) /\ SameTable(c, y)
                /\ y.fuse = c.fuse /\ y.trouble = c.trouble
    <3>1. NoneOpened(c, y)
      BY <2>12, <2>15, OpenNone
    <3> QED
      BY <3>1 DEF NoneOpened
  <2>16. /\ Lowest(Free(c)) # 0 => Lowest(Free(c)) \in Free(c) /\ OpenedAt(c, y, Lowest(Free(c)), Root, "dir")
         /\ y.err # "service"
    BY <2>12, OpenTyped
  <2>13. /\ k = 0 => /\ y \in Libs /\ y.err = "no_device" /\ SameShare(c, y) /\ SameTable(c, y)
                     /\ y.fuse = c.fuse /\ y.trouble = c.trouble
         /\ k # 0 => k \in Free(c) /\ OpenedAt(c, y, k, Root, "dir")
         /\ y.err # "service"
    BY <2>15, <2>16
  <2>7. /\ k = 0 => /\ o \in Libs /\ o.err = "no_device" /\ SameShare(c, o) /\ SameTable(c, o)
                    /\ o.fuse = c.fuse /\ o.trouble = c.trouble
        /\ k # 0 => k \in Free(c) /\ OpenedAt(c, o, k, Root, "dir")
        /\ o.err # "service"
    BY <2>6, <2>13
  <2> HIDE DEF o
  <2>8. o \in Libs /\ SameShare(c, o) /\ (c.fuse = 0 => o.fuse = 0) /\ (o.err = "none" => o.h \in HandleSet)
        /\ OneOpened(c, o)
    <3>1. CASE Lowest(Free(c)) = 0
      BY <2>7, <3>1 DEF SameTable, Free, OneOpened
    <3>2. CASE Lowest(Free(c)) # 0
      <4>1. k \in HandleSet /\ OpenedAt(c, o, k, Root, "dir") /\ o.err # "service"
        BY <2>7, <3>2 DEF Free
      <4> HIDE DEF k
      <4>2. /\ o \in Libs /\ o.h = k /\ Elsewise(c, o, {k}) /\ SameShare(c, o)
            /\ o.err = "none" \/ ~o.table[k].open
        BY <4>1 DEF OpenedAt
      <4>3. OneOpened(c, o)
        BY <4>2 DEF Free, Elsewise, OneOpened
      <4> QED
        BY <4>1, <4>2, <4>3 DEF Elsewise
    <3> QED
      BY <3>1, <3>2
  <2>9. SameShare(s, o) /\ (s.fuse = 0 => o.fuse = 0)
    BY <1>1, <2>3, <2>4, <2>5, <2>8 DEF SameShare
  <2>18. OneOpened(s, o)
    BY <2>8, <2>17 DEF OneOpened
  <2>10. CASE o.err # "none"
    BY <1>2, <2>2, <2>8, <2>9, <2>10, <2>18 DEF Entered
  <2>11. CASE o.err = "none"
    <3>0. PICK l \in HandleSet : l = o.h
      BY <2>8, <2>11
    <3> DEFINE d == ChDir(o, l, Root)
               d2 == [d EXCEPT !.h = l]
               d3 == [d2 EXCEPT !.table[l].parent = l]
               d4 == [d3 EXCEPT !.err = "none"]
    <3>1. Entered(o) = d4
      BY <2>11, <3>0 DEF Entered
    <3>2. l \in 0..Total
      BY FujiFsAssumption DEF HandleSet
    <3>3. d \in Libs /\ SameShare(o, d) /\ (o.fuse = 0 => d.fuse = 0) /\ Free(d) = Free(o)
      BY <2>8, <3>2, ChDirTyped DEF Free
    <3> HIDE DEF d
    <3>4. d2 \in Libs /\ d2.h = l /\ SameShare(d, d2) /\ SameTable(d, d2) /\ d2.fuse = d.fuse /\ d2.trouble = d.trouble
      <4>1. d2 \in Libs
        BY <3>2, <3>3, FieldSet
      <4> QED
        BY <3>3, <4>1 DEF Libs, SameShare, SameTable
    <3> HIDE DEF d2
    <3>5. d3 \in Libs /\ d3.h = l /\ SameShare(d2, d3) /\ (d2.fuse = 0 => d3.fuse = 0) /\ Free(d3) = Free(d2)
      <4> DEFINE a2 == Adopted(d2, l)
      <4>1. d3 = a2
        BY <3>4, FujiFsAssumption DEF Adopted, HandleSet
      <4>2. d2 \in Libs /\ d2.h \in HandleSet
        BY <3>4
      <4>3. Prepared(d2, a2, d2.h)
        BY <3>2, <4>2, AdoptedTyped
      <4> HIDE DEF a2
      <4> QED
        BY <3>4, <4>1, <4>3 DEF Prepared, Elsewise, SameEntry, Free
    <3> HIDE DEF d3, d4
    <3>6. d4 = Failing(d3, "none")
      BY DEF Failing, d4
    <3>7. d4 \in Libs /\ SameShare(d3, d4) /\ SameTable(d3, d4) /\ d4.h = d3.h /\ d4.fuse = d3.fuse /\ d4.trouble = d3.trouble /\ d4.err = "none"
      BY <3>5, <3>6, ScratchSet DEF Errors
    <3>8. SameShare(s, d4) /\ (s.fuse = 0 => d4.fuse = 0) /\ d4.h \in HandleSet
      BY <2>9, <3>2, <3>3, <3>4, <3>5, <3>7 DEF SameShare
    <3>9. OneOpened(s, d4)
      <4>1. Free(d4) = Free(o) /\ d4.h = o.h
        BY <3>0, <3>3, <3>4, <3>5, <3>7 DEF SameTable, Free
      <4> QED
        BY <2>11, <2>18, <3>7, <4>1 DEF OneOpened
    <3> QED
      BY <1>2, <2>2, <3>1, <3>7, <3>8, <3>9
  <2> QED
    BY <2>10, <2>11
<1> QED
  BY <1>3, <1>4

=============================================================================
