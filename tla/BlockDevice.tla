---------------------------- MODULE BlockDevice ----------------------------
(***************************************************************************)
(* What the block driver promises DOS, whatever it caches, however it cuts *)
(* requests into exchanges and repeats them: units that show the disks of  *)
(* the slots they are mapped to.  A read hands over what is on the disk, a *)
(* write puts the caller's sectors there, each request from its first      *)
(* sector on, and a request that hands over some of its sectors may answer *)
(* as if it were complete.  Of a sector in doubt nothing is promised; what *)
(* may bring sectors into doubt is said with every action.                 *)
(***************************************************************************)
EXTENDS Integers, Sequences

CONSTANTS
    Units, Slots, Size, Data,
    Troubles        \* "medium", "unacked", "late": as in NioDisk

VARIABLES
    disks,          \* per slot, its sectors
    map,            \* the slot of each unit
    doubtful,       \* <<unit, sector>> of which a read may bring anything
    asked,          \* the request at hand, if its op is not "idle"
    moved,          \* the sectors it has read or written so far
    answer          \* the status word, "none" while a request runs

blockVars == <<disks, map, doubtful, asked, moved, answer>>

Requests == [op: {"read", "write"}, unit: Units, lba: Nat, count: Nat, data: Seq(Data)]

Slot == map[asked.unit]

\* The next k sectors of the request, and those who see them.
Ahead(k) == (asked.lba + Len(moved))..(asked.lba + Len(moved) + k - 1)
Own(k) == {asked.unit} \X Ahead(k)
Seen(k) == {u \in Units : map[u] = Slot} \X Ahead(k)

DoubtOnly(S) == doubtful \subseteq doubtful' /\ doubtful' \subseteq doubtful \cup S

Init ==
    /\ \A s \in Slots : disks[s] \in [0..(Size[s] - 1) -> Data]
    /\ map \in [Units -> Slots] /\ doubtful = {}
    /\ asked.op = "idle" /\ moved = << >> /\ answer = "none"

Ask ==
    /\ asked.op = "idle" /\ asked' \in Requests
    /\ Len(asked'.data) = IF asked'.op = "write" THEN asked'.count ELSE 0
    /\ moved' = << >> /\ answer' = "none"
    /\ UNCHANGED <<disks, map, doubtful>>

(* A request that moves no sectors: asked of the medium, or turned away.    *)
(* One that looks at the boot sector may be shown an earlier exchange's.    *)
Control ==
    /\ asked.op = "idle" /\ answer' # "none"
    /\ \E u \in Units : DoubtOnly(IF "late" \in Troubles THEN {<<u, 0>>} ELSE {})
    /\ UNCHANGED <<disks, map, asked, moved>>

(* A unit that shows another disk shows it as it is. *)
Remap(u, s) ==
    /\ asked.op = "idle"
    /\ map' = [map EXCEPT ![u] = s]
    /\ doubtful' = {p \in doubtful : p[1] # u}
    /\ answer' = "OP_COMPLETE"
    /\ UNCHANGED <<disks, asked, moved>>

(* A disk changes behind the driver's back: nothing is promised of it.     *)
Alter(s) ==
    /\ "medium" \in Troubles
    /\ disks'[s] \in [0..(Size[s] - 1) -> Data]
    /\ \A t \in Slots \ {s} : disks'[t] = disks[t]
    /\ doubtful' = IF disks' = disks THEN doubtful
                   ELSE doubtful \cup ({u \in Units : map[u] = s} \X (0..(Size[s] - 1)))
    /\ UNCHANGED <<map, asked, moved, answer>>

(* Some more sectors are read.  Only an answer that belongs to an earlier  *)
(* exchange brings doubt: sectors of the unit from the next one on.        *)
Read ==
    /\ asked.op = "read"
    /\ Len(moved') \in (Len(moved) + 1)..asked.count
    /\ \A i \in 1..Len(moved) : moved'[i] = moved[i]
    /\ \A i \in (Len(moved) + 1)..Len(moved') :
          LET l == asked.lba + i - 1 IN
          \/ l \in DOMAIN disks[Slot] /\ disks[Slot][l] = moved'[i]
          \/ <<asked.unit, l>> \in doubtful'
    /\ doubtful \subseteq doubtful'
    /\ \A p \in doubtful' \ doubtful :
          "late" \in Troubles /\ p[1] = asked.unit /\ p[2] >= asked.lba + Len(moved)
    /\ UNCHANGED <<disks, map, asked, answer>>

(* The next k sectors are put on the disk.                                 *)
Put(k) ==
    /\ k > 0 => asked.lba + Len(moved) + k <= Size[Slot]
    /\ disks' = [disks EXCEPT ![Slot] = [l \in DOMAIN disks[Slot] |->
          IF l \in Ahead(k) THEN asked.data[l - asked.lba + 1] ELSE disks[Slot][l]]]

(* Some more sectors are written, and whoever has an older copy of them may *)
(* go on to show it.  They may be taken for written although only some of   *)
(* them are, or none: the acknowledgement was another's, and what the unit  *)
(* shows of them is in doubt.                                              *)
Write ==
    /\ asked.op = "write"
    /\ \E k \in 1..(asked.count - Len(moved)) : \E j \in 0..k :
        /\ moved' = SubSeq(asked.data, 1, Len(moved) + k)
        /\ Put(j) /\ DoubtOnly(Seen(j) \cup Own(k))
        /\ j < k => "late" \in Troubles /\ Own(k) \subseteq doubtful'
    /\ UNCHANGED <<map, asked, answer>>

(* Success means that some sectors were moved, and when all were it is     *)
(* what is answered.                                                       *)
Return ==
    /\ asked'.op = "idle" /\ moved' = << >> /\ answer' # "none"
    /\ answer' = "OP_COMPLETE" => moved # << >>
    /\ moved # << >> /\ Len(moved) = asked.count => answer' = "OP_COMPLETE"

Answer ==
    /\ asked.op # "idle" /\ Return
    /\ UNCHANGED <<disks, map, doubtful>>

(* A write that fails may be on the disk in part. *)
WriteFails ==
    /\ asked.op = "write" /\ Return
    /\ \E k \in 0..(asked.count - Len(moved)) :
          /\ k > 0 => Troubles \cap {"unacked", "late"} # {}
          /\ Put(k) /\ DoubtOnly(Seen(k))
    /\ UNCHANGED map

Next ==
    \/ Ask \/ Control \/ Read \/ Write \/ Answer \/ WriteFails
    \/ \E s \in Slots : Alter(s) \/ \E u \in Units : Remap(u, s)

Spec == Init /\ [][Next]_blockVars
=============================================================================
