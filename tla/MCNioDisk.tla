---------------------------- MODULE MCNioDisk ----------------------------
(* Small instances of NioDisk.                                             *)
EXTENDS NioDisk, TLC

Size1 == [s \in Slots |-> 1]
Size2 == [s \in Slots |-> 2]
Size4 == [s \in Slots |-> 4]

\* Boot sectors that all tell the size of the disk, or each another.
Bpb1 == [d \in Data |-> 1]
Bpb2 == [d \in Data |-> 2]
Bpb4 == [d \in Data |-> 4]
BpbSome == CHOOSE f \in [Data -> {1, 2}] : \E d, e \in Data : f[d] # f[e]

\* A disk that is there, may be written and has not been changed.
Ready == {[inserted |-> TRUE, readOnly |-> FALSE, changed |-> FALSE]}

\* Disks that are there and were changed; and none, reported as protected.
Swapped == {[inserted |-> i, readOnly |-> ~i, changed |-> i] : i \in BOOLEAN}

\* Slots are alike.
SlotSymmetry == Permutations(Slots)
=============================================================================
