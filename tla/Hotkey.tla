------------------------------- MODULE Hotkey -------------------------------
(***************************************************************************)
(* CFGTSR (cfgtsr/cfgtsr.c): a program that stays in memory, notices a     *)
(* hotkey at INT 09h, and when DOS is idle (INT 28h) shows a menu and      *)
(* types a command into the BIOS's keyboard buffer; its installation and   *)
(* removal among other programs that hook the same interrupts.             *)
(*                                                                         *)
(* The interrupts 09h, 28h and 2Fh are always hooked and given back        *)
(* together, by other programs too, and are one vector here.               *)
(***************************************************************************)
EXTENDS Integers, Sequences

CONSTANTS
    Template,   \* run_template: keys, "?" for the drive
    KeyRoom,    \* keys the BIOS's buffer holds
    UserKeys,   \* keys the user types
    MaxPrograms \* bound: programs loaded

ASSUME HotkeyAssumption ==
    /\ KeyRoom \in Nat \ {0} /\ MaxPrograms \in Nat
    /\ Template \in Seq(STRING) /\ UserKeys \subseteq STRING

VARIABLES
    keys,       \* the BIOS's keyboard buffer
    tsr,        \* CFGTSR's variables, and whether its menu is shown
    programs,   \* programs loaded, oldest first: [kind, saved, there]
    vector,     \* the one the interrupts lead to, 0 for DOS and the BIOS
    \* History: what DOS has read since R was chosen, the keys that were
    \* before the command then, and whether nobody touched the keyboard since.
    typed

hotkey == <<keys, tsr, programs, vector, typed>>

NoTsr == [menu |-> FALSE, pending |-> FALSE, stuffing |-> FALSE, pos |-> 0, drive |-> "none"]
NoCommand == [read |-> << >>, before |-> << >>, calm |-> FALSE]

-----------------------------------------------------------------------------
(* The chain of handlers.                                                  *)

Chain ==
    LET below[n \in 0..Len(programs)] ==
            IF n = 0 THEN {} ELSE {n} \cup below[programs[n].saved]
    IN below[vector]

\* probe_installed: the CFGTSR that INT 2Fh reaches.
Installed == {i \in Chain : programs[i].kind = "cfgtsr"}

Loaded(kind) == Append(programs, [kind |-> kind, saved |-> vector, there |-> TRUE])

\* find_first_fujinet_drive: the first drive, of those from C:, whose driver
\* says in answer to an IOCTL that it is the FujiNet's unit 0; units[i] is what
\* it says of drives[i].
NoDrive == "none"
FirstDrive(drives, units) ==
    LET found == {i \in DOMAIN drives : units[i] = 0}
    IN IF found = {} THEN NoDrive ELSE drives[CHOOSE i \in found : \A j \in found : i <= j]

\* do_install
Install(drive) ==
    /\ Len(programs) < MaxPrograms /\ ~tsr.menu
    /\ Installed = {} /\ drive # NoDrive
    /\ programs' = Loaded("cfgtsr") /\ vector' = Len(programs')
    /\ tsr' = [NoTsr EXCEPT !.drive = drive]
    /\ typed' = NoCommand
    /\ UNCHANGED keys

Removed(i) == [programs EXCEPT ![i].there = FALSE]

(* The vectors are left as they are. *)
UninstallOnly(i) ==
    /\ programs' = Removed(i) /\ vector' = vector

\* MUX_UNINSTALL and the two blocks freed: the old vectors come back whoever
\* has hooked them since.
Unhook(i) ==
    /\ programs' = Removed(i) /\ vector' = programs[i].saved

\* do_uninstall
Uninstall ==
    /\ ~tsr.menu
    /\ \E i \in Installed : Unhook(i)
    /\ tsr' = NoTsr /\ typed' = NoCommand
    /\ UNCHANGED keys

\* Another resident program, which goes only while it is the one in front.
OtherLoads ==
    /\ Len(programs) < MaxPrograms /\ ~tsr.menu
    /\ programs' = Loaded("other") /\ vector' = Len(programs')
    /\ UNCHANGED <<keys, tsr, typed>>
OtherGoes ==
    /\ vector # 0 /\ ~tsr.menu /\ programs[vector].kind = "other"
    /\ programs' = Removed(vector) /\ vector' = programs[vector].saved
    /\ UNCHANGED <<keys, tsr, typed>>

-----------------------------------------------------------------------------
(* The keyboard.                                                           *)

\* my_int9h chains to the BIOS, which drops a key it has no room for.
Press(k) ==
    /\ keys' = IF Len(keys) < KeyRoom THEN Append(keys, k) ELSE keys
    /\ typed' = [typed EXCEPT !.calm = FALSE]
    /\ UNCHANGED <<tsr, programs, vector>>

\* Ctrl+Alt+M is noted and swallowed, whatever else goes on.
PressHotkey ==
    /\ Installed # {}
    /\ tsr' = [tsr EXCEPT !.pending = TRUE]
    /\ UNCHANGED <<keys, programs, vector, typed>>

\* DOS, or the program that runs, reads a key.
DosReads ==
    /\ ~tsr.menu /\ keys # << >>
    /\ keys' = Tail(keys)
    /\ typed' = IF typed.calm THEN [typed EXCEPT !.read = Append(@, Head(keys))] ELSE typed
    /\ UNCHANGED <<tsr, programs, vector>>

-----------------------------------------------------------------------------
(* my_int28h.                                                              *)

Command(drive) == [i \in DOMAIN Template |-> IF Template[i] = "?" THEN drive ELSE Template[i]]

(* A key the buffer has no room for counted as typed. *)
StuffedCounting(t, k) ==
    LET rest == Command(t.drive)
        n == IF KeyRoom - Len(k) < Len(rest) - t.pos THEN KeyRoom - Len(k) ELSE Len(rest) - t.pos
    IN [keys |-> k \o SubSeq(rest, t.pos + 1, t.pos + n),
        tsr |-> [t EXCEPT !.pos = Len(rest), !.stuffing = FALSE]]

\* run_stuff_step: what the buffer k has room for.
Stuffed(t, k) ==
    LET rest == Command(t.drive)
        n == IF KeyRoom - Len(k) < Len(rest) - t.pos THEN KeyRoom - Len(k) ELSE Len(rest) - t.pos
    IN [keys |-> k \o SubSeq(rest, t.pos + 1, t.pos + n),
        tsr |-> [t EXCEPT !.pos = @ + n, !.stuffing = t.pos + n < Len(rest)]]

Stuffs(t, k) ==
    LET s == IF t.stuffing THEN Stuffed(t, k) ELSE [keys |-> k, tsr |-> t]
    IN keys' = s.keys /\ tsr' = s.tsr

\* The menu is drawn over the screen saved.
ShowMenu ==
    /\ Installed # {} /\ ~tsr.menu /\ tsr.pending
    /\ tsr' = [tsr EXCEPT !.pending = FALSE, !.menu = TRUE]
    /\ typed' = [typed EXCEPT !.calm = FALSE]
    /\ UNCHANGED <<keys, programs, vector>>

IdleStuffs ==
    /\ Installed # {} /\ ~tsr.menu /\ ~tsr.pending /\ tsr.stuffing
    /\ Stuffs(tsr, keys)
    /\ UNCHANGED <<programs, vector, typed>>

\* read_key takes the oldest key in the buffer, then the screen is restored;
\* the boot mode is set for some choices, with what outcome does not matter.
SetsBootMode(k) == k \in {"m", "r"}
Choose ==
    /\ tsr.menu /\ keys # << >>
    /\ LET k == Head(keys)
           t == [tsr EXCEPT !.menu = FALSE] IN
       /\ IF k = "r" THEN Stuffs([t EXCEPT !.pos = 0, !.stuffing = TRUE], Tail(keys)) ELSE Stuffs(t, Tail(keys))
       /\ typed' = IF k = "r" THEN [read |-> << >>, before |-> Tail(keys), calm |-> TRUE] ELSE typed
    /\ UNCHANGED <<programs, vector>>
=============================================================================
