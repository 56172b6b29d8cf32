------------------------------- MODULE NioRpc -------------------------------
(***************************************************************************)
(* What an exchange with the FujiNet promises its caller, whatever happens *)
(* on the line: it succeeds only by using up an answer that the device gave *)
(* to a request of the same device and command.  No answer serves twice    *)
(* and none is made up.  That the answer belongs to the same request is    *)
(* not promised.                                                           *)
(***************************************************************************)
EXTENDS Integers

CONSTANT Keys

VARIABLES
    phase,      \* "idle" or "busy"
    cmd,        \* the device and command asked
    answers,    \* per key, the answers given and not yet used or lost
    outcome     \* "none", "ok" or "failed"

rpcVars == <<phase, cmd, answers, outcome>>

Init ==
    /\ phase = "idle" /\ cmd \in Keys /\ outcome = "none"
    /\ answers = [k \in Keys |-> 0]

Ask(k) ==
    /\ phase = "idle"
    /\ phase' = "busy" /\ cmd' = k /\ outcome' = "none"
    /\ UNCHANGED answers

(* Answers may be lost or thrown away; the device may give one more to the *)
(* request being made.                                                     *)
Proceed ==
    /\ phase = "busy"
    /\ answers' \in [Keys -> Nat]
    /\ \A k \in Keys : answers'[k] <= answers[k] + (IF k = cmd THEN 1 ELSE 0)
    /\ UNCHANGED <<phase, cmd, outcome>>

Succeed ==
    /\ phase = "busy" /\ answers[cmd] > 0
    /\ answers' = [answers EXCEPT ![cmd] = @ - 1]
    /\ phase' = "idle" /\ outcome' = "ok"
    /\ UNCHANGED cmd

GiveUp ==
    /\ phase = "busy"
    /\ answers' \in [Keys -> Nat]
    /\ \A k \in Keys : answers'[k] <= answers[k]
    /\ phase' = "idle" /\ outcome' = "failed"
    /\ UNCHANGED cmd

Next == (\E k \in Keys : Ask(k)) \/ Proceed \/ Succeed \/ GiveUp

Spec == Init /\ [][Next]_rpcVars
=============================================================================
