---------------------------- MODULE MCRedirector ----------------------------
(* A small share: a file, one whose name DOS cuts to the first one's, and a *)
(* directory. *)
EXTENDS Ncopy

OrderOf == <<"file", "filelong", "sub">>
InRoot == [n \in {"file", "filelong", "sub"} |-> "root"]
Cut == [n \in {"file", "filelong", "sub"} |-> IF n = "filelong" THEN "file" ELSE n]
Two == [n \in {"file", "filelong", "sub"} |-> 2]
SomeSearches == {[dir |-> "root", mask |-> "*", dirs |-> TRUE], [dir |-> "root", mask |-> "file", dirs |-> FALSE]}
SomeTroubles == {<<1, "refused">>, <<2, "refused">>, <<3, "short">>}
Machine(v, ok, n, a) == [version |-> v, accepts |-> ok, drives |-> n, assigned |-> a]
SomeCopyTroubles == {<<1, "refused">>, <<2, "refused">>, <<2, "unacked">>, <<1, "short">>, <<1, "empty">>}
SomeMachines == {Machine(330, TRUE, 5, {2}), Machine(300, TRUE, 5, {}), Machine(500, FALSE, 5, {}),
                 Machine(500, TRUE, 3, {}), Machine(500, TRUE, 5, {3})}
Alike == Permutations(Programs) \cup Permutations(Files)
=============================================================================
