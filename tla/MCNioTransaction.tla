-------------------------- MODULE MCNioTransaction --------------------------
(* A small instance of NioTransaction: one command of nio_call, one sector *)
(* write, every shape of answer.                                           *)
EXTENDS NioTransaction

MCCapacity == [k \in Keys |-> 1]
MCRxSpace == [k \in Keys |-> 3]

\* A good answer; bad fields; no status byte; too large for the caller; too
\* large for the receive buffer.
MCShapes == {[fields |-> TRUE,  payload |-> 1], [fields |-> FALSE, payload |-> 1],
             [fields |-> TRUE,  payload |-> 0], [fields |-> TRUE,  payload |-> 3],
             [fields |-> TRUE,  payload |-> 4]}
=============================================================================
