----------------------------- MODULE MCProcessIo -----------------------------
(* Instances of ProcessIo for TLC: two runs, which are model values. *)
EXTENDS ProcessIo

CONSTANTS a, b

\* One child writes as much as it takes to fill a pipe and block, the other once.
MCWrites == [r \in Runs |-> IF r = a THEN 2 ELSE 1]
NoWrites == [r \in Runs |-> 0]
=============================================================================
