------------------------------ MODULE MCWin32Io ------------------------------
(* Instances of Win32Io for TLC: two runs, which are model values. *)
EXTENDS Win32Io

CONSTANTS a, b

\* A test with both streams, one with "output": "stdout", and an installation.
Pair(output, error) == [output |-> output, error |-> error]
MCModes ==
  {[r \in Runs |-> IF r = a THEN pair ELSE Pair("piped", "piped")] :
     pair \in {Pair("piped", "piped"), Pair("piped", "redirected"), Pair("devnull", "nothing")}}

\* One child writes as much as it takes to fill a pipe and block.
MCWrites == [r \in Runs |-> IF r = a THEN 2 ELSE 0]
=============================================================================
