-------------------------------- MODULE IoRun --------------------------------
(***************************************************************************)
(* What io::run (src/io/run.hh) promises to the threads that call it, on   *)
(* either system: a call that is refused started no child, and a call that *)
(* returns does so after its child is over and with all the child wrote to *)
(* the streams it captures.  ProcessIo and Win32Io implement it.           *)
(***************************************************************************)
EXTENDS Naturals

CONSTANTS Runs, Streams

VARIABLES
  call,   \* each call: "active", "returned" or "refused"
  child,  \* its child: "none", "alive" or "over"
  said,   \* number of writes to a captured stream of the child
  heard   \* number of them the call has read

ioVars == <<call, child, said, heard>>
Pipes == Runs \X Streams

IoInit ==
  /\ call = [r \in Runs |-> "active"]
  /\ child = [r \in Runs |-> "none"]
  /\ said = [p \in Pipes |-> 0] /\ heard = [p \in Pipes |-> 0]

Launch(r) ==
  /\ call[r] = "active" /\ child[r] = "none"
  /\ child' = [child EXCEPT ![r] = "alive"]
  /\ UNCHANGED <<call, said, heard>>

ChildEnds(r) ==
  /\ child[r] = "alive"
  /\ child' = [child EXCEPT ![r] = "over"]
  /\ UNCHANGED <<call, said, heard>>

Say(r, s) ==
  /\ child[r] = "alive"
  /\ said' = [said EXCEPT ![<<r, s>>] = @ + 1]
  /\ UNCHANGED <<call, child, heard>>

Hear(r, s) ==
  /\ call[r] = "active"
  /\ \E n \in heard[<<r, s>>] + 1 .. said[<<r, s>>] : heard' = [heard EXCEPT ![<<r, s>>] = n]
  /\ UNCHANGED <<call, child, said>>

\* There is no such program, or no pipe for it, or no process.
Refuse(r) ==
  /\ call[r] = "active" /\ child[r] = "none"
  /\ call' = [call EXCEPT ![r] = "refused"]
  /\ UNCHANGED <<child, said, heard>>

ReturnCapture(r) ==
  /\ call[r] = "active" /\ child[r] # "alive"
  /\ \A s \in Streams : heard[<<r, s>>] = said[<<r, s>>]
  /\ call' = [call EXCEPT ![r] = "returned"]
  /\ UNCHANGED <<child, said, heard>>

IoNext ==
  \E r \in Runs :
    \/ Launch(r) \/ ChildEnds(r) \/ Refuse(r) \/ ReturnCapture(r)
    \/ \E s \in Streams : Say(r, s) \/ Hear(r, s)

IoSpec == IoInit /\ [][IoNext]_ioVars
=============================================================================
