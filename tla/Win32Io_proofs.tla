----------------------------- MODULE Win32Io_proofs -----------------------------
(***************************************************************************)
(* Proofs about Win32Io, for any number of concurrent calls of io::run and *)
(* children that write as often as they like.  A child of one call writes  *)
(* to no pipe of another, whatever it inherited, so the inductive invariant*)
(* is one statement about each call, CallInv, and the refinement of IoRun  *)
(* follows from it.                                                        *)
(***************************************************************************)
EXTENDS Win32Io, TLAPS

Labels == {"output", "error", "create", "close_output", "close_error", "await", "read", "wait",
           "code", "returned", "refused"}
Underway == Labels \ {"returned", "refused"}

Types ==
  /\ pc \in [Runs -> Labels]
  /\ read \in [Runs -> [Streams -> Pipes \cup {Null}]]
  /\ write \in [Runs -> [Streams -> Pipes \cup {Null, Nul}]]
  /\ inherits \in [Runs -> {"nothing", "listed", "everything"}]
  /\ ended \in [Runs -> SUBSET Streams]
  /\ child \in [Runs -> {"none", "running", "quiet", "exited"}]
  /\ std \in [Runs -> [Streams -> Pipes \cup {Null, Nul, Console}]]
  /\ want \in [Runs -> Streams \cup {"nothing"}]
  /\ wrote \in [Pipes -> Nat] /\ sent \in [Pipes -> Nat] /\ got \in [Pipes -> Nat]

Piped(r, s) == mode[r][s] = "piped"

\* The ends win32_pipes::open makes for a stream.
ReadEnd(r, s) == IF Piped(r, s) THEN <<r, s>> ELSE Null
WriteEnd(r, s) ==
  IF Piped(r, s) THEN <<r, s>> ELSE IF mode[r][s] = "devnull" THEN Nul ELSE Null

\* What a call has open, and what its child got of it.
Opened(r) ==
  /\ pc[r] = "error" => /\ read[r]["output"] = ReadEnd(r, "output")
                        /\ write[r]["output"] = WriteEnd(r, "output")
  /\ pc[r] = "create" => \A s \in Streams : write[r][s] = WriteEnd(r, s)
  /\ pc[r] \in {"create", "close_output", "close_error", "await", "read", "wait", "code"} =>
       \A s \in Streams : read[r][s] = ReadEnd(r, s)
  /\ child[r] = "running" =>
       \A s \in Streams : std[r][s] = IF inherits[r] = "nothing" THEN Console ELSE WriteEnd(r, s)

\* How far a call, its reader threads and its child have got together.
Stage(r) ==
  /\ pc[r] \in {"output", "error", "create", "refused"} <=> child[r] = "none"
  /\ child[r] = "none" => inherits[r] = "nothing"
  /\ ended[r] # {} => pc[r] \in {"read", "wait", "code", "returned"}
  /\ pc[r] \in {"wait", "code", "returned"} =>
       \A s \in Streams : Piped(r, s) => s \in ended[r]
  /\ pc[r] \in {"code", "returned"} => child[r] = "exited"

\* What its child wrote, what went into its pipes and what was read of it.  At the end
\* of a pipe nothing is left in it, and its child cannot write to it any more.
Told(r) ==
  \A s \in Streams :
    /\ child[r] = "none" => wrote[<<r, s>>] = 0
    /\ sent[<<r, s>>] = IF Piped(r, s) /\ inherits[r] # "nothing" THEN wrote[<<r, s>>] ELSE 0
    /\ got[<<r, s>>] <= sent[<<r, s>>]
    /\ s \in ended[r] => /\ got[<<r, s>>] = sent[<<r, s>>]
                         /\ child[r] = "running" => std[r][s] # <<r, s>>

CallInv(r) == Opened(r) /\ Stage(r) /\ Told(r)

Inv == Types /\ \A r \in Runs : CallInv(r)

-----------------------------------------------------------------------------

\* A pipe is no other handle, and two pipes are the same only if run and stream are.
LEMMA HandleNames ==
  /\ Null \notin Pipes /\ Nul \notin Pipes /\ Console \notin Pipes
  /\ \A r, q \in Runs, s, t \in Streams : <<r, s>> \in Pipes
                                         /\ (<<r, s>> = <<q, t>> => r = q /\ s = t)
  BY DEF Pipes, Null, Nul, Console

\* A step that leaves a call and its child alone leaves what is said about it.
LEMMA Elsewhere ==
  ASSUME NEW q \in Runs, CallInv(q), mode' = mode,
         pc'[q] = pc[q], read'[q] = read[q], write'[q] = write[q], inherits'[q] = inherits[q],
         ended'[q] = ended[q], child'[q] = child[q], std'[q] = std[q],
         \A s \in Streams : /\ wrote'[<<q, s>>] = wrote[<<q, s>>]
                            /\ sent'[<<q, s>>] = sent[<<q, s>>] /\ got'[<<q, s>>] = got[<<q, s>>]
  PROVE  CallInv(q)'
  BY DEF CallInv, Opened, Stage, Told, Piped, ReadEnd, WriteEnd

\* Every step preserves the invariant.
LEMMA NextInv == Inv /\ [Next]_vars => Inv'
<1> SUFFICES ASSUME Inv, [Next]_vars PROVE Inv'
  OBVIOUS
\* There is no such program, no pipe for it or no process.
<1>1. ASSUME NEW r \in Runs, LocateFails(r) \/ CreateFails(r) \/ \E s \in Streams : OpenFails(r, s)
      PROVE  Inv'
  <2>1. /\ pc[r] \in {"output", "error", "create"} /\ ReturnWith(r, "refused", "made")
        /\ UNCHANGED <<mode, inherits, ended, childVars, pipeVars>>
    BY <1>1 DEF LocateFails, CreateFails, OpenFails, Streams
  <2> USE <2>1 DEF Inv, Goto, ReturnWith, childVars, pipeVars
  <2>2. Types'
    BY DEF Types, Labels, Closed
  <2>3. \A q \in Runs \ {r} : CallInv(q)'
    BY Elsewhere DEF Types
  <2>4. CallInv(r)'
    BY DEF CallInv, Opened, Stage, Told, Piped, Types, Closed, ReadEnd, WriteEnd
  <2> QED
    BY <2>2, <2>3, <2>4
\* The pipe of a stream is opened, or what is there instead of one.
<1>2. ASSUME NEW r \in Runs, NEW s \in Streams, OpenStream(r, s) PROVE Inv'
  <2>1. /\ pc[r] = s /\ pc' = [pc EXCEPT ![r] = IF s = "output" THEN "error" ELSE "create"]
        /\ UNCHANGED <<mode, inherits, ended, child, std, want, wrote, sent, got>>
    BY <1>2 DEF OpenStream, Goto, childVars, pipeVars
  <2>2. read' = [read EXCEPT ![r] = [read[r] EXCEPT ![s] = ReadEnd(r, s)]]
    BY <1>2 DEF OpenStream, Inv, Types, ReadEnd, Piped
  <2>3. write' = [write EXCEPT ![r] = [write[r] EXCEPT ![s] = WriteEnd(r, s)]]
    BY <1>2 DEF OpenStream, Inv, Types, WriteEnd, Piped
  <2>4. Types'
    <3>1. ReadEnd(r, s) \in Pipes \cup {Null} /\ WriteEnd(r, s) \in Pipes \cup {Null, Nul}
      BY HandleNames DEF ReadEnd, WriteEnd
    <3> QED
      BY <2>1, <2>2, <2>3, <3>1 DEF Inv, Types, Labels, Streams
  <2>5. \A q \in Runs \ {r} : CallInv(q)'
    BY <2>1, <2>2, <2>3, Elsewhere DEF Inv, Types
  <2>6. Opened(r)'
    <3>1. child[r] = "none"
      BY <2>1 DEF Inv, CallInv, Stage, Streams
    <3>2. \A t \in Streams : ReadEnd(r, t)' = ReadEnd(r, t) /\ WriteEnd(r, t)' = WriteEnd(r, t)
      BY <2>1 DEF ReadEnd, WriteEnd, Piped
    <3> QED
      BY <2>1, <2>2, <2>3, <3>1, <3>2 DEF Inv, Types, CallInv, Opened, Streams
  <2>7. Stage(r)'
    BY <2>1 DEF Inv, Types, CallInv, Stage, Streams, Piped
  <2>8. Told(r)'
    BY <2>1 DEF Inv, CallInv, Told, Piped
  <2> QED
    BY <2>4, <2>5, <2>6, <2>7, <2>8 DEF Inv, CallInv
\* The child gets the ends it may write to, or none.
<1>3. ASSUME NEW r \in Runs, Create(r) PROVE Inv'
  <2>1. PICK list \in Lists(r) :
          /\ inherits' = [inherits EXCEPT ![r] = list]
          /\ std' = [std EXCEPT ![r] = IF list = "nothing" THEN [s \in Streams |-> Console]
                                                          ELSE write[r]]
    BY <1>3 DEF Create
  <2> USE <1>3, <2>1, HandleNames DEF Inv, Create, Goto, pipeVars
  <2>2. list \in {"nothing", "listed", "everything"}
    BY DEF Lists
  <2>3. Types'
    BY <2>2 DEF Types, Labels
  <2>4. \A q \in Runs \ {r} : CallInv(q)'
    BY Elsewhere DEF Types
  <2>5. Opened(r)'
    BY <2>2 DEF CallInv, Opened, Types, Piped, ReadEnd, WriteEnd
  <2>6. Stage(r)'
    BY <2>2 DEF CallInv, Stage, Types, Piped
  <2>7. Told(r)'
    <3>1. /\ child[r] = "none" /\ child'[r] = "running" /\ ended'[r] = {} /\ inherits'[r] = list
          /\ UNCHANGED <<mode, wrote, sent, got>>
      BY <2>2 DEF CallInv, Stage, Types
    <3>2. \A s \in Streams : wrote[<<r, s>>] = 0 /\ sent[<<r, s>>] = 0 /\ got[<<r, s>>] <= 0
      BY <3>1 DEF CallInv, Told, Stage
    <3> QED
      BY <3>1, <3>2 DEF Told, Piped
  <2> QED
    BY <2>3, <2>4, <2>5, <2>6, <2>7 DEF CallInv
\* The call gives up its write ends.
<1>4. ASSUME NEW r \in Runs, NEW s \in Streams, CloseWrite(r, s) PROVE Inv'
  <2> USE <1>4 DEF Inv, CloseWrite, Goto, childVars, pipeVars
  <2>1. Types'
    BY DEF Types, Labels
  <2>2. \A q \in Runs \ {r} : CallInv(q)'
    BY Elsewhere DEF Types
  <2>3. Opened(r)' /\ Stage(r)'
    BY DEF CallInv, Opened, Stage, Types, Piped, ReadEnd, WriteEnd
  <2>4. Told(r)'
    BY DEF CallInv, Told, Piped
  <2> QED
    BY <2>1, <2>2, <2>3, <2>4 DEF CallInv
\* A reader takes some of what is in its pipe.
<1>5. ASSUME NEW r \in Runs, NEW s \in Streams, Read(r, s) PROVE Inv'
  <2> USE <1>5, HandleNames DEF Inv, Read, Reading, callVars, childVars
  <2>1. read[r][s] = <<r, s>>
    BY DEF CallInv, Opened, ReadEnd
  <2>2. PICK n \in got[<<r, s>>] + 1 .. sent[<<r, s>>] : got' = [got EXCEPT ![<<r, s>>] = n]
    BY <2>1
  <2>3. n \in Nat /\ n > got[<<r, s>>] /\ n <= sent[<<r, s>>]
    BY <2>2 DEF Types
  <2>4. Types'
    BY <2>2, <2>3 DEF Types
  <2>5. \A q \in Runs \ {r} : CallInv(q)'
    BY <2>2, Elsewhere DEF Types
  <2>6. Opened(r)' /\ Stage(r)'
    BY DEF CallInv, Opened, Stage, Piped, ReadEnd, WriteEnd
  <2>7. Told(r)'
    BY <2>2, <2>3 DEF CallInv, Told, Types, Piped
  <2> QED
    BY <2>4, <2>5, <2>6, <2>7 DEF CallInv
\* A reader ends when its pipe is empty and nobody can write to it any more.
<1>6. ASSUME NEW r \in Runs, NEW s \in Streams, ReadEnds(r, s) PROVE Inv'
  <2> USE <1>6, HandleNames DEF Inv, ReadEnds, Reading, childVars, pipeVars
  <2>1. read[r][s] = <<r, s>>
    BY DEF CallInv, Opened, ReadEnd
  <2>2. child[r] = "running" => std[r][s] # <<r, s>>
    BY <2>1 DEF HasWriter
  <2>3. Types'
    BY DEF Types
  <2>4. \A q \in Runs \ {r} : CallInv(q)'
    BY Elsewhere DEF Types
  <2>5. CallInv(r)'
    <3>1. /\ pc[r] = "read" /\ got[<<r, s>>] = sent[<<r, s>>]
          /\ ended' = [ended EXCEPT ![r] = @ \cup {s}]
          /\ UNCHANGED <<pc, mode, read, write, inherits, child, std, wrote, sent, got>>
      BY <2>1
    <3>2. Opened(r)'
      BY <3>1 DEF CallInv, Opened, Piped, ReadEnd, WriteEnd
    <3>3. Stage(r)'
      BY <3>1 DEF CallInv, Stage, Piped
    <3>4. Told(r)'
      <4>1. \A t \in Streams : t \in ended'[r] => t \in ended[r] \/ t = s
        BY <3>1 DEF Types
      <4> QED
        BY <3>1, <2>2, <4>1 DEF CallInv, Told, Piped
    <3> QED
      BY <3>2, <3>3, <3>4 DEF CallInv
  <2> QED
    BY <2>3, <2>4, <2>5
\* The wait before the readers is over.
<1>8. ASSUME NEW r \in Runs, Await(r) \/ AwaitNothing(r) PROVE Inv'
  <2>1. /\ pc[r] = "await" /\ pc' = [pc EXCEPT ![r] = "read"]
        /\ UNCHANGED <<callVars, childVars, pipeVars>>
    BY <1>8 DEF Await, AwaitNothing, Goto
  <2> USE <2>1 DEF Inv, callVars, childVars, pipeVars
  <2>2. Types'
    BY DEF Types, Labels
  <2>3. \A q \in Runs \ {r} : CallInv(q)'
    BY Elsewhere DEF Types
  <2>4. CallInv(r)'
    <3>1. Opened(r)' /\ Stage(r)'
      BY DEF CallInv, Opened, Stage, Types, Piped, ReadEnd, WriteEnd
    <3>2. Told(r)'
      BY DEF CallInv, Told, Piped
    <3> QED
      BY <3>1, <3>2 DEF CallInv
  <2> QED
    BY <2>2, <2>3, <2>4
\* Joining the readers, waiting for the process, and returning.
<1>7. ASSUME NEW r \in Runs, Join(r) \/ Wait(r) \/ ExitCode(r) PROVE Inv'
  <2>1. /\ UNCHANGED <<mode, inherits, ended, child, std, want, wrote, sent, got>>
        /\ \A q \in Runs \ {r} : pc'[q] = pc[q] /\ read'[q] = read[q] /\ write'[q] = write[q]
    <3>1. CASE Join(r) \/ Wait(r)
      BY <3>1 DEF Inv, Types, Join, Wait, Goto, callVars, childVars, pipeVars
    <3>2. CASE ExitCode(r)
      BY <3>2 DEF Inv, Types, ExitCode, ReturnWith, Goto, childVars, pipeVars
    <3> QED
      BY <1>7, <3>1, <3>2
  <2>2. \/ pc[r] = "read" /\ pc'[r] = "wait" /\ Join(r)
        \/ pc[r] = "wait" /\ pc'[r] = "code" /\ Wait(r)
        \/ pc[r] = "code" /\ pc'[r] = "returned" /\ ExitCode(r)
    BY <1>7 DEF Inv, Types, Join, Wait, ExitCode, ReturnWith, Goto
  <2>3. pc'[r] # "returned" => UNCHANGED <<read, write>>
    BY <2>2 DEF Join, Wait, callVars
  <2>4. Types'
    <3>1. CASE Join(r) \/ Wait(r)
      BY <3>1, <2>1, <2>3 DEF Inv, Types, Labels, Join, Wait, Goto, callVars
    <3>2. CASE ExitCode(r)
      <4>1. /\ Closed \in [Streams -> Pipes \cup {Null}]
            /\ Closed \in [Streams -> Pipes \cup {Null, Nul}]
        BY DEF Closed
      <4>2. /\ pc' = [pc EXCEPT ![r] = "returned"]
            /\ read' = [read EXCEPT ![r] = Closed] /\ write' = [write EXCEPT ![r] = Closed]
        BY <3>2 DEF ExitCode, ReturnWith, Goto
      <4> QED
        BY <2>1, <4>1, <4>2 DEF Inv, Types, Labels
    <3> QED
      BY <1>7, <3>1, <3>2
  <2>5. \A q \in Runs \ {r} : CallInv(q)'
    BY <2>1, Elsewhere DEF Inv
  <2>6. Opened(r)'
    BY <2>1, <2>2, <2>3 DEF Inv, CallInv, Opened, Piped, ReadEnd, WriteEnd
  <2>7. Stage(r)'
    <3>1. pc'[r] = "wait" => \A s \in Streams : Piped(r, s) => s \in ended[r]
      <4> SUFFICES ASSUME pc'[r] = "wait", NEW s \in Streams, Piped(r, s) PROVE s \in ended[r]
        OBVIOUS
      <4>1. pc[r] = "read" /\ Join(r)
        BY <2>2
      <4>2. read[r][s] = <<r, s>>
        BY <4>1 DEF Inv, CallInv, Opened, ReadEnd
      <4> QED
        BY <4>1, <4>2, HandleNames DEF Join
    <3>2. pc'[r] = "code" => child[r] = "exited"
      BY <2>2 DEF Wait
    <3> QED
      BY <2>1, <2>2, <3>1, <3>2 DEF Inv, CallInv, Stage, Piped
  <2>8. Told(r)'
    BY <2>1 DEF Inv, CallInv, Told, Piped
  <2> QED
    BY <2>4, <2>5, <2>6, <2>7, <2>8 DEF Inv, CallInv
\* The child writes.
<1>9. ASSUME NEW r \in Runs, NEW s \in Streams, Decide(r, s) PROVE Inv'
  <2> USE <1>9 DEF Inv, Decide, callVars, pipeVars
  <2>1. Types'
    BY DEF Types
  <2>2. \A q \in Runs : CallInv(q)'
    BY Elsewhere
  <2> QED
    BY <2>1, <2>2
<1>10. ASSUME NEW r \in Runs, NEW s \in Streams, Write(r, s) PROVE Inv'
  <2> DEFINE p == <<r, s>>
             heard == Piped(r, s) /\ inherits[r] # "nothing"
  <2>0. p \in Pipes
    BY HandleNames
  <2>1. /\ child[r] = "running" /\ wrote' = [wrote EXCEPT ![p] = wrote[p] + 1]
        /\ want' = [want EXCEPT ![r] = "nothing"]
        /\ UNCHANGED <<mode, pc, read, write, inherits, ended, child, std, got>>
    BY <1>10 DEF Write, callVars
  <2>2. CASE heard
    <3>1. std[r][s] = p
      BY <2>1, <2>2 DEF Inv, CallInv, Opened, WriteEnd
    <3>2. sent' = [sent EXCEPT ![p] = sent[p] + 1]
      BY <1>10, <2>0, <3>1 DEF Write
    <3>3. s \notin ended[r]
      BY <2>1, <3>1 DEF Inv, CallInv, Told
    <3> HIDE DEF p
    <3>4. Types'
      BY <2>0, <2>1, <3>2 DEF Inv, Types
    <3>5. ASSUME NEW q \in Runs \ {r} PROVE CallInv(q)'
      <4>1. \A t \in Streams : <<q, t>> # p
        BY HandleNames DEF p
      <4> QED
        BY <2>1, <3>2, <4>1, Elsewhere, HandleNames DEF Inv, Types
    <3>6. Opened(r)' /\ Stage(r)'
      BY <2>1 DEF Inv, CallInv, Opened, Stage, Piped, ReadEnd, WriteEnd
    <3>7. Told(r)'
      <4>1. ASSUME NEW t \in Streams \ {s}
            PROVE  wrote'[<<r, t>>] = wrote[<<r, t>>] /\ sent'[<<r, t>>] = sent[<<r, t>>]
        BY <2>1, <3>2, HandleNames DEF p, Inv, Types
      <4>2. /\ wrote'[p] = wrote[p] + 1 /\ sent'[p] = sent[p] + 1 /\ got'[p] = got[p]
            /\ sent[p] = wrote[p] /\ got[p] <= sent[p] /\ sent[p] \in Nat /\ got[p] \in Nat
        BY <2>0, <2>1, <2>2, <3>2 DEF p, Inv, Types, CallInv, Told
      <4>3. sent'[p] = wrote'[p] /\ got'[p] <= sent'[p]
        BY <4>2
      <4> QED
        BY <2>1, <2>2, <3>3, <4>1, <4>3 DEF Inv, CallInv, Told, Piped, p
    <3> QED
      BY <3>4, <3>5, <3>6, <3>7 DEF Inv, CallInv
  <2>3. CASE ~heard
    <3>1. std[r][s] \notin Pipes
      BY <2>1, <2>3, HandleNames DEF Inv, CallInv, Opened, WriteEnd
    <3>2. sent' = sent
      BY <1>10, <3>1 DEF Write
    <3> HIDE DEF p
    <3>4. Types'
      BY <2>0, <2>1, <3>2 DEF Inv, Types
    <3>5. ASSUME NEW q \in Runs \ {r} PROVE CallInv(q)'
      <4>1. \A t \in Streams : <<q, t>> # p
        BY HandleNames DEF p
      <4> QED
        BY <2>1, <3>2, <4>1, Elsewhere, HandleNames DEF Inv, Types
    <3>6. Opened(r)' /\ Stage(r)'
      BY <2>1 DEF Inv, CallInv, Opened, Stage, Piped, ReadEnd, WriteEnd
    <3>7. Told(r)'
      <4>1. \A t \in Streams \ {s} : wrote'[<<r, t>>] = wrote[<<r, t>>]
        BY <2>1, HandleNames DEF p, Inv, Types
      <4> QED
        BY <2>1, <2>3, <3>2, <4>1 DEF Inv, CallInv, Told, Piped, p
    <3> QED
      BY <3>4, <3>5, <3>6, <3>7 DEF Inv, CallInv
  <2> QED
    BY <2>2, <2>3
\* The child closes its streams, or exits.
<1>11. ASSUME NEW r \in Runs, HangUp(r) \/ Exit(r) PROVE Inv'
  <2>1. /\ UNCHANGED <<mode, pc, read, write, inherits, ended, want, wrote, sent, got>>
        /\ \A q \in Runs \ {r} : child'[q] = child[q] /\ std'[q] = std[q]
        /\ child[r] \in {"running", "quiet"} /\ child'[r] \in {"quiet", "exited"}
    BY <1>11 DEF HangUp, Exit, callVars, pipeVars, Inv, Types
  <2>2. Types'
    <3>1. Closed \in [Streams -> Pipes \cup {Null, Nul, Console}]
      BY DEF Closed
    <3> QED
      <4>1. CASE HangUp(r)
        BY <4>1, <2>1, <3>1 DEF HangUp, Inv, Types
      <4>2. CASE Exit(r)
        BY <4>2, <2>1 DEF Exit, Inv, Types
      <4> QED
        BY <1>11, <4>1, <4>2
  <2>3. \A q \in Runs \ {r} : CallInv(q)'
    BY <2>1, Elsewhere DEF Inv
  <2>4. Opened(r)'
    BY <2>1 DEF Inv, CallInv, Opened, Piped, ReadEnd, WriteEnd
  <2>5. Stage(r)'
    BY <2>1 DEF Inv, CallInv, Stage, Piped
  <2>6. Told(r)'
    BY <2>1 DEF Inv, CallInv, Told, Piped
  <2> QED
    BY <2>2, <2>3, <2>4, <2>5, <2>6 DEF Inv, CallInv
<1>12. CASE UNCHANGED vars
  <2> USE <1>12 DEF Inv, vars, callVars, childVars, pipeVars
  <2>1. Types'
    BY DEF Types
  <2>2. \A q \in Runs : CallInv(q)'
    BY Elsewhere
  <2> QED
    BY <2>1, <2>2
<1>13. ASSUME NEW r \in Runs, Thread(r) PROVE Inv'
  BY <1>13, <1>1, <1>2, <1>3, <1>4, <1>7, <1>8 DEF Thread
<1>14. ASSUME NEW r \in Runs, Child(r) PROVE Inv'
  BY <1>14, <1>9, <1>10, <1>11 DEF Child
<1>15. ASSUME NEW r \in Runs, NEW s \in Streams, Reader(r, s) PROVE Inv'
  BY <1>15, <1>5, <1>6 DEF Reader
<1> QED
  BY <1>8, <1>12, <1>13, <1>14, <1>15 DEF Next

\* The invariant holds in every state that concurrent calls can reach.
THEOREM Invariance == Spec => []Inv
<1>1. Init => Inv
  <2> SUFFICES ASSUME Init PROVE Inv
    OBVIOUS
  <2>1. Types
    BY HandleNames DEF Init, Closed, Types, Labels
  <2>2. \A r \in Runs : CallInv(r)
    <3> SUFFICES ASSUME NEW r \in Runs PROVE CallInv(r)
      OBVIOUS
    <3>1. Opened(r) /\ Stage(r)
      BY DEF Init, Opened, Stage
    <3>2. \A s \in Streams : sent[<<r, s>>] = 0 /\ got[<<r, s>>] = 0 /\ wrote[<<r, s>>] = 0
      BY HandleNames DEF Init
    <3>3. Told(r)
      BY <3>2 DEF Init, Told
    <3> QED
      BY <3>1, <3>3 DEF CallInv
  <2> QED
    BY <2>1, <2>2 DEF Inv
<1> QED
  BY <1>1, NextInv, PTL DEF Spec

\* A call that returns gives its caller each write of its child to a captured stream, as
\* long as the attribute list could be made.
THEOREM CapturedWhole == Spec => []CaptureIsWhole
<1>1. Inv => CaptureIsWhole
  BY HandleNames DEF Inv, Types, CallInv, Stage, Told, Piped, CaptureIsWhole
<1> QED
  BY <1>1, Invariance, PTL

-----------------------------------------------------------------------------
(* Win32Io implements IoRun. *)

\* What IoRun sees of a step: the calls, the children, and the captured writes.
LEMMA StepImplements == Inv /\ [Next]_vars => [Promise!IoNext]_(Promise!ioVars)
<1> SUFFICES ASSUME Inv, [Next]_vars PROVE [Promise!IoNext]_(Promise!ioVars)
  OBVIOUS
<1> USE DEF Promise!IoNext, Promise!ioVars
\* Until a call returns, IoRun does not see where it is.
<1>a. ASSUME NEW r \in Runs, NEW label \in Underway, pc[r] \in Underway,
             pc' = [pc EXCEPT ![r] = label]
      PROVE  Calls' = Calls
  BY <1>a DEF Calls, Inv, Types, Underway
<1>1. ASSUME NEW r \in Runs, LocateFails(r) \/ CreateFails(r) \/ \E s \in Streams : OpenFails(r, s)
      PROVE  Promise!Refuse(r)
  <2>1. /\ pc[r] \in {"output", "error", "create"} /\ pc' = [pc EXCEPT ![r] = "refused"]
        /\ UNCHANGED <<child, sent, got>>
    BY <1>1 DEF LocateFails, CreateFails, OpenFails, Streams, ReturnWith, Goto, childVars, pipeVars
  <2>2. Calls[r] = "active" /\ Calls' = [Calls EXCEPT ![r] = "refused"]
    BY <2>1 DEF Calls, Inv, Types, Labels
  <2>3. Children[r] = "none" /\ Children' = Children
    BY <2>1 DEF Children, Inv, CallInv, Stage
  <2> QED
    BY <2>1, <2>2, <2>3 DEF Promise!Refuse
<1>2. ASSUME NEW r \in Runs, \/ Join(r) \/ Wait(r) \/ Await(r) \/ AwaitNothing(r)
                              \/ \E s \in Streams : OpenStream(r, s) \/ CloseWrite(r, s)
      PROVE  UNCHANGED Promise!ioVars
  <2>1. UNCHANGED <<child, sent, got>>
    BY <1>2 DEF Join, Wait, Await, AwaitNothing, OpenStream, CloseWrite,
                callVars, childVars, pipeVars
  <2>2. Calls' = Calls
    <3>1. pc[r] \in Underway
      BY <1>2 DEF Join, Wait, Await, AwaitNothing, OpenStream, CloseWrite, Underway, Labels, Streams
    <3>2. \E label \in {"error", "create", "close_error", "await", "read", "wait", "code"} :
            pc' = [pc EXCEPT ![r] = label]
      BY <1>2 DEF Join, Wait, Await, AwaitNothing, OpenStream, CloseWrite, Goto
    <3> QED
      BY <3>1, <3>2, <1>a DEF Underway, Labels
  <2> QED
    BY <2>1, <2>2 DEF Children
<1>3. ASSUME NEW r \in Runs, Create(r) PROVE Promise!Launch(r)
  <2>1. /\ pc[r] = "create" /\ pc' = [pc EXCEPT ![r] = "close_output"]
        /\ child' = [child EXCEPT ![r] = "running"] /\ UNCHANGED <<sent, got>>
    BY <1>3 DEF Create, Goto, pipeVars
  <2>2. Calls[r] = "active" /\ Calls' = Calls
    BY <2>1, <1>a DEF Calls, Underway, Labels
  <2>3. Children[r] = "none" /\ Children' = [Children EXCEPT ![r] = "alive"]
    BY <2>1 DEF Children, Inv, Types, CallInv, Stage
  <2> QED
    BY <2>1, <2>2, <2>3 DEF Promise!Launch
<1>4. ASSUME NEW r \in Runs, ExitCode(r) PROVE Promise!ReturnCapture(r)
  <2>1. pc[r] = "code" /\ pc' = [pc EXCEPT ![r] = "returned"] /\ UNCHANGED <<child, sent, got>>
    BY <1>4 DEF ExitCode, ReturnWith, Goto, childVars, pipeVars
  <2>2. Calls[r] = "active" /\ Calls' = [Calls EXCEPT ![r] = "returned"]
    BY <2>1 DEF Calls, Inv, Types, Labels
  <2>3. Children[r] # "alive" /\ Children' = Children
    BY <2>1 DEF Children, Inv, CallInv, Stage
  <2>4. ASSUME NEW s \in Streams PROVE got[<<r, s>>] = sent[<<r, s>>]
    <3>1. CASE Piped(r, s)
      BY <2>1, <3>1 DEF Inv, CallInv, Stage, Told
    <3>2. CASE ~Piped(r, s)
      BY <2>1, <3>2, HandleNames DEF Inv, Types, CallInv, Told
    <3> QED
      BY <3>1, <3>2
  <2> QED
    BY <2>1, <2>2, <2>3, <2>4 DEF Promise!ReturnCapture
<1>5. ASSUME NEW r \in Runs, NEW s \in Streams, Read(r, s) PROVE Promise!Hear(r, s)
  <2>1. /\ pc[r] = "read" /\ read[r][s] # Null /\ UNCHANGED <<pc, child, sent>>
        /\ \E n \in got[read[r][s]] + 1 .. sent[read[r][s]] :
             got' = [got EXCEPT ![read[r][s]] = n]
    BY <1>5 DEF Read, Reading, callVars, childVars
  <2>2. read[r][s] = <<r, s>>
    BY <2>1 DEF Inv, CallInv, Opened, ReadEnd
  <2>3. Calls[r] = "active" /\ UNCHANGED <<Calls, Children>>
    BY <2>1 DEF Calls, Children
  <2> QED
    BY <2>1, <2>2, <2>3 DEF Promise!Hear
<1>6. ASSUME NEW r \in Runs, NEW s \in Streams, ReadEnds(r, s) \/ Decide(r, s)
      PROVE  UNCHANGED Promise!ioVars
  BY <1>6 DEF ReadEnds, Decide, Calls, Children, callVars, childVars, pipeVars
<1>7. ASSUME NEW r \in Runs, HangUp(r) PROVE UNCHANGED Promise!ioVars
  BY <1>7 DEF HangUp, Calls, Children, callVars, pipeVars, Inv, Types
<1>8. ASSUME NEW r \in Runs, Exit(r) PROVE Promise!ChildEnds(r)
  <2>1. Children[r] = "alive" /\ Children' = [Children EXCEPT ![r] = "over"]
    BY <1>8 DEF Exit, Children, Inv, Types
  <2> QED
    BY <1>8, <2>1 DEF Exit, Promise!ChildEnds, Calls, callVars, pipeVars
<1>9. ASSUME NEW r \in Runs, NEW s \in Streams, Write(r, s)
      PROVE  [Promise!IoNext]_(Promise!ioVars)
  <2>1. /\ child[r] = "running" /\ UNCHANGED <<pc, child, got>>
        /\ std[r][s] \notin Pipes => sent' = sent
        /\ std[r][s] \in Pipes => sent' = [sent EXCEPT ![std[r][s]] = sent[std[r][s]] + 1]
    BY <1>9 DEF Write, callVars
  <2>2. Children[r] = "alive" /\ UNCHANGED <<Calls, Children>>
    BY <2>1 DEF Calls, Children
  <2>3. CASE std[r][s] \notin Pipes
    BY <2>1, <2>2, <2>3
  <2>4. CASE std[r][s] \in Pipes
    <3>1. std[r][s] = <<r, s>>
      BY <2>1, <2>4, HandleNames DEF Inv, CallInv, Opened, WriteEnd
    <3>2. Promise!Say(r, s)
      BY <2>1, <2>2, <2>4, <3>1 DEF Promise!Say
    <3> QED
      BY <3>2
  <2> QED
    BY <2>3, <2>4
<1>10. CASE UNCHANGED vars
  BY <1>10 DEF vars, callVars, childVars, pipeVars, Calls, Children
<1>11. ASSUME NEW r \in Runs, Thread(r) PROVE [Promise!IoNext]_(Promise!ioVars)
  BY <1>11, <1>1, <1>2, <1>3, <1>4 DEF Thread
<1>12. ASSUME NEW r \in Runs, Child(r) PROVE [Promise!IoNext]_(Promise!ioVars)
  BY <1>12, <1>6, <1>7, <1>8, <1>9 DEF Child
<1>13. ASSUME NEW r \in Runs, NEW s \in Streams, Reader(r, s)
       PROVE  [Promise!IoNext]_(Promise!ioVars)
  BY <1>13, <1>5, <1>6 DEF Reader
<1> QED
  BY <1>2, <1>10, <1>11, <1>12, <1>13 DEF Next

\* On Windows too a call of io::run returns after its child is over and with all the
\* child wrote, although its handles may get into the children of other threads.
THEOREM Implements == Spec => ImplementsIoRun
<1>1. Init => Promise!IoInit
  BY DEF Init, Promise!IoInit, Calls, Children, Pipes, Promise!Pipes
<1> QED
  BY <1>1, StepImplements, Invariance, PTL DEF Spec, ImplementsIoRun, Promise!IoSpec
=============================================================================
