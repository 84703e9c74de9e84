---------------------------- MODULE ProcessIo_proofs ----------------------------
(***************************************************************************)
(* Proofs about ProcessIo, for any number of concurrent calls of io::run,  *)
(* pipes of any size and children that write as often as they like: one    *)
(* inductive invariant, Inv, and the refinement of IoRun that it carries.  *)
(***************************************************************************)
EXTENDS ProcessIo, TLAPS

\* A call holds ends of its own pipes only, and so does its child, but for those it
\* inherited.
OwnPipes ==
  \A r \in Runs, s \in Streams :
    /\ read[r][s] \in {NoPipe, <<r, s>>}
    /\ write[r][s] \in {NoPipe, <<r, "output">>, <<r, "error">>}
    /\ std[r][s] \in {NoPipe, <<r, "output">>, <<r, "error">>}

\* What is open at each step of a call.
OpenedInv ==
  \A r \in Runs :
    /\ pc[r] = "error" /\ ~Redirected(r, "output") => read[r]["output"] = <<r, "output">>
    /\ pc[r] \in {"redirect", "spawn", "close_output", "close_error", "read", "wait", "destroy"} =>
         \A s \in Streams : ~Redirected(r, s) => read[r][s] = <<r, s>>
    /\ want[r] # "nothing" => child[r] = "running" /\ std[r][want[r]] # NoPipe

\* How far a call, its reader threads and its child have got together.
StageInv ==
  \A r \in Runs :
    /\ pc[r] \in {"output", "error", "redirect", "spawn", "not_open"} => child[r] = "none"
    /\ ended[r] # {} => pc[r] \in {"read", "wait", "destroy", "returned"}
    /\ child[r] # "none" => pid[r] = r
    /\ pc[r] \in {"wait", "destroy", "returned"} =>
         \A s \in Streams : s \in ended[r] \/ Redirected(r, s)
    /\ pc[r] \in {"destroy", "returned"} => child[r] \notin {"running", "quiet"}

\* Nothing is left in a pipe at its end of file, and nobody gets hold of it again: a
\* child inherits only what somebody has open.
Shut(p) == got[p] = sent[p] /\ ~HasWriter(p)
ShutInv ==
  \A r \in Runs, s \in Streams : s \in ended[r] \/ Redirected(r, s) => Shut(<<r, s>>)

Inv == TypeOK /\ OwnPipes /\ OpenedInv /\ StageInv /\ ShutInv

-----------------------------------------------------------------------------

\* No pipe is called NoPipe, and two pipes are the same only if run and stream are.
LEMMA PipeNames ==
  /\ NoPipe \notin Pipes
  /\ \A r, q \in Runs, s, t \in Streams : <<r, s>> \in Pipes /\ <<r, s>> # NoPipe
                                         /\ (<<r, s>> = <<q, t>> => r = q /\ s = t)
  BY DEF Pipes, NoPipe

\* Who has no end of a pipe that is shut, spelled out.
LEMMA ShutMeans ==
  ASSUME NEW p \in Pipes
  PROVE  Shut(p) <=>
           /\ got[p] = sent[p]
           /\ \A x \in Runs, y \in Streams : write[x][y] # p
           /\ \A x \in Runs : child[x] \in {"running", "quiet"} =>
                p \notin inherited[x] /\ \A y \in Streams : std[x][y] # p
<1>1. HasWriter(p) <=>
        \/ \E x \in Runs, y \in Streams : write[x][y] = p
        \/ \E x \in Runs : /\ child[x] \in {"running", "quiet"}
                           /\ p \in inherited[x] \/ \E y \in Streams : std[x][y] = p
  BY Zenon DEF HasWriter
<1> QED
  BY <1>1, Zenon DEF Shut

\* Every step preserves the invariant.
LEMMA NextInv == Inv /\ [Next]_vars => Inv'
<1> SUFFICES ASSUME Inv, [Next]_vars PROVE Inv'
  OBVIOUS
\* A step after which nobody has an end of a pipe that he did not have before.
<1> DEFINE NothingGained ==
      /\ UNCHANGED <<got, sent>>
      /\ \A q \in Runs, t \in Streams :
           t \in ended'[q] \/ Redirected(q, t)' => t \in ended[q] \/ Redirected(q, t)
      /\ \A x \in Runs, y \in Streams : write'[x][y] \in {write[x][y], NoPipe}
      /\ \A x \in Runs : child'[x] \in {"running", "quiet"} =>
           /\ child[x] \in {"running", "quiet"} /\ inherited'[x] = inherited[x]
           /\ \A y \in Streams : std'[x][y] \in {std[x][y], NoPipe}
\* Such a step leaves shut what was shut.
<1>s. ASSUME NothingGained PROVE ShutInv'
  <2> SUFFICES ASSUME NEW q \in Runs, NEW t \in Streams, t \in ended'[q] \/ Redirected(q, t)'
               PROVE  Shut(<<q, t>>)'
    BY DEF ShutInv
  <2>1. Shut(<<q, t>>) /\ <<q, t>> \in Pipes /\ <<q, t>> # NoPipe
    BY <1>s, PipeNames DEF Inv, ShutInv
  <2>2. /\ got[<<q, t>>] = sent[<<q, t>>]
        /\ \A x \in Runs, y \in Streams : write[x][y] # <<q, t>>
        /\ \A x \in Runs : child[x] \in {"running", "quiet"} =>
             <<q, t>> \notin inherited[x] /\ \A y \in Streams : std[x][y] # <<q, t>>
    BY <2>1, ShutMeans
  <2>3. got'[<<q, t>>] = sent'[<<q, t>>]
    BY <1>s, <2>2
  <2>4. \A x \in Runs, y \in Streams : write'[x][y] # <<q, t>>
    BY <1>s, <2>1, <2>2
  <2>5. \A x \in Runs : child'[x] \in {"running", "quiet"} =>
          <<q, t>> \notin inherited'[x] /\ \A y \in Streams : std'[x][y] # <<q, t>>
    BY <1>s, <2>1, <2>2
  <2> QED
    BY <2>3, <2>4, <2>5 DEF Shut, HasWriter
<1> HIDE DEF NothingGained
\* The pipe of a stream is opened, or left to the other one.
<1>1. ASSUME NEW r \in Runs, NEW s \in Streams, OpenStream(r, s) PROVE Inv'
  <2> USE <1>1, PipeNames DEF Inv, OpenStream, Goto, parentVars, childVars, pipeVars
  <2>0. CASE Redirected(r, s)
    <3>1. UNCHANGED <<mode, read, write, ended, pid, from, child, std, inherited, want, sent, got>>
      BY <2>0
    <3>2. TypeOK' /\ OwnPipes'
      BY <3>1, <2>0 DEF TypeOK, OwnPipes, Labels, Streams
    <3>3. OpenedInv' /\ StageInv'
      BY <3>1, <2>0, ModesAssumption DEF OpenedInv, StageInv, TypeOK, Redirected, Mode, Streams
    <3>4. ShutInv'
      <4> SUFFICES ASSUME NEW q \in Runs, NEW t \in Streams, t \in ended'[q] \/ Redirected(q, t)'
                   PROVE  Shut(<<q, t>>)'
        BY DEF ShutInv
      <4>1. Shut(<<q, t>>)
        BY <3>1 DEF ShutInv, Redirected
      <4> QED
        BY <4>1, <3>1 DEF Shut, HasWriter
    <3> QED
      BY <3>2, <3>3, <3>4
  <2>a. SUFFICES ASSUME ~Redirected(r, s) PROVE Inv'
    BY <2>0
  <2>b. /\ read' = [read EXCEPT ![r] = [read[r] EXCEPT ![s] = <<r, s>>]]
        /\ write' = [write EXCEPT ![r] = [write[r] EXCEPT ![s] = <<r, s>>]]
    BY <2>a DEF TypeOK
  <2>1. TypeOK'
    BY <2>b, <2>a DEF TypeOK, Labels, Streams
  <2>2. OwnPipes'
    BY <2>b DEF OwnPipes, TypeOK, Streams
  <2>3. OpenedInv' /\ StageInv'
    BY <2>a, <2>b, ModesAssumption
       DEF OpenedInv, StageInv, OwnPipes, TypeOK, Redirected, Mode, Streams
  <2>4. ShutInv'
    <3> SUFFICES ASSUME NEW q \in Runs, NEW t \in Streams, t \in ended'[q] \/ Redirected(q, t)'
                 PROVE  Shut(<<q, t>>)'
      BY DEF ShutInv
    <3>1. Shut(<<q, t>>) /\ <<q, t>> # <<r, s>>
      BY <2>a, PipeNames DEF ShutInv, Redirected, TypeOK, StageInv, Streams
    <3>2. /\ got[<<q, t>>] = sent[<<q, t>>]
          /\ \A x \in Runs, y \in Streams : write[x][y] # <<q, t>>
          /\ \A x \in Runs : child[x] \in {"running", "quiet"} =>
               <<q, t>> \notin inherited[x] /\ \A y \in Streams : std[x][y] # <<q, t>>
      BY <3>1, ShutMeans
    <3>3. got'[<<q, t>>] = sent'[<<q, t>>]
      BY <3>2 DEF TypeOK
    <3>4. \A x \in Runs, y \in Streams : write'[x][y] # <<q, t>>
      <4>1. \A x \in Runs, y \in Streams : write'[x][y] \in {write[x][y], <<r, s>>}
        BY <2>b DEF TypeOK
      <4> QED
        BY <3>1, <3>2, <4>1
    <3>5. \A x \in Runs : child'[x] \in {"running", "quiet"} =>
            <<q, t>> \notin inherited'[x] /\ \A y \in Streams : std'[x][y] # <<q, t>>
      BY <3>2 DEF TypeOK
    <3> QED
      BY <3>3, <3>4, <3>5 DEF Shut, HasWriter
  <2> QED
    BY <2>1, <2>2, <2>3, <2>4
\* pipe() fails.
<1>2. ASSUME NEW r \in Runs, NEW s \in Streams, OpenFails(r, s) PROVE Inv'
  <2> USE <1>2, PipeNames DEF Inv, OpenFails, Goto, parentVars, childVars, pipeVars
  <2>1. TypeOK'
    BY CapacityAssumption, RunsAssumption DEF TypeOK, Labels, Streams, Closed, OwnPipes, OpenedInv
  <2>2. OwnPipes'
    BY DEF OwnPipes, TypeOK, Closed, Streams
  <2>3. OpenedInv' /\ StageInv'
    BY ModesAssumption, RunsAssumption
       DEF OpenedInv, StageInv, OwnPipes, TypeOK, Redirected, Closed, Mode, Streams
  <2>4. ShutInv'
    <3>1. NothingGained
      BY DEF NothingGained, TypeOK, Redirected, Closed
    <3> QED
      BY <3>1, <1>s
  <2> QED
    BY <2>1, <2>2, <2>3, <2>4
\* The redirected stream gets its end.
<1>3. ASSUME NEW r \in Runs, Redirect(r) PROVE Inv'
  <2> USE <1>3, PipeNames DEF Inv, Redirect, Goto, parentVars, childVars, pipeVars
  <2>a. \A x \in Runs, y \in Streams :
          write'[x][y] \in {write[x]["output"], write[x]["error"], NoPipe}
    BY DEF TypeOK, Streams, OtherOf
  <2>1. TypeOK'
    BY CapacityAssumption, RunsAssumption
       DEF TypeOK, Labels, Streams, Closed, OwnPipes, OpenedInv, OtherOf
  <2>2. OwnPipes'
    BY <2>a DEF OwnPipes, TypeOK, Closed, Streams
  <2>3. OpenedInv' /\ StageInv'
    BY ModesAssumption DEF OpenedInv, StageInv, TypeOK, Redirected, Mode, Streams
  <2>4. ShutInv'
    <3> SUFFICES ASSUME NEW q \in Runs, NEW t \in Streams, t \in ended'[q] \/ Redirected(q, t)'
                 PROVE  Shut(<<q, t>>)'
      BY DEF ShutInv
    <3>1. Shut(<<q, t>>) /\ (t \in ended[q] \/ Redirected(q, t))
      BY DEF ShutInv, Redirected, TypeOK
    <3>2. /\ got[<<q, t>>] = sent[<<q, t>>]
          /\ \A x \in Runs, y \in Streams : write[x][y] # <<q, t>>
          /\ \A x \in Runs : child[x] \in {"running", "quiet"} =>
               <<q, t>> \notin inherited[x] /\ \A y \in Streams : std[x][y] # <<q, t>>
      BY <3>1, ShutMeans
    <3>3. got'[<<q, t>>] = sent'[<<q, t>>]
      BY <3>2 DEF TypeOK
    <3>4. \A x \in Runs, y \in Streams : write'[x][y] # <<q, t>>
      <4>1. ASSUME NEW x \in Runs, NEW y \in Streams PROVE write'[x][y] # <<q, t>>
        <5>1. write'[x][y] \in {write[x]["output"], write[x]["error"], NoPipe}
          BY <2>a
        <5>2. write[x]["output"] # <<q, t>> /\ write[x]["error"] # <<q, t>> /\ NoPipe # <<q, t>>
          BY <3>2, PipeNames DEF Streams
        <5> QED
          BY <5>1, <5>2
      <4> QED
        BY <4>1
    <3>5. \A x \in Runs : child'[x] \in {"running", "quiet"} =>
            <<q, t>> \notin inherited'[x] /\ \A y \in Streams : std'[x][y] # <<q, t>>
      BY <3>2 DEF TypeOK
    <3> QED
      BY <3>3, <3>4, <3>5 DEF Shut, HasWriter
  <2> QED
    BY <2>1, <2>2, <2>3, <2>4
\* The child starts, with every descriptor that is open.
<1>4. ASSUME NEW r \in Runs, Spawn(r) PROVE Inv'
  <2> USE <1>4, PipeNames DEF Inv, Spawn, OpenInOtherRuns, Goto, parentVars, childVars, pipeVars
  <2>1. TypeOK'
    BY CapacityAssumption, RunsAssumption DEF TypeOK, Labels, Streams, Closed, OwnPipes, OpenedInv
  <2>2. OwnPipes'
    BY DEF OwnPipes, TypeOK, Closed, Streams
  <2>3. OpenedInv' /\ StageInv'
    BY ModesAssumption, RunsAssumption
       DEF OpenedInv, StageInv, OwnPipes, TypeOK, Redirected, Closed, Mode, Streams
  <2>4. ShutInv'
    <3> SUFFICES ASSUME NEW q \in Runs, NEW t \in Streams, t \in ended'[q] \/ Redirected(q, t)'
                 PROVE  Shut(<<q, t>>)'
      BY DEF ShutInv
    <3>1. Shut(<<q, t>>) /\ (t \in ended[q] \/ Redirected(q, t))
      BY DEF ShutInv, Redirected, TypeOK
    <3>2. /\ got[<<q, t>>] = sent[<<q, t>>]
          /\ \A x \in Runs, y \in Streams : write[x][y] # <<q, t>>
          /\ \A x \in Runs : child[x] \in {"running", "quiet"} =>
               <<q, t>> \notin inherited[x] /\ \A y \in Streams : std[x][y] # <<q, t>>
      BY <3>1, ShutMeans
    <3>3. got'[<<q, t>>] = sent'[<<q, t>>]
      BY <3>2 DEF TypeOK
    <3>4. \A x \in Runs, y \in Streams : write'[x][y] # <<q, t>>
      BY <3>2, PipeNames DEF TypeOK, Closed
    <3>5. \A x \in Runs : child'[x] \in {"running", "quiet"} =>
            <<q, t>> \notin inherited'[x] /\ \A y \in Streams : std'[x][y] # <<q, t>>
      BY <3>2 DEF TypeOK
    <3> QED
      BY <3>3, <3>4, <3>5 DEF Shut, HasWriter
  <2> QED
    BY <2>1, <2>2, <2>3, <2>4
\* posix_spawn fails, and the call goes on.
<1>5. ASSUME NEW r \in Runs, SpawnFails(r) PROVE Inv'
  <2> USE <1>5, PipeNames DEF Inv, SpawnFails, Goto, parentVars, childVars, pipeVars
  <2>1. TypeOK'
    BY CapacityAssumption, RunsAssumption DEF TypeOK, Labels, Streams, Closed, OwnPipes, OpenedInv
  <2>2. OwnPipes'
    BY DEF OwnPipes, TypeOK, Closed, Streams
  <2>3. OpenedInv' /\ StageInv'
    BY ModesAssumption, RunsAssumption
       DEF OpenedInv, StageInv, OwnPipes, TypeOK, Redirected, Closed, Mode, Streams
  <2>4. ShutInv'
    <3>1. NothingGained
      BY DEF NothingGained, TypeOK, Redirected, Closed
    <3> QED
      BY <3>1, <1>s
  <2> QED
    BY <2>1, <2>2, <2>3, <2>4
\* The call closes its own write ends.
<1>6. ASSUME NEW r \in Runs, NEW s \in Streams, CloseWrite(r, s) PROVE Inv'
  <2> USE <1>6, PipeNames DEF Inv, CloseWrite, Goto, parentVars, childVars, pipeVars
  <2>1. TypeOK'
    BY CapacityAssumption, RunsAssumption DEF TypeOK, Labels, Streams, Closed, OwnPipes, OpenedInv
  <2>2. OwnPipes'
    BY DEF OwnPipes, TypeOK, Closed, Streams
  <2>3. OpenedInv' /\ StageInv'
    BY ModesAssumption, RunsAssumption
       DEF OpenedInv, StageInv, OwnPipes, TypeOK, Redirected, Closed, Mode, Streams
  <2>4. ShutInv'
    <3>1. NothingGained
      BY DEF NothingGained, TypeOK, Redirected, Closed
    <3> QED
      BY <3>1, <1>s
  <2> QED
    BY <2>1, <2>2, <2>3, <2>4
\* A reader thread takes some of what was written.
<1>7. ASSUME NEW r \in Runs, NEW s \in Streams, Read(r, s) PROVE Inv'
  <2> USE <1>7, PipeNames DEF Inv, Read, Reading, Goto, parentVars, childVars, pipeVars
  <2>0. read[r][s] = <<r, s>>
    BY DEF OwnPipes
  <2>1. TypeOK'
    <3>1. PICK n \in got[<<r, s>>] + 1 .. sent[<<r, s>>] : got' = [got EXCEPT ![<<r, s>>] = n]
      BY <2>0
    <3>2. n \in Nat /\ got[<<r, s>>] <= n /\ n <= sent[<<r, s>>]
      BY DEF TypeOK
    <3> QED
      BY <3>1, <3>2, CapacityAssumption DEF TypeOK
  <2>2. OwnPipes'
    BY DEF OwnPipes, TypeOK, Closed, Streams
  <2>3. OpenedInv' /\ StageInv'
    BY ModesAssumption, RunsAssumption
       DEF OpenedInv, StageInv, OwnPipes, TypeOK, Redirected, Closed, Mode, Streams
  <2>4. ShutInv'
    <3> SUFFICES ASSUME NEW q \in Runs, NEW t \in Streams, t \in ended'[q] \/ Redirected(q, t)'
                 PROVE  Shut(<<q, t>>)'
      BY DEF ShutInv
    <3>1. Shut(<<q, t>>) /\ (t \in ended[q] \/ Redirected(q, t))
      BY DEF ShutInv, Redirected, TypeOK
    <3>2. /\ got[<<q, t>>] = sent[<<q, t>>]
          /\ \A x \in Runs, y \in Streams : write[x][y] # <<q, t>>
          /\ \A x \in Runs : child[x] \in {"running", "quiet"} =>
               <<q, t>> \notin inherited[x] /\ \A y \in Streams : std[x][y] # <<q, t>>
      BY <3>1, ShutMeans
    <3>3. got'[<<q, t>>] = sent'[<<q, t>>]
      <4>1. CASE <<q, t>> = <<r, s>>
        BY <4>1, <3>2, <2>0 DEF TypeOK
      <4>2. CASE <<q, t>> # <<r, s>>
        BY <4>2, <3>2, <2>0 DEF TypeOK
      <4> QED
        BY <4>1, <4>2
    <3>4. \A x \in Runs, y \in Streams : write'[x][y] # <<q, t>>
      BY <3>2, PipeNames DEF TypeOK, Closed
    <3>5. \A x \in Runs : child'[x] \in {"running", "quiet"} =>
            <<q, t>> \notin inherited'[x] /\ \A y \in Streams : std'[x][y] # <<q, t>>
      BY <3>2 DEF TypeOK
    <3> QED
      BY <3>3, <3>4, <3>5 DEF Shut, HasWriter
  <2> QED
    BY <2>1, <2>2, <2>3, <2>4
\* A reader thread is at the end of file.
<1>8. ASSUME NEW r \in Runs, NEW s \in Streams, ReadEnds(r, s) PROVE Inv'
  <2> USE <1>8, PipeNames DEF Inv, ReadEnds, Reading, Goto, parentVars, childVars, pipeVars
  <2>0. read[r][s] = <<r, s>>
    BY DEF OwnPipes
  <2>1. TypeOK'
    BY CapacityAssumption, RunsAssumption DEF TypeOK, Labels, Streams, Closed, OwnPipes, OpenedInv
  <2>2. OwnPipes'
    BY DEF OwnPipes, TypeOK, Closed, Streams
  <2>3. OpenedInv' /\ StageInv'
    BY ModesAssumption, RunsAssumption
       DEF OpenedInv, StageInv, OwnPipes, TypeOK, Redirected, Closed, Mode, Streams
  <2>4. ShutInv'
    <3> SUFFICES ASSUME NEW q \in Runs, NEW t \in Streams, t \in ended'[q] \/ Redirected(q, t)'
                 PROVE  Shut(<<q, t>>)'
      BY DEF ShutInv
    <3>1. Shut(<<q, t>>)
      <4>1. CASE <<q, t>> = <<r, s>>
        BY <4>1, <2>0 DEF Shut
      <4>2. CASE <<q, t>> # <<r, s>>
        <5>1. t \in ended[q] \/ Redirected(q, t)
          BY <4>2 DEF TypeOK, Redirected
        <5> QED
          BY <5>1 DEF ShutInv
      <4> QED
        BY <4>1, <4>2
    <3>2. /\ got[<<q, t>>] = sent[<<q, t>>]
          /\ \A x \in Runs, y \in Streams : write[x][y] # <<q, t>>
          /\ \A x \in Runs : child[x] \in {"running", "quiet"} =>
               <<q, t>> \notin inherited[x] /\ \A y \in Streams : std[x][y] # <<q, t>>
      BY <3>1, ShutMeans
    <3>3. got'[<<q, t>>] = sent'[<<q, t>>]
      BY <3>2 DEF TypeOK
    <3>4. \A x \in Runs, y \in Streams : write'[x][y] # <<q, t>>
      BY <3>2, PipeNames DEF TypeOK, Closed
    <3>5. \A x \in Runs : child'[x] \in {"running", "quiet"} =>
            <<q, t>> \notin inherited'[x] /\ \A y \in Streams : std'[x][y] # <<q, t>>
      BY <3>2 DEF TypeOK
    <3> QED
      BY <3>3, <3>4, <3>5 DEF Shut, HasWriter
  <2> QED
    BY <2>1, <2>2, <2>3, <2>4
\* The reader threads are joined.
<1>9. ASSUME NEW r \in Runs, Join(r) PROVE Inv'
  <2> USE <1>9, PipeNames DEF Inv, Join, Goto, parentVars, childVars, pipeVars
  <2>1. TypeOK'
    BY CapacityAssumption, RunsAssumption DEF TypeOK, Labels, Streams, Closed, OwnPipes, OpenedInv
  <2>2. OwnPipes'
    BY DEF OwnPipes, TypeOK, Closed, Streams
  <2>3. OpenedInv' /\ StageInv'
    <3>1. \A s \in Streams : s \in ended[r] \/ Redirected(r, s)
      <4> SUFFICES ASSUME NEW s \in Streams, ~Redirected(r, s) PROVE s \in ended[r]
        OBVIOUS
      <4>1. read[r][s] = <<r, s>>
        BY DEF OpenedInv
      <4> QED
        BY <4>1
    <3> QED
      BY <3>1 DEF OpenedInv, StageInv, TypeOK, Redirected
  <2>4. ShutInv'
    <3>1. NothingGained
      BY DEF NothingGained, TypeOK, Redirected, Closed
    <3> QED
      BY <3>1, <1>s
  <2> QED
    BY <2>1, <2>2, <2>3, <2>4
\* waitpid gives a status.
<1>10. ASSUME NEW r \in Runs, WaitPid(r) PROVE Inv'
  <2> USE <1>10, PipeNames DEF Inv, WaitPid, Named, Goto, parentVars, childVars, pipeVars
  <2>1. TypeOK'
    BY CapacityAssumption, RunsAssumption DEF TypeOK, Labels, Streams, Closed, OwnPipes, OpenedInv
  <2>2. OwnPipes'
    BY DEF OwnPipes, TypeOK, Closed, Streams
  <2>3. OpenedInv' /\ StageInv'
    BY ModesAssumption, RunsAssumption
       DEF OpenedInv, StageInv, OwnPipes, TypeOK, Redirected, Closed, Mode, Streams
  <2>4. ShutInv'
    <3>1. NothingGained
      BY DEF NothingGained, TypeOK, Redirected, Closed
    <3> QED
      BY <3>1, <1>s
  <2> QED
    BY <2>1, <2>2, <2>3, <2>4
\* waitpid fails.
<1>11. ASSUME NEW r \in Runs, WaitPidFails(r) PROVE Inv'
  <2> USE <1>11, PipeNames DEF Inv, WaitPidFails, Named, Goto, parentVars, childVars, pipeVars
  <2>1. TypeOK'
    BY CapacityAssumption, RunsAssumption DEF TypeOK, Labels, Streams, Closed, OwnPipes, OpenedInv
  <2>2. OwnPipes'
    BY DEF OwnPipes, TypeOK, Closed, Streams
  <2>3. OpenedInv' /\ StageInv'
    BY ModesAssumption, RunsAssumption
       DEF OpenedInv, StageInv, OwnPipes, TypeOK, Redirected, Closed, Mode, Streams
  <2>4. ShutInv'
    <3>1. NothingGained
      BY DEF NothingGained, TypeOK, Redirected, Closed
    <3> QED
      BY <3>1, <1>s
  <2> QED
    BY <2>1, <2>2, <2>3, <2>4
\* The call returns.
<1>12. ASSUME NEW r \in Runs, Destroy(r) PROVE Inv'
  <2> USE <1>12, PipeNames DEF Inv, Destroy, Goto, parentVars, childVars, pipeVars
  <2>1. TypeOK'
    BY CapacityAssumption, RunsAssumption DEF TypeOK, Labels, Streams, Closed, OwnPipes, OpenedInv
  <2>2. OwnPipes'
    BY DEF OwnPipes, TypeOK, Closed, Streams
  <2>3. OpenedInv' /\ StageInv'
    BY ModesAssumption, RunsAssumption
       DEF OpenedInv, StageInv, OwnPipes, TypeOK, Redirected, Closed, Mode, Streams
  <2>4. ShutInv'
    <3>1. NothingGained
      BY DEF NothingGained, TypeOK, Redirected, Closed
    <3> QED
      BY <3>1, <1>s
  <2> QED
    BY <2>1, <2>2, <2>3, <2>4
\* The child is about to write.
<1>13. ASSUME NEW r \in Runs, NEW s \in Streams, Decide(r, s) PROVE Inv'
  <2> USE <1>13, PipeNames DEF Inv, Decide, Goto, parentVars, childVars, pipeVars
  <2>1. TypeOK'
    BY CapacityAssumption, RunsAssumption DEF TypeOK, Labels, Streams, Closed, OwnPipes, OpenedInv
  <2>2. OwnPipes'
    BY DEF OwnPipes, TypeOK, Closed, Streams
  <2>3. OpenedInv' /\ StageInv'
    BY ModesAssumption, RunsAssumption
       DEF OpenedInv, StageInv, OwnPipes, TypeOK, Redirected, Closed, Mode, Streams
  <2>4. ShutInv'
    <3>1. NothingGained
      BY DEF NothingGained, TypeOK, Redirected, Closed
    <3> QED
      BY <3>1, <1>s
  <2> QED
    BY <2>1, <2>2, <2>3, <2>4
\* The child writes.
<1>14. ASSUME NEW r \in Runs, NEW s \in Streams, Write(r, s) PROVE Inv'
  <2> USE <1>14, PipeNames DEF Inv, Write, Goto, parentVars, childVars, pipeVars
  <2>1. TypeOK'
    BY CapacityAssumption, RunsAssumption DEF TypeOK, Labels, Streams, Closed, OwnPipes, OpenedInv
  <2>2. OwnPipes'
    BY DEF OwnPipes, TypeOK, Closed, Streams
  <2>3. OpenedInv' /\ StageInv'
    BY ModesAssumption, RunsAssumption
       DEF OpenedInv, StageInv, OwnPipes, TypeOK, Redirected, Closed, Mode, Streams
  <2>4. ShutInv'
    <3> SUFFICES ASSUME NEW q \in Runs, NEW t \in Streams, t \in ended'[q] \/ Redirected(q, t)'
                 PROVE  Shut(<<q, t>>)'
      BY DEF ShutInv
    <3>1. Shut(<<q, t>>) /\ (t \in ended[q] \/ Redirected(q, t))
      BY DEF ShutInv, Redirected, TypeOK
    <3>2. /\ got[<<q, t>>] = sent[<<q, t>>]
          /\ \A x \in Runs, y \in Streams : write[x][y] # <<q, t>>
          /\ \A x \in Runs : child[x] \in {"running", "quiet"} =>
               <<q, t>> \notin inherited[x] /\ \A y \in Streams : std[x][y] # <<q, t>>
      BY <3>1, ShutMeans
    <3>3. got'[<<q, t>>] = sent'[<<q, t>>]
      <4>1. std[r][s] # <<q, t>>
        BY <3>2
      <4> QED
        BY <4>1, <3>2 DEF TypeOK
    <3>4. \A x \in Runs, y \in Streams : write'[x][y] # <<q, t>>
      BY <3>2, PipeNames DEF TypeOK, Closed
    <3>5. \A x \in Runs : child'[x] \in {"running", "quiet"} =>
            <<q, t>> \notin inherited'[x] /\ \A y \in Streams : std'[x][y] # <<q, t>>
      BY <3>2 DEF TypeOK
    <3> QED
      BY <3>3, <3>4, <3>5 DEF Shut, HasWriter
  <2> QED
    BY <2>1, <2>2, <2>3, <2>4
\* The child closes its streams.
<1>15. ASSUME NEW r \in Runs, HangUp(r) PROVE Inv'
  <2> USE <1>15, PipeNames DEF Inv, HangUp, Goto, parentVars, childVars, pipeVars
  <2>1. TypeOK'
    BY CapacityAssumption, RunsAssumption DEF TypeOK, Labels, Streams, Closed, OwnPipes, OpenedInv
  <2>2. OwnPipes'
    BY DEF OwnPipes, TypeOK, Closed, Streams
  <2>3. OpenedInv' /\ StageInv'
    BY ModesAssumption, RunsAssumption
       DEF OpenedInv, StageInv, OwnPipes, TypeOK, Redirected, Closed, Mode, Streams
  <2>4. ShutInv'
    <3>1. NothingGained
      BY DEF NothingGained, TypeOK, Redirected, Closed
    <3> QED
      BY <3>1, <1>s
  <2> QED
    BY <2>1, <2>2, <2>3, <2>4
\* The child exits.
<1>16. ASSUME NEW r \in Runs, Exit(r) PROVE Inv'
  <2> USE <1>16, PipeNames DEF Inv, Exit, Goto, parentVars, childVars, pipeVars
  <2>1. TypeOK'
    BY CapacityAssumption, RunsAssumption DEF TypeOK, Labels, Streams, Closed, OwnPipes, OpenedInv
  <2>2. OwnPipes'
    BY DEF OwnPipes, TypeOK, Closed, Streams
  <2>3. OpenedInv' /\ StageInv'
    BY ModesAssumption, RunsAssumption
       DEF OpenedInv, StageInv, OwnPipes, TypeOK, Redirected, Closed, Mode, Streams
  <2>4. ShutInv'
    <3>1. NothingGained
      BY DEF NothingGained, TypeOK, Redirected, Closed
    <3> QED
      BY <3>1, <1>s
  <2> QED
    BY <2>1, <2>2, <2>3, <2>4
\* A step that changes nothing.
<1>17. ASSUME UNCHANGED vars PROVE Inv'
  <2> USE <1>17 DEF Inv, vars
  <2>1. TypeOK' /\ OwnPipes'
    BY DEF TypeOK, OwnPipes
  <2>2. OpenedInv' /\ StageInv'
    BY DEF OpenedInv, StageInv, Redirected
  <2>3. ShutInv'
    <3> SUFFICES ASSUME NEW r \in Runs, NEW s \in Streams, s \in ended'[r] \/ Redirected(r, s)'
                 PROVE  Shut(<<r, s>>)'
      BY DEF ShutInv
    <3>1. Shut(<<r, s>>)
      BY DEF ShutInv, Redirected
    <3> QED
      BY <3>1 DEF Shut, HasWriter
  <2> QED
    BY <2>1, <2>2, <2>3
<1>18. ASSUME NEW r \in Runs, Thread(r) PROVE Inv'
  BY <1>18, <1>1, <1>2, <1>6, <1>3, <1>4, <1>5,
     <1>9, <1>10, <1>11, <1>12 DEF Thread
<1>19. ASSUME NEW r \in Runs, Child(r) PROVE Inv'
  BY <1>19, <1>15, <1>16, <1>13, <1>14 DEF Child
<1>20. ASSUME NEW r \in Runs, NEW s \in Streams, Reader(r, s) PROVE Inv'
  BY <1>20, <1>7, <1>8 DEF Reader
<1> QED
  BY <1>17, <1>18, <1>19, <1>20 DEF Next

\* The invariant holds in every state that concurrent calls can reach.
THEOREM Invariance == Spec => []Inv
<1>1. Init => Inv
  <2> SUFFICES ASSUME Init PROVE Inv
    OBVIOUS
  <2> USE DEF Init, Closed
  <2>1. TypeOK
    BY CapacityAssumption, PipeNames DEF TypeOK, Labels, Pipes
  <2>2. OwnPipes /\ OpenedInv /\ StageInv
    BY PipeNames DEF OwnPipes, OpenedInv, StageInv, Redirected
  <2>3. ShutInv
    BY PipeNames DEF ShutInv, Shut, HasWriter, Pipes
  <2> QED
    BY <2>1, <2>2, <2>3 DEF Inv
<1> QED
  BY <1>1, NextInv, PTL DEF Spec

\* Every variable keeps its type, and no pipe ever holds more than fits into it.
THEOREM TypeCorrect == Spec => []TypeOK
<1>1. Inv => TypeOK
  BY DEF Inv
<1> QED
  BY <1>1, Invariance, PTL

\* Once the reader threads are joined, a call has all that its child wrote and nobody
\* can write to its pipes any more, whoever inherited them.
THEOREM OutputIsComplete == Spec => []OutputComplete
<1>1. Inv => OutputComplete
  BY DEF Inv, StageInv, ShutInv, Shut, OutputComplete
<1> QED
  BY <1>1, Invariance, PTL

-----------------------------------------------------------------------------
(* ProcessIo implements IoRun. *)

\* The labels at which a call is still under way.
Underway == Labels \ {"returned", "not_open"}

\* What IoRun sees of a step: the calls, the children, and the captured writes.
LEMMA StepImplements == Inv /\ [Next]_vars => [Promise!IoNext]_(Promise!ioVars)
<1> SUFFICES ASSUME Inv, [Next]_vars PROVE [Promise!IoNext]_(Promise!ioVars)
  OBVIOUS
<1>a. ASSUME NEW r \in Runs, NEW label \in Underway, pc[r] \in Underway,
             pc' = [pc EXCEPT ![r] = label]
      PROVE  Calls' = Calls
  BY <1>a DEF Calls, Inv, TypeOK, Underway
<1>b. ASSUME NEW r \in Runs, child' = [child EXCEPT ![r] = "quiet"], child[r] = "running"
      PROVE  Children' = Children
  BY <1>b DEF Children, Inv, TypeOK
<1> USE DEF Inv, Promise!IoNext, Promise!ioVars, parentVars, childVars, pipeVars
\* The steps of a call.
<1>1. ASSUME NEW r \in Runs, NEW s \in Streams, OpenStream(r, s) PROVE UNCHANGED Promise!ioVars
  <2>1. Calls' = Calls
    BY <1>1, <1>a DEF OpenStream, Goto, Underway, Labels, Streams
  <2> QED
    BY <1>1, <2>1 DEF OpenStream, Children
<1>2. ASSUME NEW r \in Runs, NEW s \in Streams, CloseWrite(r, s) PROVE UNCHANGED Promise!ioVars
  <2>1. Calls' = Calls
    BY <1>2, <1>a DEF CloseWrite, Goto, Underway, Labels, Streams
  <2> QED
    BY <1>2, <2>1 DEF CloseWrite, Children
<1>3. ASSUME NEW r \in Runs, Redirect(r) \/ SpawnFails(r) \/ Join(r) \/ WaitPidFails(r)
      PROVE  [Promise!IoNext]_(Promise!ioVars)
  <2>1. Calls' = Calls
    BY <1>3, <1>a DEF Redirect, SpawnFails, Join, WaitPidFails, Goto, Underway, Labels
  <2> QED
    BY <1>3, <2>1 DEF Redirect, SpawnFails, Join, WaitPidFails, Children
<1>4. ASSUME NEW r \in Runs, Spawn(r)
      PROVE  [Promise!IoNext]_(Promise!ioVars)
  <2>1. Calls' = Calls /\ Calls[r] = "active"
    BY <1>4, <1>a DEF Spawn, Goto, Underway, Labels, Calls
  <2>2. Children[r] = "none" /\ Children' = [Children EXCEPT ![r] = "alive"]
    BY <1>4 DEF Spawn, StageInv, Children, TypeOK
  <2>3. Promise!Launch(r)
    BY <1>4, <2>1, <2>2 DEF Promise!Launch, Spawn
  <2> QED
    BY <2>3
<1>5. ASSUME NEW r \in Runs, NEW s \in Streams, OpenFails(r, s) PROVE Promise!Refuse(r)
  <2>1. Children[r] = "none" /\ Children' = Children
    BY <1>5 DEF OpenFails, StageInv, Children, Streams
  <2>2. Calls[r] = "active" /\ Calls' = [Calls EXCEPT ![r] = "refused"]
    BY <1>5 DEF OpenFails, Goto, Calls, TypeOK, Streams, Labels
  <2> QED
    BY <1>5, <2>1, <2>2 DEF Promise!Refuse, OpenFails
<1>6. ASSUME NEW r \in Runs, WaitPid(r)
      PROVE  [Promise!IoNext]_(Promise!ioVars)
  <2>1. Calls' = Calls
    BY <1>6, <1>a DEF WaitPid, Goto, Underway, Labels
  <2>2. Children' = Children
    BY <1>6, RunsAssumption DEF WaitPid, Named, Children, TypeOK
  <2> QED
    BY <1>6, <2>1, <2>2 DEF WaitPid
<1>7. ASSUME NEW r \in Runs, Destroy(r)
      PROVE  [Promise!IoNext]_(Promise!ioVars)
  <2>1. Calls[r] = "active" /\ Calls' = [Calls EXCEPT ![r] = "returned"]
    BY <1>7 DEF Destroy, Goto, Calls, TypeOK, Labels
  <2>2. Children[r] # "alive" /\ Children' = Children
    BY <1>7 DEF Destroy, StageInv, Children, TypeOK
  <2>3. \A s \in Streams : got[<<r, s>>] = sent[<<r, s>>]
    BY <1>7 DEF Destroy, StageInv, ShutInv, Shut
  <2>4. Promise!ReturnCapture(r)
    BY <1>7, <2>1, <2>2, <2>3 DEF Promise!ReturnCapture, Destroy
  <2> QED
    BY <2>4
\* Its reader threads.
<1>8. ASSUME NEW r \in Runs, NEW s \in Streams, Read(r, s)
      PROVE  [Promise!IoNext]_(Promise!ioVars)
  <2>1. read[r][s] = <<r, s>> /\ Calls[r] = "active"
    BY <1>8 DEF Read, Reading, OwnPipes, Calls
  <2>2. UNCHANGED <<Calls, Children>>
    BY <1>8 DEF Read, Calls, Children
  <2>3. Promise!Hear(r, s)
    BY <1>8, <2>1, <2>2 DEF Read, Promise!Hear
  <2> QED
    BY <2>3
<1>9. ASSUME NEW r \in Runs, NEW s \in Streams, ReadEnds(r, s)
      PROVE  [Promise!IoNext]_(Promise!ioVars)
  BY <1>9 DEF ReadEnds, Calls, Children
\* Its child.
<1>10. ASSUME NEW r \in Runs, HangUp(r)
      PROVE  [Promise!IoNext]_(Promise!ioVars)
  BY <1>10, <1>b DEF HangUp, Calls
<1>11. ASSUME NEW r \in Runs, Exit(r)
      PROVE  [Promise!IoNext]_(Promise!ioVars)
  <2>1. Children[r] = "alive" /\ Children' = [Children EXCEPT ![r] = "over"]
    BY <1>11 DEF Exit, Children, TypeOK
  <2>2. Promise!ChildEnds(r)
    BY <1>11, <2>1 DEF Exit, Promise!ChildEnds, Calls
  <2> QED
    BY <2>2
<1>12. ASSUME NEW r \in Runs, NEW s \in Streams, Decide(r, s) PROVE UNCHANGED Promise!ioVars
  BY <1>12 DEF Decide, Calls, Children
<1>13. ASSUME NEW r \in Runs, NEW s \in Streams, Write(r, s) PROVE \E t \in Streams : Promise!Say(r, t)
  <2>1. PICK t \in Streams : std[r][s] = <<r, t>>
    BY <1>13 DEF Write, OwnPipes, OpenedInv, Streams
  <2>2. Children[r] = "alive" /\ UNCHANGED <<Calls, Children>>
    BY <1>13 DEF Write, Calls, Children
  <2> QED
    BY <1>13, <2>1, <2>2 DEF Write, Promise!Say
<1>14. CASE UNCHANGED vars
  BY <1>14 DEF vars, Calls, Children
<1> HIDE DEF Inv, Promise!IoNext, Promise!ioVars, parentVars, childVars, pipeVars
<1>15. ASSUME NEW r \in Runs, Thread(r) PROVE [Promise!IoNext]_(Promise!ioVars)
  BY <1>15, <1>1, <1>2, <1>3, <1>4, <1>5, <1>6, <1>7 DEF Thread, Promise!IoNext
<1>16. ASSUME NEW r \in Runs, NEW s \in Streams, Reader(r, s)
       PROVE  [Promise!IoNext]_(Promise!ioVars)
  BY <1>16, <1>8, <1>9 DEF Reader
<1>17. ASSUME NEW r \in Runs, Child(r) PROVE [Promise!IoNext]_(Promise!ioVars)
  BY <1>17, <1>10, <1>11, <1>12, <1>13 DEF Child, Promise!IoNext
<1> QED
  BY <1>14, <1>15, <1>16, <1>17 DEF Next

\* A call of io::run returns after its child is over and with all the child wrote, and a
\* call that is refused has no child, although descriptors leak into other children,
\* posix_spawn may fail unseen and one call may take the status of another's child.
THEOREM Implements == Spec => ImplementsIoRun
<1>1. Init => Promise!IoInit
  BY DEF Init, Promise!IoInit, Calls, Children, Pipes, Promise!Pipes
<1> QED
  BY <1>1, StepImplements, Invariance, PTL DEF Spec, ImplementsIoRun, Promise!IoSpec
=============================================================================
