------------------------------ MODULE ProcessIo ------------------------------
(***************************************************************************)
(* io::run of src/posix/run.cc, called by several threads at once: the     *)
(* pipes it opens, posix_spawn, the threads that read what the child       *)
(* writes, and waitpid.  The descriptors are those of one process, so a    *)
(* child inherits whatever any thread has open when it is spawned: pipe()  *)
(* is called without O_CLOEXEC, and the file actions close only the pipes  *)
(* of the child's own run.                                                 *)
(*                                                                         *)
(* A run is named r, and the pipe it opens for a stream s <<r, s>>.        *)
(* options.input is left out: no caller sets it.                           *)
(***************************************************************************)
EXTENDS Naturals, FiniteSets

CONSTANTS
  Runs,          \* the calls of io::run
  Modes,         \* what "output" of the tests asks for, see Mode below
  Capacity,      \* how many writes of a child fit into a pipe
  MaxWrites,     \* bound: writes of each child, to both pipes together
  SpawnMayFail   \* posix_spawn may return an error

ASSUME CapacityAssumption == Capacity \in Nat \ {0}
ASSUME MaxWritesAssumption == MaxWrites \in [Runs -> Nat]
ASSUME SpawnMayFailAssumption == SpawnMayFail \in BOOLEAN

Streams == {"output", "error"}
Pipes == Runs \X Streams
NoPipe == <<>>

\* stream_decl of both streams: "piped" for each, or one redirected to the other.
Mode == {"piped", "error_to_output", "output_to_error"}
ASSUME ModesAssumption == Modes \subseteq Mode

\* Values of the variable that receives the pid: the child of a run, -1 (which
\* waitpid takes for "any child") or a process that is no child at all.
AnyChild == "any"
NoChild == "none"
ASSUME RunsAssumption == AnyChild \notin Runs /\ NoChild \notin Runs

VARIABLES
  mode,       \* the streams of each run
  pc,         \* where each call of io::run is
  read,       \* pipe_type::read of its streams
  write,      \* pipe_type::write of its streams
  ended,      \* its reader threads that have ended
  pid,        \* what spawn returned
  from,       \* whose status waitpid gave
  child,      \* its child: "none", "running", "quiet", "exited" or "reaped"
  std,        \* where the child's stdout and stderr lead
  inherited,  \* write ends of other runs that the child holds without knowing
  want,       \* the stream the child is about to write to
  sent,       \* number of writes to each pipe
  got         \* number of them that were read

vars == <<mode, pc, read, write, ended, pid, from, child, std, inherited, want, sent, got>>
parentVars == <<mode, pc, read, write, ended, pid, from>>
childVars == <<child, std, inherited, want>>
pipeVars == <<sent, got>>

Labels == {"output", "error", "redirect", "spawn", "close_output", "close_error", "read",
           "wait", "destroy", "returned", "not_open"}

Closed == [s \in Streams |-> NoPipe]

Init ==
  /\ mode \in [Runs -> Modes]
  /\ pc = [r \in Runs |-> "output"]
  /\ read = [r \in Runs |-> Closed] /\ write = [r \in Runs |-> Closed]
  /\ ended = [r \in Runs |-> {}]
  /\ pid = [r \in Runs |-> NoChild] /\ from = [r \in Runs |-> NoChild]
  /\ child = [r \in Runs |-> "none"]
  /\ std = [r \in Runs |-> Closed]
  /\ inherited = [r \in Runs |-> {}]
  /\ want = [r \in Runs |-> "nothing"]
  /\ sent = [p \in Pipes |-> 0] /\ got = [p \in Pipes |-> 0]

Goto(r, label) == pc' = [pc EXCEPT ![r] = label]

-----------------------------------------------------------------------------
(* pipes_type::open *)

Redirected(r, s) == mode[r] = IF s = "output" THEN "output_to_error" ELSE "error_to_output"

\* OPEN(output) and OPEN(error): a redirected stream opens nothing here.
OpenStream(r, s) ==
  /\ pc[r] = s
  /\ IF Redirected(r, s)
       THEN UNCHANGED <<read, write>>
       ELSE /\ read' = [read EXCEPT ![r][s] = <<r, s>>]
            /\ write' = [write EXCEPT ![r][s] = <<r, s>>]
  /\ Goto(r, IF s = "output" THEN "error" ELSE "redirect")
  /\ UNCHANGED <<mode, ended, pid, from, childVars, pipeVars>>

\* pipe() fails: io::run returns 128, and ~pipe_type closes what is open.
OpenFails(r, s) ==
  /\ pc[r] = s
  /\ ~Redirected(r, s)
  /\ Goto(r, "not_open")
  /\ read' = [read EXCEPT ![r] = Closed]
  /\ write' = [write EXCEPT ![r] = Closed]
  /\ UNCHANGED <<mode, ended, pid, from, childVars, pipeVars>>

OtherOf(s) == IF s = "output" THEN "error" ELSE "output"

\* The redirected stream gets a dup() of the write end of the other.  Whether it is -1 is
\* not looked at, and the child has the stream of the program then.
Redirect(r) ==
  /\ pc[r] = "redirect"
  /\ \E copied \in BOOLEAN :
       write' = [write EXCEPT ![r] =
                   [s \in Streams |-> IF ~Redirected(r, s) THEN @[s]
                                      ELSE IF copied THEN @[OtherOf(s)] ELSE NoPipe]]
  /\ Goto(r, "spawn")
  /\ UNCHANGED <<mode, read, ended, pid, from, childVars, pipeVars>>

-----------------------------------------------------------------------------
(* spawn *)

OpenInOtherRuns(r) ==
  {p \in Pipes : \E q \in Runs \ {r}, s \in Streams : write[q][s] = p}

Spawn(r) ==
  /\ pc[r] = "spawn"
  /\ pid' = [pid EXCEPT ![r] = r]
  /\ child' = [child EXCEPT ![r] = "running"]
  /\ std' = [std EXCEPT ![r] = write[r]]
  /\ inherited' = [inherited EXCEPT ![r] = OpenInOtherRuns(r)]
  /\ Goto(r, "close_output")
  /\ UNCHANGED <<mode, read, write, ended, from, want, pipeVars>>

\* The result of posix_spawn is ignored: "pid_t result;" is returned as it was,
\* uninitialised, and io::run goes on.
SpawnFails(r) ==
  /\ SpawnMayFail
  /\ pc[r] = "spawn"
  /\ \E garbage \in Runs \cup {AnyChild, NoChild} : pid' = [pid EXCEPT ![r] = garbage]
  /\ Goto(r, "close_output")
  /\ UNCHANGED <<mode, read, write, ended, from, childVars, pipeVars>>

-----------------------------------------------------------------------------
(* pipes_type::io *)

CloseWrite(r, s) ==
  /\ pc[r] = IF s = "output" THEN "close_output" ELSE "close_error"
  /\ write' = [write EXCEPT ![r][s] = NoPipe]
  /\ Goto(r, IF s = "output" THEN "close_error" ELSE "read")
  /\ UNCHANGED <<mode, read, ended, pid, from, childVars, pipeVars>>

\* Somebody may still write to the pipe: a thread that has not closed its end, a
\* child that writes to it or one that inherited it.
HasWriter(p) ==
  \/ \E r \in Runs, s \in Streams : write[r][s] = p
  \/ \E r \in Runs : /\ child[r] \in {"running", "quiet"}
                     /\ p \in inherited[r] \/ \E s \in Streams : std[r][s] = p

ReadingInTurn(r, s) ==  \* mutant: stderr is read when stdout is at its end
  /\ pc[r] = "read" /\ read[r][s] # NoPipe /\ s \notin ended[r]
  /\ s = "error" /\ read[r]["output"] # NoPipe => "output" \in ended[r]

\* The reader threads start one right after the other and run side by side.
Reading(r, s) == pc[r] = "read" /\ read[r][s] # NoPipe /\ s \notin ended[r]

\* ::read() returns some of what is in the pipe ...
Read(r, s) ==
  /\ Reading(r, s)
  /\ LET p == read[r][s] IN
       \E n \in got[p] + 1 .. sent[p] : got' = [got EXCEPT ![p] = n]
  /\ UNCHANGED <<parentVars, childVars, sent>>

\* ... or 0 at the end of file, which ends the thread.
ReadEnds(r, s) ==
  /\ Reading(r, s)
  /\ got[read[r][s]] = sent[read[r][s]] /\ ~HasWriter(read[r][s])
  /\ ended' = [ended EXCEPT ![r] = @ \cup {s}]
  /\ UNCHANGED <<mode, pc, read, write, pid, from, childVars, pipeVars>>

\* for (auto& thread : threads) thread.join();
Join(r) ==
  /\ pc[r] = "read"
  /\ \A s \in Streams : read[r][s] # NoPipe => s \in ended[r]
  /\ Goto(r, "wait")
  /\ UNCHANGED <<mode, read, write, ended, pid, from, childVars, pipeVars>>

-----------------------------------------------------------------------------
(* waitpid, and the destructor of the pipes *)

Named(r) == IF pid[r] = AnyChild THEN Runs ELSE {pid[r]} \cap Runs

WaitPidNoHang(r) ==  \* mutant: WNOHANG, and the child is still running
  /\ pc[r] = "wait"
  /\ from' = [from EXCEPT ![r] = NoChild]
  /\ Goto(r, "destroy")
  /\ UNCHANGED <<mode, read, write, ended, pid, childVars, pipeVars>>

WaitPid(r) ==
  /\ pc[r] = "wait"
  /\ \E q \in Named(r) :
       /\ child[q] = "exited"
       /\ child' = [child EXCEPT ![q] = "reaped"]
       /\ from' = [from EXCEPT ![r] = q]
  /\ Goto(r, "destroy")
  /\ UNCHANGED <<mode, read, write, ended, pid, std, inherited, want, pipeVars>>

\* ECHILD: "int status;" is read although waitpid did not set it.
WaitPidFails(r) ==
  /\ pc[r] = "wait"
  /\ \A q \in Named(r) : child[q] \notin {"running", "quiet", "exited"}
  /\ from' = [from EXCEPT ![r] = NoChild]
  /\ Goto(r, "destroy")
  /\ UNCHANGED <<mode, read, write, ended, pid, childVars, pipeVars>>

Destroy(r) ==
  /\ pc[r] = "destroy"
  /\ read' = [read EXCEPT ![r] = Closed]
  /\ write' = [write EXCEPT ![r] = Closed]
  /\ Goto(r, "returned")
  /\ UNCHANGED <<mode, ended, pid, from, childVars, pipeVars>>

-----------------------------------------------------------------------------
(* The child: writes to its streams in any order, and blocks on a full pipe *)

\* What it writes to a stream of the program is not counted.
Decide(r, s) ==
  /\ child[r] = "running" /\ want[r] = "nothing" /\ std[r][s] # NoPipe
  /\ sent[<<r, "output">>] + sent[<<r, "error">>] < MaxWrites[r]
  /\ want' = [want EXCEPT ![r] = s]
  /\ UNCHANGED <<parentVars, child, std, inherited, pipeVars>>

Write(r, s) ==
  /\ child[r] = "running" /\ want[r] = s
  /\ LET p == std[r][s] IN
       /\ sent[p] - got[p] < Capacity
       /\ sent' = [sent EXCEPT ![p] = @ + 1]
  /\ want' = [want EXCEPT ![r] = "nothing"]
  /\ UNCHANGED <<parentVars, child, std, inherited, got>>

\* The child may close its streams and go on.
HangUp(r) ==
  /\ child[r] = "running" /\ want[r] = "nothing"
  /\ child' = [child EXCEPT ![r] = "quiet"]
  /\ std' = [std EXCEPT ![r] = Closed]
  /\ UNCHANGED <<parentVars, inherited, want, pipeVars>>

Exit(r) ==
  /\ child[r] \in {"running", "quiet"} /\ want[r] = "nothing"
  /\ child' = [child EXCEPT ![r] = "exited"]
  /\ UNCHANGED <<parentVars, std, inherited, want, pipeVars>>

-----------------------------------------------------------------------------

Thread(r) ==
  \/ \E s \in Streams : OpenStream(r, s) \/ OpenFails(r, s) \/ CloseWrite(r, s)
  \/ Redirect(r) \/ Spawn(r) \/ SpawnFails(r) \/ Join(r)
  \/ WaitPid(r) \/ WaitPidFails(r) \/ Destroy(r)

Reader(r, s) == Read(r, s) \/ ReadEnds(r, s)
Child(r) == HangUp(r) \/ Exit(r) \/ \E s \in Streams : Decide(r, s) \/ Write(r, s)

Next == \E r \in Runs : Thread(r) \/ Child(r) \/ \E s \in Streams : Reader(r, s)

\* Every thread and every reader runs when it can, and a child that can write
\* does.  Nothing in the program makes a child exit.
Fairness ==
  /\ \A r \in Runs : WF_vars(Thread(r))
  /\ \A r \in Runs, s \in Streams : WF_vars(Reader(r, s)) /\ WF_vars(Write(r, s))

Spec == Init /\ [][Next]_vars /\ Fairness

\* The programs that are tested end when they have nothing more to write.
EndingSpec == Spec /\ \A r \in Runs : WF_vars(Exit(r))

-----------------------------------------------------------------------------
(* Properties *)

TypeOK ==
  /\ mode \in [Runs -> Modes]
  /\ pc \in [Runs -> Labels]
  /\ read \in [Runs -> [Streams -> Pipes \cup {NoPipe}]]
  /\ write \in [Runs -> [Streams -> Pipes \cup {NoPipe}]]
  /\ ended \in [Runs -> SUBSET Streams]
  /\ pid \in [Runs -> Runs \cup {AnyChild, NoChild}]
  /\ from \in [Runs -> Runs \cup {NoChild}]
  /\ child \in [Runs -> {"none", "running", "quiet", "exited", "reaped"}]
  /\ std \in [Runs -> [Streams -> Pipes \cup {NoPipe}]]
  /\ inherited \in [Runs -> SUBSET Pipes]
  /\ want \in [Runs -> Streams \cup {"nothing"}]
  /\ sent \in [Pipes -> Nat] /\ got \in [Pipes -> Nat]
  /\ \A p \in Pipes : got[p] <= sent[p] /\ sent[p] <= got[p] + Capacity

\* io::run returns all that its child wrote: once the readers are joined nothing
\* is left in the pipes of the run and nobody can write to them any more.
OutputComplete ==
  \A r \in Runs, s \in Streams :
    pc[r] \in {"wait", "destroy", "returned"} =>
      got[<<r, s>>] = sent[<<r, s>>] /\ ~HasWriter(<<r, s>>)

\* A child is reaped exactly once, by its own run, which returns its status.
OwnStatus ==
  \A r \in Runs : pc[r] = "returned" /\ child[r] # "none" => from[r] = r /\ child[r] = "reaped"

\* Every call of io::run returns, although a child may fill both of its pipes in
\* any order and another may have inherited them.
EveryRunReturns == \A r \in Runs : <>(pc[r] \in {"returned", "not_open"})

\* A call of io::run returns once its own child has exited, whatever the children
\* of other threads do.
ReturnsWithItsChild == \A r \in Runs : (child[r] = "exited") ~> (pc[r] = "returned")

\* Its calls, its children and what is written and read, as IoRun has them.
Calls ==
  [r \in Runs |-> CASE pc[r] = "returned" -> "returned"
                    [] pc[r] = "not_open" -> "refused"
                    [] OTHER -> "active"]
Children ==
  [r \in Runs |-> CASE child[r] = "none" -> "none"
                    [] child[r] \in {"running", "quiet"} -> "alive"
                    [] OTHER -> "over"]
Promise == INSTANCE IoRun WITH call <- Calls, child <- Children, said <- sent, heard <- got

\* A call of io::run on POSIX does what IoRun promises: it returns after its
\* child, with all of its output.
ImplementsIoRun == Promise!IoSpec
=============================================================================
