------------------------------- MODULE Win32Io -------------------------------
(***************************************************************************)
(* io::run of src/win32/run.cc, called by several threads at once.  It has *)
(* the steps of the POSIX one on other primitives: a child inherits only   *)
(* the handles its CreateProcess lists, a redirected stream is opened by   *)
(* nobody, and the process is waited for by its own handle.                *)
(*                                                                         *)
(* options.input and open_std are left out: no caller uses them.           *)
(***************************************************************************)
EXTENDS Naturals

CONSTANTS
  Runs,      \* the calls of io::run
  Modes,     \* what they may ask for: a pair of stream_decl for each call
  Capacity,  \* how many writes of a child fit into a pipe
  MaxWrites  \* bound: writes of each child, to both streams together

Streams == {"output", "error"}
Decl == {"piped", "devnull", "redirected", "nothing"}
Mode == [Streams -> Decl]

ASSUME ModesAssumption == Modes \subseteq [Runs -> Mode]
ASSUME CapacityAssumption == Capacity \in Nat \ {0}
ASSUME MaxWritesAssumption == MaxWrites \in [Runs -> Nat]

Pipes == Runs \X Streams

\* Values of a handle that is not that of a pipe.
Null == <<>>
Nul == <<"nul">>
Console == <<"console">>

VARIABLES
  mode,       \* the streams of each run
  pc,         \* where each call of io::run is: "returned" and "refused" are its ends
  read,       \* win32_pipe::read of its streams
  write,      \* win32_pipe::write of its streams
  inherits,   \* what CreateProcess is told: "nothing", "listed" or "everything"
  ended,      \* its reader threads that have ended
  code,       \* the return code: "own" of the child, or one that io::run "made"
  child,      \* its child: "none", "running", "quiet" or "exited"
  std,        \* where the child's stdout and stderr lead
  inherited,  \* write ends of other runs that the child holds without knowing
  want,       \* the stream the child is about to write to
  wrote,      \* number of its writes to each stream
  sent,       \* number of writes that went into each pipe
  got         \* number of them that were read

callVars == <<mode, read, write, inherits, ended, code>>
childVars == <<child, std, inherited, want, wrote>>
pipeVars == <<sent, got>>
vars == <<pc, callVars, childVars, pipeVars>>

Closed == [s \in Streams |-> Null]

Init ==
  /\ mode \in Modes
  /\ pc = [r \in Runs |-> "output"]
  /\ read = [r \in Runs |-> Closed] /\ write = [r \in Runs |-> Closed]
  /\ inherits = [r \in Runs |-> "nothing"]
  /\ ended = [r \in Runs |-> {}]
  /\ code = [r \in Runs |-> "none"]
  /\ child = [r \in Runs |-> "none"]
  /\ std = [r \in Runs |-> Closed]
  /\ inherited = [r \in Runs |-> {}]
  /\ want = [r \in Runs |-> "nothing"]
  /\ wrote = [p \in Pipes |-> 0]
  /\ sent = [p \in Pipes |-> 0] /\ got = [p \in Pipes |-> 0]

Goto(r, label) == pc' = [pc EXCEPT ![r] = label]

\* "return result;": ~win32_pipes closes what is open.
ReturnWith(r, label, c) ==
  /\ Goto(r, label)
  /\ code' = [code EXCEPT ![r] = c]
  /\ read' = [read EXCEPT ![r] = Closed]
  /\ write' = [write EXCEPT ![r] = Closed]

-----------------------------------------------------------------------------
(* Before the child *)

\* locate_file found nothing to run: -ENOENT or -EACCES.
LocateFails(r) ==
  /\ pc[r] = "output"
  /\ ReturnWith(r, "refused", "made")
  /\ UNCHANGED <<mode, inherits, ended, childVars, pipeVars>>

\* win32_pipes::open, one stream after the other.
OpenStream(r, s) ==
  /\ pc[r] = s
  /\ read' = [read EXCEPT ![r][s] = IF mode[r][s] = "piped" THEN <<r, s>> ELSE Null]
  /\ write' = [write EXCEPT ![r][s] = CASE mode[r][s] = "piped" -> <<r, s>>
                                        [] mode[r][s] = "devnull" -> Nul
                                        [] OTHER -> Null]
  /\ Goto(r, IF s = "output" THEN "error" ELSE "create")
  /\ UNCHANGED <<mode, inherits, ended, code, childVars, pipeVars>>

\* CreatePipe fails.
OpenFails(r, s) ==
  /\ pc[r] = s
  /\ mode[r][s] = "piped"
  /\ ReturnWith(r, "refused", "made")
  /\ UNCHANGED <<mode, inherits, ended, childVars, pipeVars>>

OpenInOtherRuns(r) == {p \in Pipes : p[1] # r /\ write[p[1]][p[2]] = p}

\* include_handles, and what CreateProcess is told by it: there is no list without
\* a handle; it may fail to be made, and then nothing is inherited; or it may
\* fail to be filled, and then nothing limits what is.
Lists(r) == IF write[r] = Closed THEN {"nothing"} ELSE {"nothing", "listed", "everything"}

AnyHandle(r, list) == OpenInOtherRuns(r)  \* mutant: bInheritHandles without a list

\* Handles of other runs that a child of this one gets.
ForeignHandles(r, list) == IF list = "everything" THEN OpenInOtherRuns(r) ELSE {}

\* CreateProcess.  Without a list the child has the console of the program.
Create(r) ==
  /\ pc[r] = "create"
  /\ child' = [child EXCEPT ![r] = "running"]
  /\ \E list \in Lists(r) :
       /\ inherits' = [inherits EXCEPT ![r] = list]
       /\ inherited' = [inherited EXCEPT ![r] = ForeignHandles(r, list)]
       /\ std' = [std EXCEPT ![r] = IF list = "nothing" THEN [s \in Streams |-> Console]
                                                       ELSE write[r]]
  /\ Goto(r, "close_output")
  /\ UNCHANGED <<mode, read, write, ended, code, want, wrote, pipeVars>>

CreateFails(r) ==
  /\ pc[r] = "create"
  /\ ReturnWith(r, "refused", "made")
  /\ UNCHANGED <<mode, inherits, ended, childVars, pipeVars>>

-----------------------------------------------------------------------------
(* win32_pipes::io *)

CloseWrite(r, s) ==
  /\ pc[r] = IF s = "output" THEN "close_output" ELSE "close_error"
  /\ write' = [write EXCEPT ![r][s] = Null]
  /\ Goto(r, IF s = "output" THEN "close_error" ELSE "await")
  /\ UNCHANGED <<mode, read, inherits, ended, code, childVars, pipeVars>>

HasWriter(p) ==
  \/ write[p[1]][p[2]] = p
  \/ \E r \in Runs : /\ child[r] \in {"running", "quiet"}
                     /\ p \in inherited[r] \/ \E s \in Streams : std[r][s] = p

\* A handle that is null fails the wait; a read end has something to give or its end.
Answers(r, s) ==
  LET p == read[r][s] IN p # Null => got[p] < sent[p] \/ ~HasWriter(p)

AwaitBoth(r) ==  \* mutant: WaitForMultipleObjects(2, handles, TRUE, INFINITE)
  /\ pc[r] = "await"
  /\ \/ \E s \in Streams : read[r][s] = Null
     \/ \A s \in Streams : Answers(r, s)
  /\ Goto(r, "read")
  /\ UNCHANGED <<callVars, childVars, pipeVars>>

\* WaitForMultipleObjects(2, handles, FALSE, INFINITE), and only then the readers start:
\* until one of the two answers, nobody reads.
Await(r) ==
  /\ pc[r] = "await"
  /\ \E s \in Streams : Answers(r, s)
  /\ Goto(r, "read")
  /\ UNCHANGED <<callVars, childVars, pipeVars>>

\* What a pipe does in such a wait is not said anywhere: it may also return at once.
AwaitNothing(r) ==
  /\ pc[r] = "await"
  /\ Goto(r, "read")
  /\ UNCHANGED <<callVars, childVars, pipeVars>>

\* The readers start one right after the other and run side by side.
Reading(r, s) == pc[r] = "read" /\ read[r][s] # Null /\ s \notin ended[r]

Read(r, s) ==
  /\ Reading(r, s)
  /\ LET p == read[r][s] IN
       \E n \in got[p] + 1 .. sent[p] : got' = [got EXCEPT ![p] = n]
  /\ UNCHANGED <<pc, callVars, childVars, sent>>

ReadEndsEarly(r, s) ==  \* mutant: a read that finds the pipe empty ends the thread
  /\ Reading(r, s)
  /\ got[read[r][s]] = sent[read[r][s]]
  /\ ended' = [ended EXCEPT ![r] = @ \cup {s}]
  /\ UNCHANGED <<pc, mode, read, write, inherits, code, childVars, pipeVars>>

\* ReadFile fails or gives nothing when nobody can write any more.
ReadEnds(r, s) ==
  /\ Reading(r, s)
  /\ got[read[r][s]] = sent[read[r][s]] /\ ~HasWriter(read[r][s])
  /\ ended' = [ended EXCEPT ![r] = @ \cup {s}]
  /\ UNCHANGED <<pc, mode, read, write, inherits, code, childVars, pipeVars>>

Join(r) ==
  /\ pc[r] = "read"
  /\ \A s \in Streams : read[r][s] # Null => s \in ended[r]
  /\ Goto(r, "wait")
  /\ UNCHANGED <<callVars, childVars, pipeVars>>

-----------------------------------------------------------------------------
(* After the child *)

WaitNot(r) ==  \* mutant: the end of the output is taken for the end of the process
  /\ pc[r] = "wait"
  /\ Goto(r, "code")
  /\ UNCHANGED <<callVars, childVars, pipeVars>>

\* WaitForSingleObject(pi.hProcess, INFINITE)
Wait(r) ==
  /\ pc[r] = "wait"
  /\ child[r] = "exited"
  /\ Goto(r, "code")
  /\ UNCHANGED <<callVars, childVars, pipeVars>>

\* GetExitCodeProcess.  When it fails the handles of the process are not closed.
ExitCode(r) ==
  /\ pc[r] = "code"
  /\ \E answer \in {"own", "made"} : ReturnWith(r, "returned", answer)
  /\ UNCHANGED <<mode, inherits, ended, childVars, pipeVars>>

-----------------------------------------------------------------------------
(* The child: writes to its streams in any order, and blocks on a full pipe *)

Decide(r, s) ==
  /\ child[r] = "running" /\ want[r] = "nothing"
  /\ wrote[<<r, "output">>] + wrote[<<r, "error">>] < MaxWrites[r]
  /\ want' = [want EXCEPT ![r] = s]
  /\ UNCHANGED <<pc, callVars, child, std, inherited, wrote, pipeVars>>

\* A write that is not to a pipe leads nowhere, or fails, and does not block.
Write(r, s) ==
  /\ child[r] = "running" /\ want[r] = s
  /\ IF std[r][s] \in Pipes
       THEN LET p == std[r][s] IN
              sent[p] - got[p] < Capacity /\ sent' = [sent EXCEPT ![p] = @ + 1]
       ELSE UNCHANGED sent
  /\ wrote' = [wrote EXCEPT ![<<r, s>>] = @ + 1]
  /\ want' = [want EXCEPT ![r] = "nothing"]
  /\ UNCHANGED <<pc, callVars, child, std, inherited, got>>

\* The child may close its streams and go on.
HangUp(r) ==
  /\ child[r] = "running" /\ want[r] = "nothing"
  /\ child' = [child EXCEPT ![r] = "quiet"]
  /\ std' = [std EXCEPT ![r] = Closed]
  /\ UNCHANGED <<pc, callVars, inherited, want, wrote, pipeVars>>

Exit(r) ==
  /\ child[r] \in {"running", "quiet"} /\ want[r] = "nothing"
  /\ child' = [child EXCEPT ![r] = "exited"]
  /\ UNCHANGED <<pc, callVars, std, inherited, want, wrote, pipeVars>>

-----------------------------------------------------------------------------

Thread(r) ==
  \/ LocateFails(r) \/ Create(r) \/ CreateFails(r)
  \/ \E s \in Streams : OpenStream(r, s) \/ OpenFails(r, s) \/ CloseWrite(r, s)
  \/ Await(r) \/ Join(r) \/ Wait(r) \/ ExitCode(r)

Reader(r, s) == Read(r, s) \/ ReadEnds(r, s)
Child(r) == HangUp(r) \/ Exit(r) \/ \E s \in Streams : Decide(r, s) \/ Write(r, s)

Next ==
  \E r \in Runs : Thread(r) \/ AwaitNothing(r) \/ Child(r) \/ \E s \in Streams : Reader(r, s)

\* Every thread and every reader runs when it can, and a child that can write
\* does.  Nothing makes a child exit, and nothing a wait return before it must.
Fairness ==
  /\ \A r \in Runs : WF_vars(Thread(r))
  /\ \A r \in Runs, s \in Streams : WF_vars(Reader(r, s)) /\ WF_vars(Write(r, s))

Spec == Init /\ [][Next]_vars /\ Fairness

-----------------------------------------------------------------------------
(* Properties *)

\* A call gives to its caller each write of its child to a stream that was to be captured,
\* unless the attribute list could not be made: then the child inherits nothing, and all is
\* lost although the call still returns its code.  It says nothing of a stream that was
\* redirected, which Windows loses and POSIX does not.
CaptureIsWhole ==
  \A r \in Runs, s \in Streams :
    pc[r] = "returned" /\ mode[r][s] = "piped" /\ inherits[r] # "nothing" =>
      got[<<r, s>>] = wrote[<<r, s>>]

\* A call returns once its own child has exited, whatever the children of other
\* threads do: they have none of its handles, unless the attribute list of one
\* could not be filled.
ReturnsWithItsChild ==
  \A r \in Runs :
    child[r] = "exited" ~> (pc[r] = "returned" \/ \E q \in Runs : inherits[q] = "everything")

\* A child never stays blocked on a full pipe, in whatever order it fills the two: that
\* nobody reads before WaitForMultipleObjects returns is no deadlock, for the pipe that
\* blocks the child is one that ends the wait.
WritesGoThrough == \A r \in Runs : want[r] # "nothing" ~> want[r] = "nothing"

\* Its calls, its children and what is written and read, as IoRun has them.
Calls == [r \in Runs |-> IF pc[r] \in {"returned", "refused"} THEN pc[r] ELSE "active"]
Children ==
  [r \in Runs |-> CASE child[r] = "none" -> "none"
                    [] child[r] = "exited" -> "over"
                    [] OTHER -> "alive"]
Promise == INSTANCE IoRun WITH call <- Calls, child <- Children, said <- sent, heard <- got

\* A call of io::run on Windows does what IoRun promises: it returns after its
\* child, with all that went into its pipes.
ImplementsIoRun == Promise!IoSpec
=============================================================================
