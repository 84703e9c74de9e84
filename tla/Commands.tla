------------------------------ MODULE Commands ------------------------------
(***************************************************************************)
(* The commands a test prepares and cleans up with (src/testbed/           *)
(* commands.cc), what runtime::expand and runtime::run make of a line of   *)
(* them (src/testbed/runtime.cc), the handlers (src/chai.cc), and what the *)
(* call of the tested program gets from them (src/testbed/test.cc): the    *)
(* state TestRun leaves out.  One test, on the file system of FileSystem.  *)
(*                                                                         *)
(* A path is absolute if it starts with "/".  A line is a record: name of  *)
(* the command, its arguments, and whether it is prefixed with "safe-".    *)
(***************************************************************************)
EXTENDS FileSystem, TLC

CONSTANTS Lines,      \* the lines tests are made of
          StartTree,  \* what there is at the start, text or directory at each path
          MaxLines,   \* bound: lines of "prepare" and "cleanup" together
          Moved,      \* where an earlier linear test may have left the process
          ExpectedCode, \* the return code under "expected"
          Outputs,    \* what a program run by "store" may write
          ChaiVars,   \* project.environment(...)
          Scripted,   \* names given to project.handle(...), with their min_args
          Allowed     \* names given to project.allow(...)

Tmp == <<"/", "tmp">>      \* rt.temp_dir of the test
Start == <<"/", "repo">>   \* where the program was started
Build == <<"/", "build">>  \* rt.build_dir
MocksDir == Append(Tmp, "mocks")

\* StartTree is a tree with Root at its root.
ASSUME PlacesAssumption ==
  /\ {Tmp, Start, Build, MocksDir} \cup Moved \subseteq Paths
  /\ Moved \cap Below(Tmp) = {}
ASSUME ExpectedCodeAssumption == ExpectedCode \in {0, 1}
ASSUME StartTreeAssumption ==
  /\ DOMAIN StartTree \subseteq Paths /\ Root \in DOMAIN StartTree
  /\ \A p \in DOMAIN StartTree :
       /\ StartTree[p].kind \in {"dir", "file", "link"} /\ StartTree[p].ro \in BOOLEAN
       /\ StartTree[p] = [kind |-> StartTree[p].kind, text |-> StartTree[p].text,
                          ro |-> StartTree[p].ro, names |-> {}]
       /\ IsDir(StartTree, IF p = Root THEN p ELSE Front(p))
ASSUME LinesAssumption ==
  \A line \in Lines : line = [name |-> line.name, args |-> line.args, safe |-> line.safe]
                     /\ line.args \in Seq(Seq(STRING)) /\ line.safe \in BOOLEAN
ASSUME MaxLinesAssumption == MaxLines \in Nat

VARIABLES
  linear,     \* the test is a linear one
  envPath,    \* what its "env" has for PATH: "absent", "null", "string" or "array",
              \* and "unread" until the call needs it
  oneDevice,  \* $TMP and the repository can share files by hard links
  stage,      \* as in TestRun
  disk,       \* the file system
  cwd,        \* cwd_
  process,    \* the working directory of the process, by the path it was changed to
  stored,     \* stored_env
  mocked,     \* needs_mocks_in_path
  call,       \* what the call of the tested program was given, or None
  shown,      \* what the report of a failed test says of it, or None
  result,     \* outcome of run_test
  count,      \* lines run so far
  did,        \* the last line that was run and how it went, or None
  drifted     \* the process may be elsewhere than cwd_ says, or the cleanup has
              \* changed what a call is given

chosen == <<linear, oneDevice>>
vars == <<linear, envPath, oneDevice, stage, disk, cwd, process, stored, mocked, call,
          shown, result, count, did, drifted>>

None == [none |-> TRUE]

-----------------------------------------------------------------------------
(* The paths of the commands.                                                *)

\* commands::path
Path(p) == In(cwd, p)

-----------------------------------------------------------------------------
(* The commands, each with the outcomes it may have.                         *)

CpOnePass(src, dst) ==  \* mutant: the error of the first pass is cleared and forgotten
  {Done(o.fs) : o \in Copy(disk, disk, src, dst, TRUE, oneDevice)}

\* commands::cp: a pass that makes hard links and, if that fails, one that copies.
Cp(src, dst) ==
  LET again(o) == IF o.ok THEN {o} ELSE Copy(o.fs, disk, src, dst, FALSE, oneDevice)
  IN  UNION {again(o) : o \in Copy(disk, disk, src, dst, TRUE, oneDevice)}

RmtreeOne(p) ==  \* mutant: the entry goes and what is below it stays
  {Done(Unlink(disk, {p}))}

RmtreeThrough(p) ==  \* mutant: it is what a link leads to that goes
  RemoveAll(disk, Real(disk, p))

Rmtree(p) == RemoveAll(disk, p)

\* touch and generate: the directory of the file, then the file.
Create(p, text) ==
  LET made == MakeDirs(disk, Front(p))
  IN  {IF made.ok THEN Write(made.fs, p, text) ELSE made}

\* arch::unpacker puts the entries of an archive below dst, some before it fails.
Unpack(file, dst) ==
  LET into == MakeDirs(disk, dst)
      entry == Write(into.fs, Append(dst, "f"), <<"packed">>)
  IN  IF ~IsFile(disk, Real(disk, file)) THEN {Failed(disk)}
      ELSE IF ~into.ok THEN {into}
      ELSE {Failed(disk), Failed(into.fs), entry}

\* test::mock: what is at the place of the link is removed first, and only the
\* error of making the link counts.
MakeMock(exe, link) ==
  LET dst == In(MocksDir, link)
      src == In(Append(Build, "mocks"), exe)
      made == MakeDirs(disk, Front(dst)).fs
      at == Place(made, dst)
      single == Below(at) \cap DOMAIN made = {at}
      gone == IF single /\ MayChange(made, at) THEN Unlink(made, {at}) ELSE made
  IN  IF IsFile(gone, Place(gone, src)) /\ MayAdd(gone, at)
        THEN {Done(Add(gone, [q \in {at} |-> Symlink(src)]))} ELSE {Failed(gone)}

-----------------------------------------------------------------------------
(* runtime::expand *)

\* $TMP first, then the variables of the project, then the stored ones; what is
\* none of them stays as it was written.
Expand(arg, more) ==
  LET var == ("$TMP" :> Tmp) @@ ChaiVars @@ more IN
  FlattenSeq([i \in DOMAIN arg |-> IF arg[i] \in DOMAIN var THEN var[arg[i]] ELSE <<arg[i]>>])

\* "name=value" arguments of generate, and what a template becomes with them.
Template(file, args) ==
  LET given == FoldSeq(LAMBDA a, f : ("$" \o a[1] :> Tail(a)) @@ f, <<>>, args)
  IN  Expand(Node(disk, Real(disk, file)).text, given)

\* Names to handlers: later ones replace earlier ones, the target replaces all.
Builtin ==
  [cd |-> 1, cp |-> 2, ro |-> 1, mkdirs |-> 1, rm |-> 1, touch |-> 1, unpack |-> 2,
   store |-> 2, mock |-> 2, generate |-> 3, shell |-> 0]
MinArgs ==
  [name \in {"target"} \cup DOMAIN Scripted \cup Allowed \cup DOMAIN Builtin |->
     IF name \in DOMAIN Scripted \ {"target"} THEN Scripted[name]
     ELSE IF name \in {"target"} \cup Allowed THEN 0 ELSE Builtin[name]]
RunsProgram(name) == name \in {"target", "shell"} \cup Allowed \cup DOMAIN Scripted

-----------------------------------------------------------------------------

InitialDisk == [p \in DOMAIN StartTree |-> [StartTree[p] EXCEPT !.names = {p}]]

Init ==
  /\ linear \in BOOLEAN /\ oneDevice \in BOOLEAN
  /\ envPath = "unread"
  /\ stage = "idle"
  /\ disk = InitialDisk
  /\ cwd = Start
  /\ process \in {Start} \cup {p \in Moved : linear}
  /\ stored = <<>> /\ mocked = FALSE
  /\ call = None /\ shown = None /\ result = "none"
  /\ count = 0 /\ did = None
  /\ drifted = (process # Start)

EndWith(r) == stage' = "ended" /\ result' = r

Begin ==
  /\ stage = "idle" /\ stage' = "mkdirs"
  /\ UNCHANGED <<chosen, envPath, disk, cwd, process, stored, mocked, call, shown, result, count,
                 did, drifted>>

\* mkdirs(rt.temp_dir), rmtree(rt.mocks_dir()).
MakeTemp ==
  /\ stage = "mkdirs"
  /\ LET made == MakeDirs(disk, Tmp) IN
       \E o \in (IF made.ok THEN RemoveAll(made.fs, MocksDir) ELSE {made}) :
         /\ disk' = o.fs
         /\ IF o.ok THEN stage' = "prepare" /\ UNCHANGED result ELSE EndWith("SKIPPED")
  /\ UNCHANGED <<chosen, envPath, cwd, process, stored, mocked, call, shown, count, did, drifted>>

\* What runtime::run makes of a line whose handler returned ok.
Verdict(line, ok) ==
  /\ did' = [line |-> line, ok |-> ok, from |-> cwd]
  /\ count' = count + 1
  /\ IF ok \/ line.safe THEN UNCHANGED <<stage, result>> ELSE EndWith("SKIPPED")

\* A line that names no command, or gives it too few arguments, ends the list
\* with "safe-" and without.  The message about too few reads args.front() of
\* what is left, and when that is nothing anything may happen: the program dies.
BadLine(line) ==
  /\ line.name \in DOMAIN MinArgs => Len(line.args) < MinArgs[line.name]
  /\ did' = [line |-> line, ok |-> FALSE, from |-> cwd]
  /\ count' = count + 1
  /\ \/ EndWith("SKIPPED")
     \/ line.name \in DOMAIN MinArgs /\ line.args = <<>> /\ EndWith("threw")
  /\ UNCHANGED <<chosen, envPath, disk, cwd, process, stored, mocked, call, shown, drifted>>

\* The commands that work on files.
FileLine(line, args) ==
  /\ LET p1 == Path(args[1])
         p2 == Path(args[2])
         outcomes ==
           CASE line.name = "cp" -> Cp(p1, p2)
             [] line.name = "ro" -> {SetReadOnly(disk, p1)}
             [] line.name = "mkdirs" -> {MakeDirs(disk, p1)}
             [] line.name = "rm" -> Rmtree(p1)
             [] line.name = "touch" -> Create(p1, IF Len(args) > 1 THEN args[2] ELSE <<>>)
             [] line.name = "unpack" -> Unpack(p1, p2)
             [] line.name = "generate" ->
                  IF IsFile(disk, Real(disk, p1))
                    THEN Create(p2, Template(p1, SubSeq(args, 3, Len(args))))
                    ELSE {Failed(disk)}
             [] OTHER -> {}
     IN  \E o \in outcomes : disk' = o.fs /\ Verdict(line, o.ok)
  /\ UNCHANGED <<chosen, envPath, cwd, process, stored, mocked, call, shown, drifted>>

CdAlways(line, args) ==  \* mutant: every test takes the process along
  /\ line.name = "cd"
  /\ Path(args[1]) \in Paths
  /\ cwd' = Path(args[1])
  /\ LET ok == IsDir(disk, Real(disk, cwd')) IN
       /\ process' = IF ok THEN cwd' ELSE process
       /\ drifted' = (~ok \/ stage = "cleanup")
       /\ Verdict(line, ok)
  /\ UNCHANGED <<chosen, envPath, disk, stored, mocked, call, shown>>

\* test::cd: a linear test takes the process along, which may fail when cwd_
\* has changed already.
CdLine(line, args) ==
  /\ line.name = "cd"
  /\ Path(args[1]) \in Paths  \* bound
  /\ cwd' = Path(args[1])
  /\ LET ok == ~linear \/ IsDir(disk, Real(disk, cwd')) IN
       /\ process' = IF linear /\ ok THEN cwd' ELSE process
       /\ drifted' = (~ok \/ stage = "cleanup")
       /\ Verdict(line, ok)
  /\ UNCHANGED <<chosen, envPath, disk, stored, mocked, call, shown>>

\* test::store_variable: what a program writes, unless it fails.
StoreLine(line, args) ==
  /\ line.name = "store"
  /\ \/ /\ IsDir(disk, Real(disk, cwd))
        /\ \E out \in Outputs : stored' = ("$" \o args[1][1] :> out) @@ stored
        /\ drifted' = (drifted \/ stage = "cleanup")
        /\ Verdict(line, TRUE)
     \/ UNCHANGED <<stored, drifted>> /\ Verdict(line, FALSE)
  /\ UNCHANGED <<chosen, envPath, disk, cwd, process, mocked, call, shown>>

MockLine(line, args) ==
  /\ line.name = "mock"
  /\ \E o \in MakeMock(args[1], args[2]) :
       /\ disk' = o.fs
       /\ mocked' = (mocked \/ o.ok)
       /\ drifted' = (drifted \/ stage = "cleanup")
       /\ Verdict(line, o.ok)
  /\ UNCHANGED <<chosen, envPath, cwd, process, stored, call, shown>>

\* A program: the target, one that is allowed, or a shell; or a function of the
\* script, which may end the whole program (std::exit in its handler).
ProgramLine(line) ==
  /\ RunsProgram(line.name)
  /\ \/ \E ok \in BOOLEAN :
          /\ ok => IsDir(disk, Real(disk, cwd)) \/ line.name \in {"shell"} \cup DOMAIN Scripted
          /\ Verdict(line, ok)
     \/ /\ line.name \in DOMAIN Scripted
        /\ EndWith("threw")
        /\ did' = [line |-> line, ok |-> FALSE, from |-> cwd] /\ count' = count + 1
  /\ UNCHANGED <<chosen, envPath, disk, cwd, process, stored, mocked, call, shown, drifted>>

\* run_cmds: a line is expanded just before it is run, so it sees what the lines
\* before it have stored.
RunLine(line) ==
  /\ stage \in {"prepare", "cleanup"}
  /\ count < MaxLines
  /\ LET args == [i \in DOMAIN line.args |-> Expand(line.args[i], stored)] IN
       \/ BadLine(line)
       \/ /\ line.name \in DOMAIN MinArgs /\ Len(args) >= MinArgs[line.name]
          /\ IF RunsProgram(line.name) THEN ProgramLine(line)
             ELSE FileLine(line, args) \/ CdLine(line, args) \/ StoreLine(line, args)
                  \/ MockLine(line, args)

ListEnds ==
  /\ \/ stage = "prepare" /\ stage' = "call"
     \/ stage = "cleanup" /\ stage' = "judge"
  /\ did' = None
  /\ UNCHANGED <<chosen, envPath, disk, cwd, process, stored, mocked, call, shown, result, count,
                 drifted>>

MocksLost(base, env) ==  \* mutant: the mocks go in first and "env" replaces them
  LET start == IF mocked THEN <<MocksDir>> \o base ELSE base
      own == Expand(<<"$V">>, stored)
  IN  CASE env = "absent" -> start
        [] env = "null" -> <<>>
        [] env = "string" -> <<own>>
        [] env = "array" -> start \o <<own>>

\* copy_environment_block, PATH: what was inherited, as "env" changes it; then
\* the mocks before everything else.
CallPath(base, env) ==
  LET own == Expand(<<"$V">>, stored)
      changed == CASE env = "absent" -> base
                   [] env = "null" -> <<>>
                   [] env = "string" -> <<own>>
                   [] env = "array" -> base \o <<own>>
  IN  IF mocked THEN <<MocksDir>> \o changed ELSE changed

Inherited == <<<<"/", "bin">>>>

\* observe: the arguments and the environment, both expanded now.  A child that
\* has no directory to change to fails; that of a linear test is given none.
Call ==
  /\ stage = "call" /\ stage' = "post"
  /\ envPath' \in {"absent", "null", "string", "array"}
  /\ \E code \in {0, 1} :
       LET dir == IF linear THEN process ELSE cwd IN
       /\ linear \/ IsDir(disk, Real(disk, cwd)) \/ code = 1
       /\ call' = [arg |-> Expand(<<"$V">>, stored), path |-> CallPath(Inherited, envPath'),
                   dir |-> dir, code |-> code]
  /\ UNCHANGED <<chosen, disk, cwd, process, stored, mocked, shown, result, count, did,
                 drifted>>

PostsEnd ==
  /\ stage = "post" /\ stage' = "cleanup"
  /\ UNCHANGED <<chosen, envPath, disk, cwd, process, stored, mocked, call, shown, result, count,
                 did, drifted>>

JudgeWithEnv ==  \* mutant: the report is given the environment of the process
  /\ stage = "judge" /\ EndWith("FAILED")
  /\ shown' = [arg |-> Expand(<<"$V">>, stored), path |-> CallPath(Inherited, envPath), dir |-> process]
  /\ UNCHANGED <<chosen, envPath, disk, cwd, process, stored, mocked, call, count, did, drifted>>

\* The verdict, with test::report for a failed test: the command, the
\* environment without what was inherited, and the directory are worked out
\* again, from what the cleanup has left.
Judge ==
  /\ stage = "judge"
  /\ \/ call.code = ExpectedCode /\ EndWith("OK") /\ UNCHANGED shown
     \/ /\ EndWith("FAILED")
        /\ shown' = [arg |-> Expand(<<"$V">>, stored), path |-> CallPath(<<>>, envPath), dir |-> cwd]
  /\ UNCHANGED <<chosen, envPath, disk, cwd, process, stored, mocked, call, count, did, drifted>>

Next ==
  \/ Begin \/ MakeTemp \/ ListEnds \/ Call \/ PostsEnd \/ Judge
  \/ \E line \in Lines : RunLine(line)
Spec == Init /\ [][Next]_vars

-----------------------------------------------------------------------------
(* Properties *)

\* The file system is a tree, and the names of a file are names of one file.
Tree(fs) ==
  /\ DOMAIN fs \subseteq Paths /\ IsDir(fs, Root)
  /\ \A p \in DOMAIN fs :
       /\ fs[p] \in [kind : {"dir", "file", "link"}, text : {fs[p].text}, ro : BOOLEAN,
                     names : SUBSET DOMAIN fs]
       /\ p \in fs[p].names
       /\ \A q \in fs[p].names : fs[q] = fs[p]
       /\ fs[p].kind = "dir" => fs[p].names = {p}
       /\ p # Root => IsDir(fs, Front(p))

\* What the code takes for granted at each point: where the test is in
\* test::run, and that no command leaves a file without its directory.
TypeOK ==
  /\ stage \in {"idle", "mkdirs", "prepare", "call", "post", "cleanup", "judge", "ended"}
  /\ Tree(disk)
  /\ cwd \in Paths /\ process \in Paths
  /\ count \in 0 .. MaxLines

\* What is at p, whatever else it is called.
Content(fs, p) == <<Node(fs, p).kind, Node(fs, p).text, Node(fs, p).ro>>

\* What a line names as the place it is to change; None if it changes nothing.
Destination(line) ==
  LET arg(n) == Expand(line.args[n], stored) IN
  CASE line.name \in {"cp", "unpack", "generate"} -> Path(arg(2))
    [] line.name \in {"mkdirs", "rm", "touch", "ro"} -> Path(arg(1))
    [] line.name = "mock" -> In(MocksDir, arg(2))
    [] OTHER -> Tmp
Within(line) ==
  \/ line.name \notin DOMAIN MinArgs \/ Len(line.args) < MinArgs[line.name]
  \/ RunsProgram(line.name) \/ Destination(line) \in Below(Tmp)

\* A line whose destination is in $TMP removes elsewhere only what a path in $TMP
\* names, or what is below that; makes elsewhere only what is on the way to, or
\* below, what such a path leads to; and writes to, or makes read-only, only a file
\* that such a path names or leads to, or has a hard link to.  (This is all that can
\* be said: cp copies links to directories, and "touch" after "cp" does rewrite the
\* file of the repository.)
OutsideKept ==
  [][did' = None \/ Within(did'.line) =>
       \A p \in Paths \ Below(Tmp) :
         /\ Exists(disk, p) /\ ~Exists(disk', p) =>
              \E s \in Below(Tmp) : IsPrefix(Place(disk, s), p)
         /\ ~Exists(disk, p) /\ Exists(disk', p) =>
              \E s \in Below(Tmp) : IsPrefix(p, Real(disk, s)) \/ IsPrefix(Real(disk, s), p)
         /\ Exists(disk, p) /\ Exists(disk', p) /\ Content(disk', p) # Content(disk, p) =>
              \E s \in Below(Tmp) : Node(disk, p).names \cap {Place(disk, s), Real(disk, s)} # {}]_vars

\* The PATH of the call after the directory of the mocks.
AfterMocks(path) == IF mocked THEN Tail(path) ELSE path

\* Whatever "env" says of PATH, a test that has made a mock finds its mocks
\* before everything else, and the rest of PATH is as "env" wants it; a test
\* that has made none finds mocks only if its "env" names their directory.
MocksComeFirst ==
  stage = "post" =>
    LET rest == AfterMocks(call.path) IN
    /\ mocked => call.path # <<>> /\ Head(call.path) = MocksDir
    /\ envPath \in {"absent", "array"} => rest # <<>> /\ Head(rest) = Inherited[1]
    /\ Expand(<<"$V">>, stored) # MocksDir => \A n \in DOMAIN rest : rest[n] # MocksDir

\* A cp that reports success has put everything that is at its source at its
\* destination, by links, by copies or part each, a file that met a directory under
\* its own name in that; one that fails and one that works alike have overwritten
\* nothing.
CopiesAreWhole ==
  [][count' # count /\ did'.line.name = "cp" /\ ~RunsProgram("cp") =>
       LET path(n) == Path(Expand(did'.line.args[n], stored))
           spot(q, met) == IF IsFile(disk, q) /\ IsDir(disk', met) THEN Append(met, Last(q)) ELSE met
       IN  /\ did'.ok =>
                \A top \in {Place(disk, path(1))}, dst \in {path(2)} :
                  /\ Exists(disk, top)
                  /\ \A q \in Below(top) \cap DOMAIN disk :
                       LET at == spot(q, Real(disk, Image(top, dst, q))) IN
                       /\ Node(disk', at).kind = disk[q].kind
                       /\ IsDir(disk, q) \/ Node(disk', at).text = disk[q].text
           /\ \A p \in DOMAIN disk : Content(disk', p) = Content(disk, p)]_vars

\* The report of a failed test names the argument, the mocks and the directory
\* of the call, and of its PATH all but what was inherited.  It is wrong when the
\* cleanup ran cd, store or mock; and a linear test is called elsewhere than it
\* says when the process was not where cwd_ says: an earlier linear test has moved
\* it, or a forgiven cd has failed, and no cd has worked since.
ReportTellsTheCall ==
  shown # None /\ ~drifted =>
    /\ shown.arg = call.arg
    /\ shown.dir = call.dir
    /\ shown.path = (IF mocked THEN <<MocksDir>> ELSE <<>>) \o
                    IF envPath \in {"absent", "array"} THEN Tail(AfterMocks(call.path))
                                                       ELSE AfterMocks(call.path)

\* What TestRun says of a test that is alone: 2 is a linear test, 1 is not.
Me == IF linear THEN 2 ELSE 1
Mine(value, other) == [t \in 1 .. 2 |-> IF t = Me THEN value ELSE other]
Owner(dir) == IF dir \in Below(Tmp) THEN Me ELSE 0

OneTest == INSTANCE TestRun WITH
  NumTests <- 2, Linear <- {2}, Codes <- {0, 1}, Expected <- [t \in 1 .. 2 |-> ExpectedCode],
  Unset <- 2, Cut <- 3, Posts <- [t \in 1 .. 2 |-> 0],
  stage <- Mine(stage, "idle"),
  tempDir <- Mine(IF stage \in {"idle", "mkdirs"} THEN "none" ELSE "made", "none"),
  ownCwd <- Mine(Owner(cwd), 0),
  cwd <- Owner(process),
  codes <- Mine(IF call = None THEN <<>> ELSE <<call.code>>, <<>>),
  ranIn <- Mine(IF call = None THEN 0 ELSE Owner(call.dir), 0),
  result <- Mine(result, "none"),
  file <- [t \in 1 .. 2 |-> ExpectedCode]

\* Every step of the commands is one TestRun allows: its Command and ChangeDir
\* leave out nothing that moves the test on, stops it or moves the process.
ImplementsTestRun ==
  /\ OneTest!TestInit
  /\ [][\E t \in 1 .. 2 : OneTest!Begin(t) \/ OneTest!TestStep(t)]_(OneTest!testVars)
=============================================================================
