------------------------------- MODULE Runner -------------------------------
(***************************************************************************)
(* tool() of src/main.cc from the thread pool to the exit code: the tests  *)
(* that are not linear run on a pool (a TaskPool, which ThreadPool         *)
(* implements) and are reported in order, then the linear ones run on the  *)
(* main thread one by one.  With RUN_LINEAR in the environment there is no *)
(* pool and every test takes the second way.                               *)
(*                                                                         *)
(* "main" says where the main thread is: "push" and "get" are the two      *)
(* loops of the parallel phase, "close" is the end of the pool's scope,    *)
(* "unwind" the same left by an exception, "linear" the last loop, "exit"  *)
(* the return from tool() and "terminated" std::terminate.                 *)
(***************************************************************************)
EXTENDS TestRun, FiniteSets

CONSTANTS KeepDirs,   \* --keep-dirs
          PoolSize    \* threads of the pool

ASSUME KeepDirsAssumption == KeepDirs \in BOOLEAN
ASSUME PoolSizeAssumption == PoolSize \in Nat \ {0}

\* The tests that get a task when there is a pool.
Pooled == Tests \ Linear
NumTasks == Cardinality(Pooled)
Task == 1 .. NumTasks

\* The test with exactly i - 1 tests of S before it.
Nth(S, i) == CHOOSE t \in S : Cardinality({u \in S : u < t}) = i - 1

VARIABLES
  runLinear,  \* RUN_LINEAR is in the environment and is not "0"
  main,     \* where the main thread is
  next,     \* in "get" and "linear": the number of the result it is at
  reports,  \* the tests given to counters.report, in order
  failed,   \* error_
  skipped,  \* skip_
  saved,    \* save_
  code,     \* the exit code
  status, closing, aborted  \* the pool

Pool == INSTANCE TaskPool

AllAgain == Tests  \* mutant: the last loop forgets which tests are its own
OneByOne == IF runLinear THEN Tests ELSE Linear

mainVars == <<runLinear, main, next>>
countVars == <<reports, failed, skipped, saved, code>>
poolVars == <<status, closing, aborted>>
vars == <<testVars, mainVars, countVars, poolVars>>

Init ==
  /\ TestInit
  /\ Pool!PoolInit
  /\ runLinear \in BOOLEAN
  /\ main = IF runLinear THEN "linear" ELSE "push"
  /\ next = 1
  /\ reports = <<>>
  /\ failed = 0 /\ skipped = 0 /\ saved = 0
  /\ code = 0

-----------------------------------------------------------------------------
(* The pool's threads *)

\* A thread of the pool was given the task of a test.
StartTask(i) ==
  /\ ~aborted
  /\ Pool!Start(i)
  /\ UNCHANGED <<testVars, mainVars, countVars>>

\* It calls it, when it gets to it, and the test goes on.
TaskStep(i) ==
  /\ ~aborted
  /\ status[i] = "running"
  /\ Begin(Nth(Pooled, i)) \/ TestStep(Nth(Pooled, i))
  /\ UNCHANGED <<mainVars, countVars, poolVars>>

\* The test returned or threw, which settles the future.
FinishTask(i) ==
  /\ ~aborted
  /\ stage[Nth(Pooled, i)] = "ended"
  /\ Pool!Finish(i)
  /\ status'[i] = IF result[Nth(Pooled, i)] = "threw" THEN "exception" ELSE "value"
  /\ UNCHANGED <<testVars, mainVars, countVars>>

-----------------------------------------------------------------------------
(* The main thread *)

\* for (auto& test : tests) { if (test.linear) continue; ... pool.push(...); }
PushTest(i) ==
  /\ main = "push"
  /\ Pool!Submit(i)
  /\ UNCHANGED <<testVars, mainVars, countVars>>

PushedAll ==
  /\ main = "push"
  /\ Pool!Having("new") = {}
  /\ main' = "get"
  /\ UNCHANGED <<runLinear, next, testVars, countVars, poolVars>>

ReportNoSkip(t) ==  \* mutant: the case of SAVED forgets ++skip_
  /\ reports' = Append(reports, t)
  /\ failed' = failed + IF result[t] = "FAILED" THEN 1 ELSE 0
  /\ skipped' = skipped + IF result[t] = "SKIPPED" THEN 1 ELSE 0
  /\ saved' = saved + IF result[t] = "SAVED" THEN 1 ELSE 0
  /\ IF KeepDirs THEN UNCHANGED tempDir ELSE RemoveDir(t)
  /\ UNCHANGED <<stage, ownCwd, cwd, codes, ranIn, result, file, code>>

\* counters::report, and the directory of the test goes unless it is to be kept.
Report(t) ==
  /\ reports' = Append(reports, t)
  /\ failed' = failed + IF result[t] = "FAILED" THEN 1 ELSE 0
  /\ skipped' = skipped + IF result[t] \in {"SKIPPED", "SAVED"} THEN 1 ELSE 0
  /\ saved' = saved + IF result[t] = "SAVED" THEN 1 ELSE 0
  /\ IF KeepDirs THEN UNCHANGED tempDir ELSE RemoveDir(t)
  /\ UNCHANGED <<stage, ownCwd, cwd, codes, ranIn, result, file, code>>

GetUnfinished ==  \* mutant: the result is read without waiting for the future
  /\ main = "get"
  /\ next \in Task
  /\ status[next] \in {"running", "value"}
  /\ Report(Nth(Pooled, next))
  /\ next' = next + 1
  /\ UNCHANGED <<runLinear, main, poolVars>>

\* auto results = future.get();
GetResult ==
  /\ main = "get"
  /\ next \in Task
  /\ status[next] = "value"
  /\ Report(Nth(Pooled, next))
  /\ next' = next + 1
  /\ UNCHANGED <<runLinear, main, poolVars>>

\* future.get() throws and nobody catches: abort at once, or unwind first.
GetThrows ==
  /\ main = "get"
  /\ next \in Task
  /\ status[next] = "exception"
  /\ \/ main' = "terminated" /\ Pool!Abort
     \/ main' = "unwind" /\ Pool!Close
  /\ UNCHANGED <<runLinear, next, testVars, countVars>>

GotAll ==
  /\ main = "get"
  /\ next \notin Task
  /\ main' = "close"
  /\ Pool!Close
  /\ UNCHANGED <<runLinear, next, testVars, countVars>>

\* A stopped thread drops the task it popped; ~mt_queue drops the rest.
DropTasks ==
  /\ ~aborted
  /\ Pool!Drop
  /\ UNCHANGED <<testVars, mainVars, countVars>>

\* ~thread_pool has joined the threads.
PoolClosed ==
  /\ Pool!Having("queued") = {} /\ Pool!Having("running") = {}
  /\ \/ main = "close" /\ main' = "linear" /\ next' = 1 /\ UNCHANGED aborted
     \/ main = "unwind" /\ main' = "terminated" /\ UNCHANGED next /\ aborted' = TRUE
  /\ UNCHANGED <<runLinear, testVars, countVars, status, closing>>

\* auto results = run_test(test, variables, rt); on the main thread.
LinearStep ==
  /\ main = "linear"
  /\ next <= Cardinality(OneByOne)
  /\ LET t == Nth(OneByOne, next) IN Begin(t) \/ TestStep(t)
  /\ UNCHANGED <<mainVars, countVars, poolVars>>

LinearReport ==
  /\ main = "linear"
  /\ next <= Cardinality(OneByOne)
  /\ LET t == Nth(OneByOne, next) IN
       /\ stage[t] = "ended"
       /\ IF result[t] = "threw"
            THEN main' = "terminated" /\ UNCHANGED <<next, testVars, countVars>>
            ELSE Report(t) /\ next' = next + 1 /\ UNCHANGED main
  /\ UNCHANGED <<runLinear, poolVars>>

SummaryOfRun ==  \* mutant: the exit code says that everything was run
  /\ main = "linear"
  /\ next > Cardinality(OneByOne)
  /\ main' = "exit"
  /\ code' = IF Len(reports) = NumTests THEN 0 ELSE 1
  /\ UNCHANGED <<runLinear, next, testVars, poolVars, reports, failed, skipped, saved>>

\* if (!counters.summary(tests.size())) return 1; return 0;
Summary ==
  /\ main = "linear"
  /\ next > Cardinality(OneByOne)
  /\ main' = "exit"
  /\ code' = IF failed = 0 THEN 0 ELSE 1
  /\ UNCHANGED <<runLinear, next, testVars, poolVars, reports, failed, skipped, saved>>

-----------------------------------------------------------------------------

PoolThread(i) == StartTask(i) \/ TaskStep(i) \/ FinishTask(i)

Main ==
  \/ \E i \in Task : PushTest(i)
  \/ PushedAll \/ GetResult \/ GetThrows \/ GotAll \/ DropTasks \/ PoolClosed
  \/ LinearStep \/ LinearReport \/ Summary

Next == Main \/ \E i \in Task : PoolThread(i)
Spec == Init /\ [][Next]_vars

-----------------------------------------------------------------------------
(* Properties *)

TypeOK ==
  /\ stage \in [Tests -> Stages]
  /\ tempDir \in [Tests -> DirStates]
  /\ ownCwd \in [Tests -> Dirs] /\ ranIn \in [Tests -> Dirs] /\ cwd \in Dirs
  /\ \A t \in Tests : Len(codes[t]) <= 1 + Posts[t]
  /\ result \in [Tests -> Results]
  /\ file \in [Tests -> Codes \cup {Unset, Cut}]
  /\ runLinear \in BOOLEAN
  /\ status \in [Task -> Pool!Status] /\ closing \in BOOLEAN /\ aborted \in BOOLEAN
  /\ main \in {"push", "get", "close", "unwind", "linear", "exit", "terminated"}
  /\ failed + skipped <= NumTests /\ saved <= skipped /\ code \in {0, 1}

\* Reports come in one order whatever the threads do: the pooled tests as they
\* stand in the vector, then the others, each once.
ReportOrder ==
  LET first == IF runLinear THEN 0 ELSE NumTasks
      nth(i) == IF i <= first THEN Nth(Pooled, i) ELSE Nth(OneByOne, i - first)
  IN  /\ \A i \in DOMAIN reports : reports[i] = nth(i)
      /\ main = "exit" => Len(reports) = NumTests

\* What the summary says is so: at the exit every test has been counted under
\* its own outcome, and the exit code is 0 exactly when no test failed.
HonestSummary ==
  main = "exit" =>
    LET having(r) == Cardinality({t \in Tests : result[t] = r}) IN
    /\ failed = having("FAILED")
    /\ skipped = having("SKIPPED") + having("SAVED") /\ saved = having("SAVED")
    /\ NumTests = failed + skipped + having("OK")
    /\ code = 0 <=> having("FAILED") = 0

\* The main thread takes no directory from a test that is still working in it, and a
\* program that exits normally has tried to remove every one, the failed and the
\* skipped tests' too: what is left is what remove_all could not remove.
DirectoryLifetime ==
  /\ \A t \in Tests : Running(t) => tempDir[t] \in {"none", "made"}
  /\ main = "exit" /\ ~KeepDirs => \A t \in Tests : tempDir[t] # "made"

\* While a thread of the pool runs a test, nobody changes the directory of the
\* process, on which every relative path in the program depends.
CwdStableInPool ==
  [][cwd' # cwd => \A i \in Task : status[i] # "running"]_vars

\* A test that is not linear is called in its own directory or outside of $TMP,
\* never in another test's, even after linear tests moved the process there.
StaysHome ==
  \A t \in Tests \ Linear : codes[t] # <<>> => ranIn[t] \in {StartDir, t}

\* The return code that tells how the calls of a test went: that of the first one that
\* failed, 0 if none did.
FirstFailure(called) ==
  IF \A i \in DOMAIN called : called[i] = 0
    THEN 0
    ELSE called[CHOOSE i \in DOMAIN called :
                  called[i] # 0 /\ \A j \in 1 .. i - 1 : called[j] = 0]

\* A test is OK, and a saved one has in its file, the code of the first of its calls
\* that failed: no "post" is called after that, which would replace the code that is
\* compared in the end, and the cleanup between the two does not hide it.
FirstFailureWins ==
  \A t \in Tests :
    /\ result[t] = "OK" => codes[t] # <<>> /\ Expected[t] = FirstFailure(codes[t])
    /\ t \notin Filled /\ file[t] \in Codes => file[t] = FirstFailure(codes[t])

\* The file of a test is touched only for a test that had no "expected" and ran to its
\* end, with its cleanup: for no half-run, failed or skipped test, and no other's.
OnlyFullRunsAreSaved ==
  \A t \in Tests :
    file[t] # Expected[t] => t \notin Filled /\ result[t] = "SAVED" /\ codes[t] # <<>>
=============================================================================
