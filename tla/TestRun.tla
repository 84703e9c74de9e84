------------------------------- MODULE TestRun -------------------------------
(***************************************************************************)
(* The life of one test: testbed::test::run with run_cmds and observe      *)
(* (src/testbed/test.cc), runtime::run for every command of "prepare" and  *)
(* "cleanup" (src/testbed/runtime.cc), and the verdict of run_test2        *)
(* (src/main.cc).  Any number of tests may be under way at once, each on   *)
(* a thread of its own; what they share is the working directory of the    *)
(* process.                                                                *)
(*                                                                         *)
(* Directories are told apart only by whose they are: t is the directory   *)
(* below $TMP of test t, with what is in it, and StartDir the one the      *)
(* program was started in, with whatever else is outside of $TMP.          *)
(***************************************************************************)
EXTENDS Integers, Sequences

CONSTANTS NumTests,  \* tests that were loaded, in the order of the vector
          Linear,    \* those with "linear": true
          Codes,     \* return codes a call may give
          Expected,  \* the return code under "expected" of each test, or Unset
          Unset,     \* what a file has for it when "expected" is null
          Cut,       \* what it has when it was opened for writing and not written whole
          Posts      \* the length of the list of "post" of each test

Tests == 1 .. NumTests

ASSUME NumTestsAssumption == NumTests \in Nat
ASSUME LinearAssumption == Linear \subseteq Tests
ASSUME CodesAssumption == Codes \subseteq Int /\ 0 \in Codes
ASSUME ExpectedAssumption == Expected \in [Tests -> Codes \cup {Unset}]
ASSUME UnsetAssumption == Unset \notin Codes /\ Cut \notin Codes /\ Unset # Cut
ASSUME PostsAssumption == Posts \in [Tests -> Nat]

\* The tests whose "expected" is not null.
Filled == {t \in Tests : Expected[t] # Unset}

VARIABLES
  stage,    \* where each test is in test::run and run_test2
  tempDir,  \* its temporary directory: "none", "made", "removed", or "left" by remove_all
  ownCwd,   \* cwd_, the directory of its commands
  cwd,      \* the working directory of the process
  codes,    \* return codes of the calls made: the call, then the posts
  ranIn,    \* the directory the first of them ran in
  result,   \* outcome of run_test, "threw" if it threw
  file      \* the return code the JSON file has under "expected"

testVars == <<stage, tempDir, ownCwd, cwd, codes, ranIn, result, file>>

StartDir == 0
Dirs == {StartDir} \cup Tests
Stages == {"idle", "mkdirs", "prepare", "call", "post", "cleanup", "judge", "ended"}
Results == {"none", "OK", "FAILED", "SKIPPED", "SAVED", "threw"}
DirStates == {"none", "made", "removed", "left"}

Running(t) == stage[t] \notin {"idle", "ended"}

TestInit ==
  /\ stage = [t \in Tests |-> "idle"]
  /\ tempDir = [t \in Tests |-> "none"]
  /\ ownCwd = [t \in Tests |-> StartDir]
  /\ cwd = StartDir
  /\ codes = [t \in Tests |-> <<>>]
  /\ ranIn = [t \in Tests |-> StartDir]
  /\ result = [t \in Tests |-> "none"]
  /\ file = Expected

At(t, s) == stage' = [stage EXCEPT ![t] = s]

\* run_test returns, or throws.
EndWith(t, r) ==
  /\ At(t, "ended")
  /\ result' = [result EXCEPT ![t] = r]

-----------------------------------------------------------------------------

\* run_test is called: a random name below $TMP.
Begin(t) ==
  /\ stage[t] = "idle"
  /\ At(t, "mkdirs")
  /\ UNCHANGED <<tempDir, ownCwd, cwd, codes, ranIn, result, file>>

\* mkdirs(temp_dir), then rmtree(mocks_dir()): without them the test is skipped.
MakeDirs(t) ==
  /\ stage[t] = "mkdirs"
  /\ \E made, cleared \in BOOLEAN :
       /\ tempDir' = [tempDir EXCEPT ![t] = IF made THEN "made" ELSE "none"]
       /\ IF made /\ cleared THEN At(t, "prepare") /\ UNCHANGED result
                             ELSE EndWith(t, "SKIPPED")
  /\ UNCHANGED <<ownCwd, cwd, codes, ranIn, file>>

\* runtime::run for one command.  "safe-" forgives a command that failed, and
\* neither an unknown name nor too few arguments.
Verdict(known, enough, worked, safe) == known /\ enough /\ (worked \/ safe)

\* run_cmds stops at the first command whose verdict is false, and the test is
\* skipped: after a failed "prepare" neither the call nor "cleanup" is run.
Command(t) ==
  /\ stage[t] \in {"prepare", "cleanup"}
  /\ \E known, enough, worked, safe \in BOOLEAN :
       IF Verdict(known, enough, worked, safe) THEN UNCHANGED <<stage, result>>
                                               ELSE EndWith(t, "SKIPPED")
  /\ UNCHANGED <<tempDir, ownCwd, cwd, codes, ranIn, file>>

ChangeAnyDir(t) ==  \* mutant: every test moves the process, as if "if (linear)" were gone
  /\ stage[t] \in {"prepare", "cleanup"}
  /\ ownCwd' = [ownCwd EXCEPT ![t] = t]
  /\ \E worked, safe \in BOOLEAN :
       /\ cwd' = IF worked THEN t ELSE cwd
       /\ IF Verdict(TRUE, TRUE, worked, safe) THEN UNCHANGED <<stage, result>>
                                               ELSE EndWith(t, "SKIPPED")
  /\ UNCHANGED <<tempDir, codes, ranIn, file>>

\* test::cd, into $TMP or out of it: cwd_ changes first; a linear test then changes
\* the directory of the whole process too, which may fail.
ChangeDir(t) ==
  /\ stage[t] \in {"prepare", "cleanup"}
  /\ \E dir \in {StartDir, t}, worked, safe \in BOOLEAN :
       /\ t \notin Linear => worked
       /\ ownCwd' = [ownCwd EXCEPT ![t] = dir]
       /\ cwd' = IF worked /\ t \in Linear THEN dir ELSE cwd
       /\ IF Verdict(TRUE, TRUE, worked, safe) THEN UNCHANGED <<stage, result>>
                                               ELSE EndWith(t, "SKIPPED")
  /\ UNCHANGED <<tempDir, codes, ranIn, file>>

\* The end of a list of commands.
ListEnds(t) ==
  /\ \/ stage[t] = "prepare" /\ At(t, "call")
     \/ stage[t] = "cleanup" /\ At(t, "judge")
  /\ UNCHANGED <<tempDir, ownCwd, cwd, codes, ranIn, result, file>>

CallInCwd(t) ==  \* mutant: no call is given a directory
  /\ stage[t] = "call"
  /\ \E code \in Codes : codes' = [codes EXCEPT ![t] = <<code>>]
  /\ ranIn' = [ranIn EXCEPT ![t] = cwd]
  /\ At(t, "post")
  /\ UNCHANGED <<tempDir, ownCwd, cwd, result, file>>

\* observe: a linear test gives io::run no directory and gets the one of the
\* process.
Call(t) ==
  /\ stage[t] = "call"
  /\ \E code \in Codes : codes' = [codes EXCEPT ![t] = <<code>>]
  /\ ranIn' = [ranIn EXCEPT ![t] = IF t \in Linear THEN cwd ELSE ownCwd[t]]
  /\ At(t, "post")
  /\ UNCHANGED <<tempDir, ownCwd, cwd, result, file>>

PostAnyway(t) ==  \* mutant: no break after a failed call
  /\ stage[t] = "post"
  /\ Len(codes[t]) <= Posts[t]
  /\ \E code \in Codes : codes' = [codes EXCEPT ![t] = Append(@, code)]
  /\ UNCHANGED <<stage, tempDir, ownCwd, cwd, ranIn, result, file>>

\* One "post" call, unless a code before it was not zero.
Post(t) ==
  /\ stage[t] = "post"
  /\ Len(codes[t]) <= Posts[t]
  /\ codes[t][Len(codes[t])] = 0
  /\ \E code \in Codes : codes' = [codes EXCEPT ![t] = Append(@, code)]
  /\ UNCHANGED <<stage, tempDir, ownCwd, cwd, ranIn, result, file>>

PostsEndSaving(t) ==  \* mutant: what was captured is stored before the cleanup
  /\ stage[t] = "post"
  /\ Len(codes[t]) > Posts[t] \/ codes[t][Len(codes[t])] # 0
  /\ At(t, "cleanup")
  /\ file' = [file EXCEPT ![t] = codes[t][Len(codes[t])]]
  /\ UNCHANGED <<tempDir, ownCwd, cwd, codes, ranIn, result>>

\* No call is left, or the last one failed: on to "cleanup".
PostsEnd(t) ==
  /\ stage[t] = "post"
  /\ Len(codes[t]) > Posts[t] \/ codes[t][Len(codes[t])] # 0
  /\ At(t, "cleanup")
  /\ UNCHANGED <<tempDir, ownCwd, cwd, codes, ranIn, result, file>>

\* run_test2 after test::run returned a capture, whose return code is that of the last
\* call.  A test without "expected" is saved: store() reports no error, the file may
\* stay as it was (not opened) or be cut (not written whole).  Any other is compared,
\* and the return code must be the same, as must what was captured.
Judge(t) ==
  /\ stage[t] = "judge"
  /\ LET returnCode == codes[t][Len(codes[t])] IN
     IF t \notin Filled
       THEN /\ EndWith(t, "SAVED")
            /\ \E stored \in {returnCode, file[t], Cut} : file' = [file EXCEPT ![t] = stored]
       ELSE /\ \E sameOutput \in BOOLEAN :
                 EndWith(t, IF returnCode = Expected[t] /\ sameOutput THEN "OK" ELSE "FAILED")
            /\ UNCHANGED file
  /\ UNCHANGED <<tempDir, ownCwd, cwd, codes, ranIn>>

\* An exception leaves run_test, from wherever it is.
Throw(t) ==
  /\ Running(t)
  /\ EndWith(t, "threw")
  /\ UNCHANGED <<tempDir, ownCwd, cwd, codes, ranIn, file>>

TestStep(t) ==
  \/ MakeDirs(t) \/ Command(t) \/ ChangeDir(t) \/ ListEnds(t) \/ Call(t) \/ Post(t)
  \/ PostsEnd(t) \/ Judge(t) \/ Throw(t)

\* counters.report was given the result: remove_all(temp_dir), whose error is ignored.
RemoveDir(t) ==
  IF tempDir[t] # "made"
    THEN UNCHANGED tempDir
    ELSE \E after \in {"removed", "left"} : tempDir' = [tempDir EXCEPT ![t] = after]
=============================================================================
