---------------------------- MODULE TestRun_proofs ----------------------------
(***************************************************************************)
(* What is true of every test by itself, whatever the others do and on     *)
(* whichever thread it runs: one invariant of the variables of TestRun,    *)
(* and what a step of one test leaves alone.  Runner_proofs rests on it.   *)
(***************************************************************************)
EXTENDS TestRun, TLAPS

TestTypeOK ==
  /\ stage \in [Tests -> Stages]
  /\ tempDir \in [Tests -> DirStates]
  /\ ownCwd \in [Tests -> Dirs] /\ ranIn \in [Tests -> Dirs] /\ cwd \in Dirs
  /\ codes \in [Tests -> Seq(Codes)]
  /\ result \in [Tests -> Results]
  /\ file \in [Tests -> Codes \cup {Unset, Cut}]

\* A test has an outcome when it has ended and not before, and only then its
\* directory may go.
EndInv ==
  \A t \in Tests :
    /\ stage[t] = "ended" <=> result[t] # "none"
    /\ tempDir[t] \in {"removed", "left"} => stage[t] = "ended"

\* How many calls have been made at each stage, and what they returned.
CodesInv ==
  \A t \in Tests :
    /\ stage[t] \in {"idle", "mkdirs", "prepare", "call"} => codes[t] = <<>>
    /\ stage[t] \in {"post", "cleanup", "judge"} => codes[t] # <<>>
    /\ result[t] \in {"OK", "FAILED", "SAVED"} => codes[t] # <<>>
    /\ Len(codes[t]) <= 1 + Posts[t]
    /\ \A i \in DOMAIN codes[t] : i < Len(codes[t]) => codes[t][i] = 0

LastCode(t) == codes[t][Len(codes[t])]

\* A verdict is on the last code, and only what Judge decided on is in the file.
FileInv ==
  \A t \in Tests :
    /\ result[t] = "OK" => Expected[t] = LastCode(t)
    /\ file[t] # Expected[t] =>
         t \notin Filled /\ result[t] = "SAVED" /\ file[t] \in {Cut, LastCode(t)}

\* A test that is not linear knows two directories.
HomeInv == \A t \in Tests \ Linear : {ownCwd[t], ranIn[t]} \subseteq {StartDir, t}

TestInv == TestTypeOK /\ EndInv /\ CodesInv /\ FileInv /\ HomeInv

-----------------------------------------------------------------------------

\* A step of one test is nobody else's: it starts from a test that has not ended, and
\* the others keep their stage, directory, outcome and file.
LEMMA StepOfOne ==
  ASSUME NEW t \in Tests, TestTypeOK, Begin(t) \/ TestStep(t)
  PROVE  /\ stage[t] # "ended"
         /\ stage'[t] # "idle"
         /\ \A u \in Tests \ {t} :
              /\ stage'[u] = stage[u] /\ tempDir'[u] = tempDir[u]
              /\ result'[u] = result[u] /\ file'[u] = file[u]
         /\ t \notin Linear => cwd' = cwd
<1> USE DEF TestTypeOK, At, EndWith, Stages
<1>1. CASE Begin(t)
  BY <1>1 DEF Begin
<1>2. CASE MakeDirs(t)
  BY <1>2 DEF MakeDirs
<1>3. CASE Command(t) \/ ChangeDir(t)
  BY <1>3 DEF Command, ChangeDir
<1>4. CASE ListEnds(t) \/ Call(t) \/ Post(t) \/ PostsEnd(t)
  BY <1>4 DEF ListEnds, Call, Post, PostsEnd
<1>5. CASE Judge(t)
  BY <1>5 DEF Judge
<1>6. CASE Throw(t)
  BY <1>6 DEF Throw, Running
<1> QED
  BY <1>1, <1>2, <1>3, <1>4, <1>5, <1>6 DEF TestStep, Begin

\* What is said of verdicts and files stays true while a test that has not ended makes a
\* step that does not touch its file and finds it not OK.
LEMMA FilesKept ==
  ASSUME EndInv, FileInv, NEW t \in Tests, stage[t] # "ended", file' = file, result'[t] # "OK",
         \A u \in Tests \ {t} : result'[u] = result[u] /\ codes'[u] = codes[u]
  PROVE  FileInv'
<1>1. file'[t] = Expected[t]
  BY DEF EndInv, FileInv
<1>2. \A u \in Tests \ {t} : LastCode(u)' = LastCode(u)
  BY DEF LastCode
<1> QED
  BY <1>1, <1>2 DEF FileInv

\* One more call makes a list of codes longer by one.
LEMMA OneLonger ==
  ASSUME NEW s \in Seq(Codes), NEW code \in Codes
  PROVE  Append(s, code) # <<>> /\ Len(Append(s, code)) = Len(s) + 1
<1>1. Len(Append(s, code)) = Len(s) + 1 /\ Len(s) \in Nat
  OBVIOUS
<1>2. Append(s, code) # <<>>
  BY <1>1
<1> QED
  BY <1>1, <1>2

\* The invariant of the tests is kept by every step of any of them.
LEMMA StepTestInv ==
  ASSUME TestInv, NEW t \in Tests, Begin(t) \/ TestStep(t)
  PROVE  TestInv'
<1> USE DEF TestInv, TestTypeOK, At, EndWith, Stages, Results, Dirs, DirStates
<1>1. CASE Begin(t)
  <2> USE <1>1 DEF Begin
  <2>1. TestTypeOK'
    OBVIOUS
  <2>2. EndInv'
    BY DEF EndInv
  <2>f. FileInv'
    BY FilesKept DEF EndInv
  <2>3. CodesInv'
    BY DEF CodesInv
  <2>4. HomeInv'
    BY DEF HomeInv
  <2> QED
    BY <2>1, <2>2, <2>f, <2>3, <2>4
<1>2. CASE MakeDirs(t)
  <2> USE <1>2 DEF MakeDirs
  <2>1. TestTypeOK'
    OBVIOUS
  <2>2. EndInv'
    BY DEF EndInv
  <2>f. FileInv'
    BY FilesKept DEF EndInv
  <2>3. CodesInv'
    BY DEF CodesInv
  <2>4. HomeInv'
    BY DEF HomeInv
  <2> QED
    BY <2>1, <2>2, <2>f, <2>3, <2>4
<1>3. CASE Command(t)
  <2> USE <1>3 DEF Command
  <2>1. TestTypeOK'
    OBVIOUS
  <2>2. EndInv'
    BY DEF EndInv
  <2>f. FileInv'
    BY FilesKept DEF EndInv
  <2>3. CodesInv'
    BY DEF CodesInv
  <2>4. HomeInv'
    BY DEF HomeInv
  <2> QED
    BY <2>1, <2>2, <2>f, <2>3, <2>4
<1>4. CASE ChangeDir(t)
  <2>0. PICK dir \in {StartDir, t} :
          /\ stage[t] \in {"prepare", "cleanup"}
          /\ ownCwd' = [ownCwd EXCEPT ![t] = dir] /\ cwd' \in {cwd, dir}
          /\ UNCHANGED <<stage, result>> \/ EndWith(t, "SKIPPED")
          /\ UNCHANGED <<tempDir, codes, ranIn, file>>
    BY <1>4 DEF ChangeDir
  <2>1. TestTypeOK'
    <3>1. ownCwd' \in [Tests -> Dirs] /\ cwd' \in Dirs
      BY <2>0
    <3>2. CASE UNCHANGED <<stage, result>>
      BY <2>0, <3>1, <3>2
    <3>3. CASE EndWith(t, "SKIPPED")
      <4>1. stage' \in [Tests -> Stages]
        BY <3>3
      <4>2. result' \in [Tests -> Results]
        BY <3>3
      <4> QED
        BY <2>0, <3>1, <4>1, <4>2
    <3> QED
      BY <2>0, <3>2, <3>3
  <2>2. EndInv'
    BY <2>0 DEF EndInv
  <2>f. FileInv'
    BY <2>0, FilesKept DEF EndInv
  <2>3. CodesInv'
    BY <2>0 DEF CodesInv
  <2>4. HomeInv'
    BY <2>0 DEF HomeInv
  <2> QED
    BY <2>1, <2>2, <2>f, <2>3, <2>4
<1>5. CASE ListEnds(t)
  <2> USE <1>5 DEF ListEnds
  <2>0. PICK s \in {"call", "judge"} : At(t, s) /\ (s = "call" => stage[t] = "prepare")
                                         /\ (s = "judge" => stage[t] = "cleanup")
    OBVIOUS
  <2>a. codes' = codes /\ result' = result
    OBVIOUS
  <2>1. TestTypeOK'
    BY <2>0, <2>a
  <2>2. EndInv'
    BY <2>0, <2>a DEF EndInv
  <2>f. FileInv'
    BY <2>0, <2>a, FilesKept DEF EndInv
  <2>3. CodesInv'
    BY <2>0, <2>a DEF CodesInv
  <2>4. HomeInv'
    BY <2>0, <2>a DEF HomeInv
  <2> QED
    BY <2>1, <2>2, <2>f, <2>3, <2>4
<1>6. CASE Call(t)
  <2> USE <1>6 DEF Call
  <2>0. PICK code \in Codes : codes' = [codes EXCEPT ![t] = <<code>>]
    OBVIOUS
  <2>1. TestTypeOK'
    BY <2>0, PostsAssumption
  <2>2. EndInv'
    BY <2>0, PostsAssumption DEF EndInv
  <2>f. FileInv'
    BY <2>0, FilesKept DEF EndInv
  <2>3. CodesInv'
    <3>1. \A u \in Tests : Posts[u] \in Nat
      BY PostsAssumption
    <3>2. codes'[t] = <<code>> /\ \A u \in Tests \ {t} : codes'[u] = codes[u]
      BY <2>0
    <3> QED
      BY <3>1, <3>2 DEF CodesInv
  <2>4. HomeInv'
    BY <2>0, PostsAssumption DEF HomeInv
  <2> QED
    BY <2>1, <2>2, <2>f, <2>3, <2>4
<1>7. CASE Post(t)
  <2> USE <1>7 DEF Post
  <2>0. PICK code \in Codes : codes' = [codes EXCEPT ![t] = Append(codes[t], code)]
    OBVIOUS
  <2>a. codes[t] \in Seq(Codes) /\ codes[t] # <<>> /\ Len(codes[t]) \in Nat \ {0}
    BY DEF CodesInv
  <2>1. TestTypeOK'
    BY <2>0, <2>a, PostsAssumption
  <2>2. EndInv'
    BY <2>0, <2>a, PostsAssumption DEF EndInv
  <2>f. FileInv'
    BY <2>0, <2>a, FilesKept DEF EndInv
  <2>3. CodesInv'
    <3>1. \A u \in Tests \ {t} : codes'[u] = codes[u]
      BY <2>0
    <3>2. codes'[t] = Append(codes[t], code) /\ codes[t][Len(codes[t])] = 0
          /\ Len(codes[t]) <= Posts[t]
      BY <2>0
    <3>3. codes'[t] # <<>> /\ Len(codes'[t]) <= 1 + Posts[t]
      <4>1. Posts[t] \in Nat
        BY PostsAssumption
      <4>2. codes'[t] # <<>> /\ Len(codes'[t]) = Len(codes[t]) + 1
        BY Zenon, <2>a, <3>2, OneLonger
      <4> QED
        BY <2>a, <3>2, <4>1, <4>2
    <3>4. \A i \in DOMAIN codes'[t] : i < Len(codes'[t]) => codes'[t][i] = 0
      BY <2>a, <3>2 DEF CodesInv
    <3>5. stage' = stage /\ result' = result /\ stage[t] = "post"
      OBVIOUS
    <3> QED
      BY <3>1, <3>3, <3>4, <3>5 DEF CodesInv
  <2>4. HomeInv'
    BY <2>0, <2>a, PostsAssumption DEF HomeInv
  <2> QED
    BY <2>1, <2>2, <2>f, <2>3, <2>4
<1>8. CASE PostsEnd(t)
  <2> USE <1>8 DEF PostsEnd
  <2>1. TestTypeOK'
    OBVIOUS
  <2>2. EndInv'
    BY DEF EndInv
  <2>f. FileInv'
    BY FilesKept DEF EndInv
  <2>3. CodesInv'
    BY DEF CodesInv
  <2>4. HomeInv'
    BY DEF HomeInv
  <2> QED
    BY <2>1, <2>2, <2>f, <2>3, <2>4
<1>9. CASE Judge(t)
  <2>0. PICK r \in {"OK", "FAILED", "SAVED"} :
          /\ stage[t] = "judge" /\ EndWith(t, r)
          /\ r = "OK" => Expected[t] = LastCode(t)
          /\ \/ file' = file
             \/ /\ t \notin Filled /\ r = "SAVED"
                /\ \E f \in {LastCode(t), file[t], Cut} : file' = [file EXCEPT ![t] = f]
          /\ UNCHANGED <<tempDir, ownCwd, cwd, codes, ranIn>>
    <3>1. CASE t \notin Filled
      <4>1. /\ stage[t] = "judge" /\ EndWith(t, "SAVED")
            /\ \E f \in {LastCode(t), file[t], Cut} : file' = [file EXCEPT ![t] = f]
            /\ UNCHANGED <<tempDir, ownCwd, cwd, codes, ranIn>>
        BY <1>9, <3>1 DEF Judge, LastCode
      <4> QED
        BY <3>1, <4>1
    <3>2. CASE t \in Filled
      <4>1. PICK same \in BOOLEAN :
              EndWith(t, IF LastCode(t) = Expected[t] /\ same THEN "OK" ELSE "FAILED")
        BY <1>9, <3>2 DEF Judge, LastCode
      <4>2. /\ stage[t] = "judge" /\ file' = file
            /\ UNCHANGED <<tempDir, ownCwd, cwd, codes, ranIn>>
        BY <1>9, <3>2 DEF Judge
      <4>3. CASE LastCode(t) = Expected[t] /\ same
        BY <4>1, <4>2, <4>3
      <4>4. CASE ~(LastCode(t) = Expected[t] /\ same)
        BY <4>1, <4>2, <4>4
      <4> QED
        BY <4>3, <4>4
    <3> QED
      BY <3>1, <3>2
  <2>c. LastCode(t) \in Codes
    BY <2>0 DEF LastCode, CodesInv
  <2>a. file' \in [Tests -> Codes \cup {Unset, Cut}]
    BY <2>0, <2>c
  <2>d. stage' \in [Tests -> Stages] /\ result' \in [Tests -> Results]
    BY <2>0
  <2>1. TestTypeOK'
    BY <2>0, <2>a, <2>d
  <2>2. EndInv'
    BY <2>0 DEF EndInv
  <2>b. FileInv'
    <3>1. result' = [result EXCEPT ![t] = r] /\ result[t] = "none" /\ file[t] = Expected[t]
      BY <2>0 DEF EndInv, FileInv
    <3>2. \A u \in Tests \ {t} : /\ file'[u] = file[u] /\ result'[u] = result[u]
                                 /\ LastCode(u)' = LastCode(u)
      BY <2>0 DEF LastCode
    <3>3. /\ result'[t] = r /\ LastCode(t)' = LastCode(t)
          /\ file'[t] # Expected[t] =>
               t \notin Filled /\ r = "SAVED" /\ file'[t] \in {Cut, LastCode(t)}
      BY <2>0, <3>1 DEF LastCode
    <3> QED
      BY <2>0, <3>2, <3>3 DEF FileInv
  <2>3. CodesInv'
    BY <2>0 DEF CodesInv
  <2>4. HomeInv'
    BY <2>0 DEF HomeInv
  <2> QED
    BY <2>1, <2>2, <2>b, <2>3, <2>4
<1>10. CASE Throw(t)
  <2> USE <1>10 DEF Throw, Running
  <2>1. TestTypeOK'
    OBVIOUS
  <2>2. EndInv'
    BY DEF EndInv
  <2>f. FileInv'
    BY FilesKept DEF EndInv
  <2>3. CodesInv'
    BY DEF CodesInv
  <2>4. HomeInv'
    BY DEF HomeInv
  <2> QED
    BY <2>1, <2>2, <2>f, <2>3, <2>4
<1> QED
  BY <1>1, <1>2, <1>3, <1>4, <1>5, <1>6, <1>7, <1>8, <1>9, <1>10 DEF TestStep

\* A step that is nobody's keeps it too, and the directory of a test that has ended may go.
LEMMA QuietTestInv ==
  ASSUME TestInv,
         \/ UNCHANGED testVars
         \/ /\ \E t \in Tests : stage[t] = "ended" /\ RemoveDir(t)
            /\ UNCHANGED <<stage, ownCwd, cwd, codes, ranIn, result, file>>
  PROVE  TestInv'
<1>1. tempDir' \in [Tests -> DirStates]
  BY DEF TestInv, TestTypeOK, RemoveDir, testVars, DirStates
<1>2. UNCHANGED <<stage, ownCwd, cwd, codes, ranIn, result, file>>
  BY DEF testVars
<1>3. \A t \in Tests : tempDir'[t] \in {"removed", "left"} => stage[t] = "ended"
  BY DEF TestInv, TestTypeOK, EndInv, RemoveDir, testVars
<1> QED
  BY <1>1, <1>2, <1>3 DEF TestInv, TestTypeOK, EndInv, CodesInv, FileInv, LastCode, HomeInv
=============================================================================
