---------------------------- MODULE Runner_proofs ----------------------------
(***************************************************************************)
(* Proofs about Runner, for any number of tests, any of which may be       *)
(* linear or without "expected", and any number of threads of the pool.    *)
(***************************************************************************)
EXTENDS Runner, TestRun_proofs, FiniteSetTheorems

-----------------------------------------------------------------------------
(* The order of reports *)

\* The tests that are reported before the last loop.
First == IF runLinear THEN 0 ELSE NumTasks

\* The test whose report is the i-th.
Place(i) == IF i <= First THEN Nth(Pooled, i) ELSE Nth(OneByOne, i - First)

\* Nth counts through a set of tests: it gives each of them once.
LEMMA NthCounts ==
  ASSUME NEW S \in SUBSET Tests
  PROVE  /\ IsFiniteSet(S) /\ Cardinality(S) \in Nat
         /\ \A i \in 1 .. Cardinality(S) : Nth(S, i) \in S
         /\ \A i, j \in 1 .. Cardinality(S) : Nth(S, i) = Nth(S, j) => i = j
         /\ \A t \in S : \E i \in 1 .. Cardinality(S) : Nth(S, i) = t
<1> DEFINE n == Cardinality(S)
           Below(t) == {u \in S : u < t}
           rank == [t \in S |-> Cardinality(Below(t))]
<1>0. S \subseteq Nat
  BY DEF Tests
<1>1. IsFiniteSet(S) /\ n \in Nat
  <2>1. IsFiniteSet(Tests)
    BY FS_Interval, NumTestsAssumption DEF Tests
  <2> QED
    BY <2>1, FS_Subset, FS_CardinalityType
<1>2. \A t \in S : IsFiniteSet(Below(t)) /\ rank[t] \in 0 .. n - 1
  <2> SUFFICES ASSUME NEW t \in S PROVE IsFiniteSet(Below(t)) /\ rank[t] \in 0 .. n - 1
    OBVIOUS
  <2>1. IsFiniteSet(S \ {t}) /\ Cardinality(S \ {t}) = n - 1
    BY <1>1, FS_RemoveElement
  <2>2. Below(t) \in SUBSET (S \ {t})
    BY DEF Tests
  <2>3. IsFiniteSet(Below(t)) /\ Cardinality(Below(t)) <= n - 1
    BY <2>1, <2>2, FS_Subset
  <2>4. Cardinality(Below(t)) \in Nat
    BY <2>3, FS_CardinalityType
  <2> QED
    BY <2>3, <2>4, <1>1
<1>3. \A t, v \in S : t < v => rank[t] < rank[v]
  <2> SUFFICES ASSUME NEW t \in S, NEW v \in S, t < v PROVE rank[t] < rank[v]
    OBVIOUS
  <2>1. Cardinality(Below(t) \cup {t}) = Cardinality(Below(t)) + 1
    <3>1. t \notin Below(t)
      BY <1>0
    <3> QED
      BY <3>1, <1>2, FS_AddElement
  <2>2. Below(t) \cup {t} \in SUBSET Below(v)
    <3>1. \A u \in Below(t) : u < v
      BY <1>0
    <3> QED
      BY <3>1
  <2>3. Cardinality(Below(t) \cup {t}) <= Cardinality(Below(v))
    BY <1>2, <2>2, FS_Subset
  <2>4. rank[t] = Cardinality(Below(t)) /\ rank[v] = Cardinality(Below(v))
    OBVIOUS
  <2>5. Cardinality(Below(t)) \in Nat /\ Cardinality(Below(v)) \in Nat
    BY <1>2, FS_CardinalityType
  <2> HIDE DEF rank, Below
  <2> QED
    BY <2>1, <2>3, <2>4, <2>5
<1>a. rank \in [S -> 0 .. n - 1]
  BY <1>2
<1>b. \A i \in 1 .. n : (\E t \in S : rank[t] = i - 1) => Nth(S, i) \in S /\ rank[Nth(S, i)] = i - 1
  BY DEF Nth
<1> HIDE DEF rank, n
<1>c. \A t, v \in S : rank[t] = rank[v] => t = v
  BY <1>0, <1>1, <1>a, <1>3
<1>4. rank \in Surjection(S, 0 .. n - 1)
  <2>3. rank \in Injection(S, 0 .. n - 1)
    BY <1>a, <1>c DEF Injection, IsInjective
  <2>4. IsFiniteSet(0 .. n - 1) /\ Cardinality(0 .. n - 1) = n
    BY <1>1, FS_Interval
  <2> QED
    BY <2>3, <2>4, FS_Injection DEF n
<1>5. \A i \in 1 .. n : \E t \in S : rank[t] = i - 1
  <2>1. \A r \in 0 .. n - 1 : \E t \in S : rank[t] = r
    BY <1>4 DEF Surjection
  <2> QED
    BY <2>1, <1>1
<1>6. \A i \in 1 .. n : Nth(S, i) \in S /\ rank[Nth(S, i)] = i - 1
  BY <1>5, <1>b
<1>7. \A t \in S : rank[t] + 1 \in 1 .. n /\ Nth(S, rank[t] + 1) = t
  <2> SUFFICES ASSUME NEW t \in S PROVE rank[t] + 1 \in 1 .. n /\ Nth(S, rank[t] + 1) = t
    OBVIOUS
  <2>1. rank[t] + 1 \in 1 .. n /\ rank[t] \in Nat
    BY <1>1, <1>a
  <2>2. rank[Nth(S, rank[t] + 1)] = rank[t] /\ Nth(S, rank[t] + 1) \in S
    BY <1>6, <2>1
  <2> QED
    BY <2>1, <2>2, <1>c
<1>8. \A i, j \in 1 .. n : Nth(S, i) = Nth(S, j) => i = j
  BY <1>1, <1>6
<1> QED
  BY <1>1, <1>6, <1>7, <1>8 DEF n

\* Every test has one place in the order of reports, with a pool and without.
LEMMA Places ==
  ASSUME runLinear \in BOOLEAN
  PROVE  /\ NumTasks \in Nat /\ First \in Nat /\ Cardinality(OneByOne) \in Nat
         /\ First + Cardinality(OneByOne) = NumTests
         /\ \A i \in 1 .. NumTests : Place(i) \in Tests
         /\ \A i, j \in 1 .. NumTests : Place(i) = Place(j) => i = j
         /\ \A t \in Tests : \E i \in 1 .. NumTests : Place(i) = t
<1>1. /\ IsFiniteSet(Tests) /\ Cardinality(Tests) = NumTests
      /\ IsFiniteSet(Linear) /\ Pooled \in SUBSET Tests
      /\ Cardinality(Pooled) = NumTests - Cardinality(Linear) /\ Cardinality(Linear) \in Nat
  <2>1. IsFiniteSet(Tests) /\ Cardinality(Tests) = NumTests
    BY FS_Interval, NumTestsAssumption DEF Tests
  <2>2. IsFiniteSet(Linear) /\ Cardinality(Linear) \in Nat /\ Tests \cap Linear = Linear
    BY <2>1, LinearAssumption, FS_Subset, FS_CardinalityType
  <2> QED
    BY <2>1, <2>2, FS_Difference DEF Pooled
<1>2. NumTasks \in Nat /\ NumTasks = NumTests - Cardinality(Linear)
  BY <1>1, NthCounts DEF NumTasks
<1>3. CASE runLinear
  <2>1. First = 0 /\ OneByOne = Tests /\ \A i \in 1 .. NumTests : Place(i) = Nth(Tests, i)
    BY <1>3, NumTestsAssumption DEF First, OneByOne, Place
  <2> QED
    BY <1>1, <1>2, <2>1, NthCounts, NumTestsAssumption
<1>4. CASE ~runLinear
  <2>1. First = NumTasks /\ OneByOne = Linear
    BY <1>4 DEF First, OneByOne
  <2>2. First + Cardinality(OneByOne) = NumTests
    BY <1>1, <1>2, <2>1, NumTestsAssumption
  <2>3. \A i \in 1 .. NumTests :
          \/ i \in 1 .. NumTasks /\ Place(i) = Nth(Pooled, i)
          \/ i - NumTasks \in 1 .. Cardinality(Linear) /\ Place(i) = Nth(Linear, i - NumTasks)
    BY <1>1, <1>2, <2>1, NumTestsAssumption DEF Place
  <2>4. /\ \A i \in 1 .. NumTasks : Nth(Pooled, i) \in Tests \ Linear
        /\ \A i, j \in 1 .. NumTasks : Nth(Pooled, i) = Nth(Pooled, j) => i = j
        /\ \A t \in Tests \ Linear : \E i \in 1 .. NumTasks : Nth(Pooled, i) = t
    BY <1>1, NthCounts DEF NumTasks, Pooled
  <2>5. /\ \A i \in 1 .. Cardinality(Linear) : Nth(Linear, i) \in Linear
        /\ \A i, j \in 1 .. Cardinality(Linear) : Nth(Linear, i) = Nth(Linear, j) => i = j
        /\ \A t \in Linear : \E i \in 1 .. Cardinality(Linear) : Nth(Linear, i) = t
    BY LinearAssumption, NthCounts
  <2>6. \A i \in 1 .. NumTests : Place(i) \in Tests
    BY <2>3, <2>4, <2>5, LinearAssumption
  <2>7. ASSUME NEW i \in 1 .. NumTests, NEW j \in 1 .. NumTests, Place(i) = Place(j)
        PROVE  i = j
    <3>1. CASE i \in 1 .. NumTasks /\ Place(i) = Nth(Pooled, i)
      <4>1. Place(i) \notin Linear
        BY <3>1, <2>4
      <4>2. j \in 1 .. NumTasks /\ Place(j) = Nth(Pooled, j)
        BY <4>1, <2>3, <2>5, <2>7
      <4> QED
        BY <3>1, <4>2, <2>4, <2>7
    <3>2. CASE i - NumTasks \in 1 .. Cardinality(Linear) /\ Place(i) = Nth(Linear, i - NumTasks)
      <4>1. j - NumTasks \in 1 .. Cardinality(Linear) /\ Place(j) = Nth(Linear, j - NumTasks)
        BY <3>2, <2>3, <2>4, <2>5, <2>7
      <4>2. i - NumTasks = j - NumTasks
        BY <3>2, <4>1, <2>5, <2>7
      <4> QED
        BY <4>2, <1>2
    <3> QED
      BY <3>1, <3>2, <2>3
  <2>8. ASSUME NEW t \in Tests PROVE \E i \in 1 .. NumTests : Place(i) = t
    <3>1. CASE t \in Linear
      <4>1. PICK k \in 1 .. Cardinality(Linear) : Nth(Linear, k) = t
        BY <3>1, <2>5
      <4>2. k + NumTasks \in 1 .. NumTests /\ ~(k + NumTasks <= NumTasks)
            /\ (k + NumTasks) - NumTasks = k
        BY <1>1, <1>2, NumTestsAssumption
      <4>3. Place(k + NumTasks) = t
        BY <4>1, <4>2, <2>1 DEF Place
      <4> QED
        BY <4>2, <4>3
    <3>2. CASE t \notin Linear
      <4>1. PICK k \in 1 .. NumTasks : Nth(Pooled, k) = t
        BY <3>2, <2>4
      <4>2. k \in 1 .. NumTests /\ Place(k) = t
        BY <4>1, <1>1, <1>2, <2>1, NumTestsAssumption DEF Place
      <4> QED
        BY <4>2
    <3> QED
      BY <3>1, <3>2
  <2> QED
    BY <1>2, <2>1, <2>2, <2>6, <2>7, <2>8, <1>1
<1> QED
  BY <1>3, <1>4

-----------------------------------------------------------------------------
(* The invariant *)

RunnerTypeOK ==
  /\ runLinear \in BOOLEAN
  /\ main \in {"push", "get", "close", "unwind", "linear", "exit", "terminated"}
  /\ next \in Nat \ {0}
  /\ reports \in Seq(Tests)
  /\ failed \in Nat /\ skipped \in Nat /\ saved \in Nat /\ code \in {0, 1}
  /\ status \in [Task -> Pool!Status] /\ closing \in BOOLEAN /\ aborted \in BOOLEAN

\* A future that holds a value is that of a test that has ended and not thrown.
ValueInv ==
  \A i \in Task : LET t == Nth(Pooled, i) IN
    status[i] = "value" => stage[t] = "ended" /\ result[t] # "threw"

\* How many results the main thread has taken, and what may still be running.
MainInv ==
  /\ main \in {"push", "get", "close", "unwind"} => ~runLinear
  /\ main = "push" => reports = <<>> /\ next = 1
  /\ main \in {"get", "unwind"} => Len(reports) = next - 1 /\ next <= NumTasks + 1
  /\ main = "close" => Len(reports) = NumTasks
  /\ main = "linear" =>
       Len(reports) = First + next - 1 /\ next <= Cardinality(OneByOne) + 1
  /\ main = "exit" => Len(reports) = NumTests /\ (code = 0 <=> failed = 0)
  /\ main \in {"linear", "exit"} =>
       \A i \in Task : status[i] \notin {"queued", "running"}

\* The tests that have been reported did end, and stand in their places.
ReportInv ==
  \A i \in DOMAIN reports :
    /\ reports[i] = Place(i)
    /\ stage[reports[i]] = "ended" /\ result[reports[i]] # "threw"
    /\ ~KeepDirs => tempDir[reports[i]] # "made"

Reported == {reports[i] : i \in DOMAIN reports}
Having(r) == {t \in Reported : result[t] = r}

\* The counters count the reported tests by their outcomes.
CountInv ==
  /\ failed = Cardinality(Having("FAILED"))
  /\ saved = Cardinality(Having("SAVED"))
  /\ skipped = Cardinality(Having("SKIPPED")) + Cardinality(Having("SAVED"))

Inv == TestInv /\ RunnerTypeOK /\ ValueInv /\ MainInv /\ ReportInv /\ CountInv

-----------------------------------------------------------------------------

\* The tests that were reported are finitely many, and so are those of an outcome.
LEMMA HavingFinite ==
  ASSUME reports \in Seq(Tests)
  PROVE  \A r : IsFiniteSet(Having(r)) /\ Cardinality(Having(r)) \in Nat
<1>1. IsFiniteSet(Tests)
  BY FS_Interval, NumTestsAssumption DEF Tests
<1>2. \A r : Having(r) \in SUBSET Tests
  BY DEF Having, Reported
<1> QED
  BY <1>1, <1>2, FS_Subset, FS_CardinalityType

\* Where the main thread counts, and the tests that were reported keep their stage,
\* outcome and directory, what was said of them stays true.
LEMMA ReportsKept ==
  ASSUME Inv, UNCHANGED <<runLinear, reports, failed, skipped, saved>>,
         \A t \in Tests : stage[t] = "ended" =>
           stage'[t] = "ended" /\ result'[t] = result[t] /\ tempDir'[t] = tempDir[t]
  PROVE  ReportInv' /\ CountInv'
<1> USE DEF Inv, RunnerTypeOK
<1>1. \A i : Place(i)' = Place(i)
  BY DEF Place, First, OneByOne
<1>2. \A i \in DOMAIN reports : reports[i] \in Tests
  OBVIOUS
<1>3. ReportInv'
  BY <1>1, <1>2 DEF ReportInv
<1>4. \A r : Having(r)' = Having(r)
  BY <1>2 DEF ReportInv, Having, Reported
<1>5. CountInv'
  BY <1>4 DEF CountInv
<1> QED
  BY <1>3, <1>5

\* The next test in the order is reported, under its own outcome.
LEMMA ReportNext ==
  ASSUME Inv, NEW t \in Tests, Report(t), runLinear' = runLinear,
         Len(reports) < NumTests, t = Place(Len(reports) + 1),
         stage[t] = "ended", result[t] # "threw"
  PROVE  /\ TestInv' /\ ReportInv' /\ CountInv'
         /\ reports' \in Seq(Tests) /\ Len(reports') = Len(reports) + 1
         /\ failed' \in Nat /\ skipped' \in Nat /\ saved' \in Nat /\ code' = code
         /\ stage' = stage /\ result' = result
<1> USE DEF Inv, RunnerTypeOK
<1>1. /\ UNCHANGED <<stage, ownCwd, cwd, codes, ranIn, result, file, code>>
      /\ reports' = Append(reports, t)
  BY DEF Report
<1>2. reports' \in Seq(Tests) /\ Len(reports') = Len(reports) + 1
  BY <1>1
<1>3. TestInv'
  <2>1. CASE KeepDirs
    BY <2>1, <1>1, QuietTestInv DEF Report, testVars
  <2>2. CASE ~KeepDirs
    BY <2>2, <1>1, QuietTestInv DEF Report
  <2> QED
    BY <2>1, <2>2
<1>4. ReportInv'
  <2>1. \A i : Place(i)' = Place(i)
    BY DEF Place, First, OneByOne
  <2>2. \A u \in Tests : ~KeepDirs => tempDir'[u] # "made" \/ (u # t /\ tempDir'[u] = tempDir[u])
    <3>1. tempDir \in [Tests -> DirStates]
      BY DEF TestInv, TestTypeOK
    <3>2. CASE ~KeepDirs /\ tempDir[t] # "made"
      <4>1. tempDir' = tempDir
        BY <3>2 DEF Report, RemoveDir
      <4> QED
        BY <3>2, <4>1
    <3>3. CASE ~KeepDirs /\ tempDir[t] = "made"
      <4>1. PICK after \in {"removed", "left"} : tempDir' = [tempDir EXCEPT ![t] = after]
        BY <3>3 DEF Report, RemoveDir
      <4> QED
        BY <3>1, <4>1
    <3> QED
      BY <3>2, <3>3
  <2> SUFFICES ASSUME NEW i \in DOMAIN reports'
               PROVE  /\ reports'[i] = Place(i)
                      /\ stage[reports'[i]] = "ended" /\ result[reports'[i]] # "threw"
                      /\ ~KeepDirs => tempDir'[reports'[i]] # "made"
    BY <1>1, <2>1 DEF ReportInv
  <2>3. CASE i \in DOMAIN reports
    <3>1. reports'[i] = reports[i] /\ reports[i] \in Tests
      BY <2>3, <1>1
    <3> QED
      BY <3>1, <2>2, <2>3 DEF ReportInv
  <2>4. CASE i = Len(reports) + 1
    <3>1. reports'[i] = t
      BY <2>4, <1>1
    <3> QED
      BY <3>1, <2>2, <2>4
  <2> QED
    BY <2>3, <2>4, <1>1
<1>5. Reported' = Reported \cup {t} /\ t \notin Reported
  <2>1. Reported' = Reported \cup {t}
    <3>1. \A i \in DOMAIN reports : reports'[i] = reports[i]
      BY <1>1
    <3>2. DOMAIN reports' = DOMAIN reports \cup {Len(reports) + 1}
          /\ reports'[Len(reports) + 1] = t
      BY <1>1
    <3> QED
      BY <3>1, <3>2 DEF Reported
  <2>2. \A i \in DOMAIN reports : i \in 1 .. NumTests /\ i # Len(reports) + 1
    BY NumTestsAssumption
  <2>3. Len(reports) + 1 \in 1 .. NumTests
    BY NumTestsAssumption
  <2>4. \A i \in DOMAIN reports : reports[i] # t
    BY <2>2, <2>3, Places DEF ReportInv
  <2> QED
    BY <2>1, <2>4 DEF Reported
<1>6. \A r : Cardinality(Having(r)') = Cardinality(Having(r)) + IF result[t] = r THEN 1 ELSE 0
  <2> SUFFICES ASSUME NEW r
               PROVE Cardinality(Having(r)') = Cardinality(Having(r)) + IF result[t] = r THEN 1 ELSE 0
    OBVIOUS
  <2>1. Having(r)' = IF result[t] = r THEN Having(r) \cup {t} ELSE Having(r)
    BY <1>1, <1>5 DEF Having
  <2>2. t \notin Having(r)
    BY <1>5 DEF Having
  <2>3. IsFiniteSet(Having(r)) /\ Cardinality(Having(r)) \in Nat
    BY HavingFinite
  <2>4. Cardinality(Having(r) \cup {t}) = Cardinality(Having(r)) + 1
    BY <2>2, <2>3, FS_AddElement
  <2>5. CASE result[t] = r
    BY <2>1, <2>4, <2>5
  <2>6. CASE result[t] # r
    BY <2>1, <2>3, <2>6
  <2> QED
    BY <2>5, <2>6
<1>7. /\ failed' \in Nat /\ skipped' \in Nat /\ saved' \in Nat
      /\ failed' = failed + IF result[t] = "FAILED" THEN 1 ELSE 0
      /\ skipped' = skipped + IF result[t] \in {"SKIPPED", "SAVED"} THEN 1 ELSE 0
      /\ saved' = saved + IF result[t] = "SAVED" THEN 1 ELSE 0
  BY DEF Report
<1>8. CountInv'
  <2>1. \A r : Cardinality(Having(r)) \in Nat
    BY HavingFinite
  <2> QED
    BY <2>1, <1>6, <1>7 DEF CountInv
<1> QED
  BY <1>1, <1>2, <1>3, <1>4, <1>7, <1>8

-----------------------------------------------------------------------------

\* The step of one test, on the main thread or on another.
LEMMA MoveInv ==
  ASSUME Inv, NEW t \in Tests, Begin(t) \/ TestStep(t), UNCHANGED <<mainVars, countVars>>,
         status' \in [Task -> Pool!Status], UNCHANGED <<closing, aborted>>,
         \A i \in Task : status'[i] = "value" => status[i] = "value",
         main \in {"linear", "exit"} => status' = status
  PROVE  Inv'
<1> USE DEF Inv, mainVars, countVars
<1>1. TestInv'
  BY StepTestInv
<1>2. \A u \in Tests : stage[u] = "ended" =>
        stage'[u] = "ended" /\ result'[u] = result[u] /\ tempDir'[u] = tempDir[u]
  BY StepOfOne DEF TestInv
<1>3. RunnerTypeOK'
  BY DEF RunnerTypeOK
<1>4. ValueInv'
  <2>1. \A i \in Task : Nth(Pooled, i) \in Tests
    BY NthCounts DEF Task, NumTasks, Pooled
  <2> QED
    BY <1>2, <2>1 DEF ValueInv
<1>5. MainInv'
  BY DEF MainInv, First, OneByOne
<1>6. ReportInv' /\ CountInv'
  BY <1>2, ReportsKept
<1> QED
  BY <1>1, <1>3, <1>4, <1>5, <1>6

\* A step that leaves the tests and the counts alone: of the pool, or of the main thread
\* from one loop to the next.
LEMMA QuietInv ==
  ASSUME Inv, UNCHANGED <<runLinear, testVars, countVars>>,
         RunnerTypeOK', ValueInv', MainInv'
  PROVE  Inv'
<1> USE DEF Inv, countVars
<1>1. TestInv'
  BY QuietTestInv
<1>2. ReportInv' /\ CountInv'
  BY ReportsKept DEF testVars
<1> QED
  BY <1>1, <1>2

\* Every step preserves the invariant.
LEMMA NextInv == Inv /\ [Next]_vars => Inv'
<1> SUFFICES ASSUME Inv, [Next]_vars PROVE Inv'
  OBVIOUS
<1> USE DEF Pool!Task, Task
<1>a. /\ NumTasks \in Nat /\ First \in Nat /\ Cardinality(OneByOne) \in Nat
      /\ First + Cardinality(OneByOne) = NumTests
      /\ \A i \in 1 .. NumTests : Place(i) \in Tests
  BY Places DEF Inv, RunnerTypeOK
<1>b. \A i \in Task : Nth(Pooled, i) \in Tests \ Linear
  BY NthCounts DEF NumTasks, Pooled
<1>c. OneByOne \in SUBSET Tests
  BY LinearAssumption DEF OneByOne
<1>1. ASSUME NEW i \in Task, StartTask(i) PROVE Inv'
  <2>1. /\ UNCHANGED <<testVars, mainVars, countVars, closing, aborted>>
        /\ status[i] = "queued" /\ status' = [status EXCEPT ![i] = "running"]
    BY <1>1 DEF StartTask, Pool!Start
  <2>2. RunnerTypeOK'
    BY <2>1 DEF Inv, RunnerTypeOK, mainVars, countVars, Pool!Status
  <2>3. ValueInv'
    BY <2>1 DEF Inv, RunnerTypeOK, ValueInv, testVars
  <2>4. main \notin {"linear", "exit"}
    BY <2>1 DEF Inv, MainInv
  <2>5. MainInv'
    BY <2>1, <2>4 DEF Inv, MainInv, mainVars, countVars
  <2> QED
    BY <2>1, <2>2, <2>3, <2>5, QuietInv DEF mainVars
<1>2. ASSUME NEW i \in Task, TaskStep(i) PROVE Inv'
  <2>1. UNCHANGED <<status, closing, aborted>>
    BY <1>2 DEF TaskStep, poolVars
  <2> QED
    BY <1>2, <1>b, <2>1, MoveInv DEF TaskStep, Inv, RunnerTypeOK
<1>3. ASSUME NEW i \in Task, FinishTask(i) PROVE Inv'
  <2>1. /\ UNCHANGED <<testVars, mainVars, countVars, closing, aborted>>
        /\ status[i] = "running" /\ stage[Nth(Pooled, i)] = "ended"
        /\ \E r \in {"value", "exception"} : status' = [status EXCEPT ![i] = r]
        /\ status'[i] = "value" => result[Nth(Pooled, i)] # "threw"
    BY <1>3 DEF FinishTask, Pool!Finish
  <2>2. RunnerTypeOK'
    BY <2>1 DEF Inv, RunnerTypeOK, mainVars, countVars, Pool!Status, Pool!Settled
  <2>3. ValueInv'
    BY <2>1 DEF Inv, RunnerTypeOK, ValueInv, testVars
  <2>4. main \notin {"linear", "exit"}
    BY <2>1 DEF Inv, MainInv
  <2>5. MainInv'
    BY <2>1, <2>4 DEF Inv, MainInv, mainVars, countVars
  <2> QED
    BY <2>1, <2>2, <2>3, <2>5, QuietInv DEF mainVars
<1>4. ASSUME NEW i \in Task, PushTest(i) PROVE Inv'
  <2>1. /\ UNCHANGED <<testVars, mainVars, countVars, closing, aborted>>
        /\ main = "push" /\ status' = [status EXCEPT ![i] = "queued"]
    BY <1>4 DEF PushTest, Pool!Submit
  <2>2. RunnerTypeOK'
    BY <2>1 DEF Inv, RunnerTypeOK, mainVars, countVars, Pool!Status
  <2>3. ValueInv'
    BY <2>1 DEF Inv, RunnerTypeOK, ValueInv, testVars
  <2>4. MainInv'
    BY <2>1 DEF Inv, MainInv, mainVars, countVars
  <2> QED
    BY <2>1, <2>2, <2>3, <2>4, QuietInv DEF mainVars
<1>5. ASSUME PushedAll PROVE Inv'
  <2>1. UNCHANGED <<runLinear, next, testVars, countVars, status, closing, aborted>>
        /\ main = "push" /\ main' = "get"
    BY <1>5 DEF PushedAll, poolVars
  <2>2. RunnerTypeOK' /\ ValueInv'
    BY <2>1 DEF Inv, RunnerTypeOK, ValueInv, countVars, testVars
  <2>3. MainInv'
    BY <2>1, <1>a DEF Inv, MainInv, countVars
  <2> QED
    BY <2>1, <2>2, <2>3, QuietInv
<1>6. ASSUME GetResult PROVE Inv'
  <2>1. /\ UNCHANGED <<runLinear, main, status, closing, aborted>>
        /\ main = "get" /\ next \in Task /\ status[next] = "value"
        /\ Report(Nth(Pooled, next)) /\ next' = next + 1
    BY <1>6 DEF GetResult, poolVars
  <2>2. ~runLinear /\ Len(reports) = next - 1
    BY <2>1 DEF Inv, MainInv
  <2>3. First = NumTasks /\ Nth(Pooled, next) = Place(next) /\ next <= NumTests
    BY <2>1, <2>2, <1>a DEF First, Place
  <2>4. Nth(Pooled, next) \in Tests /\ Len(reports) < NumTests
        /\ Nth(Pooled, next) = Place(Len(reports) + 1)
    BY <2>1, <2>2, <2>3, <1>b, NumTestsAssumption
  <2>5. stage[Nth(Pooled, next)] = "ended" /\ result[Nth(Pooled, next)] # "threw"
    BY <2>1 DEF Inv, ValueInv
  <2>6. /\ TestInv' /\ ReportInv' /\ CountInv'
        /\ reports' \in Seq(Tests) /\ Len(reports') = Len(reports) + 1
        /\ failed' \in Nat /\ skipped' \in Nat /\ saved' \in Nat /\ code' = code
        /\ stage' = stage /\ result' = result
    BY <2>1, <2>4, <2>5, ReportNext
  <2>7. RunnerTypeOK' /\ ValueInv'
    BY <2>1, <2>6 DEF Inv, RunnerTypeOK, ValueInv
  <2>8. MainInv'
    BY <2>1, <2>2, <2>6, <1>a DEF Inv, MainInv
  <2> QED
    BY <2>6, <2>7, <2>8 DEF Inv
<1>7. ASSUME GetThrows PROVE Inv'
  <2>1. /\ UNCHANGED <<runLinear, next, testVars, countVars, status>>
        /\ main = "get" /\ main' \in {"terminated", "unwind"}
    BY <1>7 DEF GetThrows, Pool!Abort, Pool!Close
  <2>a. closing' \in BOOLEAN /\ aborted' \in BOOLEAN
    BY <1>7, Zenon DEF GetThrows, Pool!Abort, Pool!Close, Inv, RunnerTypeOK
  <2>b. RunnerTypeOK'
    BY <2>1, <2>a DEF Inv, RunnerTypeOK, countVars
  <2>2. ValueInv'
    BY <2>1 DEF Inv, ValueInv, testVars
  <2>3. MainInv'
    BY <2>1 DEF Inv, MainInv, countVars
  <2> QED
    BY <2>1, <2>b, <2>2, <2>3, QuietInv
<1>8. ASSUME GotAll PROVE Inv'
  <2>1. /\ UNCHANGED <<runLinear, next, testVars, countVars, status, aborted>>
        /\ main = "get" /\ main' = "close" /\ next \notin Task /\ closing' = TRUE
    BY <1>8 DEF GotAll, Pool!Close
  <2>2. RunnerTypeOK' /\ ValueInv'
    BY <2>1 DEF Inv, RunnerTypeOK, ValueInv, countVars, testVars
  <2>3. MainInv'
    BY <2>1, <1>a DEF Inv, RunnerTypeOK, MainInv, countVars
  <2> QED
    BY <2>1, <2>2, <2>3, QuietInv
<1>9. ASSUME DropTasks PROVE Inv'
  <2>1. PICK dropped \in SUBSET Pool!Having("queued") :
          /\ dropped # {}
          /\ status' = [j \in Task |-> IF j \in dropped THEN "dropped" ELSE status[j]]
          /\ UNCHANGED <<testVars, mainVars, countVars, closing, aborted>>
    BY <1>9 DEF DropTasks, Pool!Drop
  <2>2. RunnerTypeOK'
    BY <2>1 DEF Inv, RunnerTypeOK, mainVars, countVars, Pool!Status, Pool!Settled
  <2>3. ValueInv'
    BY <2>1 DEF Inv, RunnerTypeOK, ValueInv, testVars
  <2>4. main \notin {"linear", "exit"}
    BY <2>1 DEF Inv, MainInv, Pool!Having
  <2>5. MainInv'
    BY <2>1, <2>4 DEF Inv, MainInv, mainVars, countVars
  <2> QED
    BY <2>1, <2>2, <2>3, <2>5, QuietInv DEF mainVars
<1>10. ASSUME PoolClosed PROVE Inv'
  <2>1. /\ UNCHANGED <<runLinear, testVars, countVars, status, closing>>
        /\ \A i \in Task : status[i] \notin {"queued", "running"}
        /\ \/ main = "close" /\ main' = "linear" /\ next' = 1
           \/ main = "unwind" /\ main' = "terminated" /\ UNCHANGED next
    BY <1>10 DEF PoolClosed, Pool!Having
  <2>a. aborted' \in BOOLEAN
    BY <1>10, Zenon DEF PoolClosed, Inv, RunnerTypeOK
  <2>b. RunnerTypeOK'
    BY <2>1, <2>a DEF Inv, RunnerTypeOK, countVars
  <2>2. ValueInv'
    BY <2>1 DEF Inv, ValueInv, testVars
  <2>3. main = "close" => First = NumTasks
    BY DEF Inv, MainInv, First
  <2>4. First' = First /\ OneByOne' = OneByOne
    BY <2>1 DEF First, OneByOne
  <2>5. MainInv'
    BY <2>1, <2>3, <2>4, <1>a DEF Inv, MainInv, countVars
  <2> QED
    BY <2>1, <2>b, <2>2, <2>5, QuietInv
<1>11. ASSUME LinearStep PROVE Inv'
  <2>1. /\ UNCHANGED <<mainVars, countVars, status, closing, aborted>>
        /\ main = "linear" /\ next <= Cardinality(OneByOne)
        /\ LET t == Nth(OneByOne, next) IN Begin(t) \/ TestStep(t)
    BY <1>11 DEF LinearStep, poolVars
  <2>2. Nth(OneByOne, next) \in Tests
    BY <2>1, <1>a, <1>c, NthCounts DEF Inv, RunnerTypeOK
  <2> QED
    BY <2>1, <2>2, MoveInv DEF Inv, RunnerTypeOK
<1>12. ASSUME LinearReport PROVE Inv'
  <2> DEFINE t == Nth(OneByOne, next)
  <2>1. /\ UNCHANGED <<runLinear, status, closing, aborted>>
        /\ main = "linear" /\ next <= Cardinality(OneByOne) /\ stage[t] = "ended"
    BY <1>12 DEF LinearReport, poolVars
  <2>2. CASE result[t] = "threw"
    <3>1. main' = "terminated" /\ UNCHANGED <<next, testVars, countVars>>
      BY <1>12, <2>2 DEF LinearReport
    <3>2. RunnerTypeOK' /\ ValueInv'
      BY <2>1, <3>1 DEF Inv, RunnerTypeOK, ValueInv, countVars, testVars
    <3>3. MainInv'
      BY <2>1, <3>1 DEF Inv, MainInv, countVars
    <3> QED
      BY <2>1, <3>1, <3>2, <3>3, QuietInv
  <2>3. CASE result[t] # "threw"
    <3>1. Report(t) /\ next' = next + 1 /\ main' = main
      BY <1>12, <2>3 DEF LinearReport
    <3>2. /\ t \in Tests /\ Len(reports) < NumTests /\ t = Place(Len(reports) + 1)
          /\ Len(reports) = First + next - 1
      <4>1. Len(reports) = First + next - 1 /\ next \in Nat \ {0}
        BY <2>1 DEF Inv, MainInv, RunnerTypeOK
      <4>2. t \in Tests
        BY <2>1, <4>1, <1>a, <1>c, NthCounts
      <4>3. ~(First + next <= First) /\ (First + next) - First = next
            /\ Len(reports) + 1 = First + next /\ First + next <= NumTests
        BY <4>1, <2>1, <1>a, NumTestsAssumption
      <4> QED
        BY <4>1, <4>2, <4>3, NumTestsAssumption DEF Place
    <3>3. /\ TestInv' /\ ReportInv' /\ CountInv'
          /\ reports' \in Seq(Tests) /\ Len(reports') = Len(reports) + 1
          /\ failed' \in Nat /\ skipped' \in Nat /\ saved' \in Nat /\ code' = code
          /\ stage' = stage /\ result' = result
      BY <2>1, <2>3, <3>1, <3>2, ReportNext
    <3>4. RunnerTypeOK' /\ ValueInv'
      BY <2>1, <3>1, <3>3 DEF Inv, RunnerTypeOK, ValueInv
    <3>5. First' = First /\ OneByOne' = OneByOne
      BY <2>1 DEF First, OneByOne
    <3>6. MainInv'
      BY <2>1, <3>1, <3>2, <3>3, <3>5, <1>a DEF Inv, RunnerTypeOK, MainInv
    <3> QED
      BY <3>3, <3>4, <3>6 DEF Inv
  <2> QED
    BY <2>2, <2>3
<1>13. ASSUME Summary PROVE Inv'
  <2>1. /\ UNCHANGED <<runLinear, next, testVars, status, closing, aborted,
                       reports, failed, skipped, saved>>
        /\ main = "linear" /\ next > Cardinality(OneByOne) /\ main' = "exit"
        /\ code' = IF failed = 0 THEN 0 ELSE 1
    BY <1>13 DEF Summary, poolVars
  <2>2. RunnerTypeOK' /\ ValueInv'
    BY <2>1 DEF Inv, RunnerTypeOK, ValueInv, testVars
  <2>3. MainInv'
    BY <2>1, <1>a, NumTestsAssumption DEF Inv, RunnerTypeOK, MainInv
  <2>4. TestInv'
    BY <2>1, QuietTestInv DEF Inv
  <2>5. ReportInv' /\ CountInv'
    BY <2>1, ReportsKept DEF testVars
  <2> QED
    BY <2>2, <2>3, <2>4, <2>5 DEF Inv
<1>14. ASSUME UNCHANGED vars PROVE Inv'
  <2>1. UNCHANGED <<testVars, mainVars, countVars, status, closing, aborted>>
    BY <1>14 DEF vars, poolVars
  <2>2. RunnerTypeOK' /\ ValueInv'
    BY <2>1 DEF Inv, RunnerTypeOK, ValueInv, testVars, mainVars, countVars
  <2>3. MainInv'
    BY <2>1 DEF Inv, MainInv, mainVars, countVars, First, OneByOne
  <2> QED
    BY <2>1, <2>2, <2>3, QuietInv DEF mainVars
<1> QED
  BY <1>1, <1>2, <1>3, <1>4, <1>5, <1>6, <1>7, <1>8, <1>9, <1>10, <1>11, <1>12, <1>13, <1>14
     DEF Next, Main, PoolThread

-----------------------------------------------------------------------------
(* Theorems *)

\* The invariant holds in every state tool() can reach.
THEOREM Invariance == Spec => []Inv
<1>1. Init => Inv
  <2> SUFFICES ASSUME Init PROVE Inv
    OBVIOUS
  <2>1. TestInv
    BY ExpectedAssumption, PostsAssumption
       DEF Init, TestInit, TestInv, TestTypeOK, EndInv, CodesInv, FileInv, HomeInv, Stages,
           Results, Dirs, DirStates
  <2>2. /\ reports = <<>> /\ next = 1 /\ failed = 0 /\ skipped = 0 /\ saved = 0 /\ code = 0
        /\ status = [i \in Task |-> "new"]
    BY DEF Init, Pool!PoolInit, Pool!Task, Task
  <2>3. runLinear \in BOOLEAN /\ main \in {"push", "linear"} /\ (main = "push" => ~runLinear)
    BY Zenon DEF Init
  <2>4. RunnerTypeOK
    <3>1. status \in [Task -> Pool!Status]
      BY <2>2 DEF Pool!Status, Pool!Settled
    <3>2. closing \in BOOLEAN /\ aborted \in BOOLEAN
      BY Zenon DEF Init, Pool!PoolInit
    <3>3. main \in {"push", "get", "close", "unwind", "linear", "exit", "terminated"}
      BY <2>3
    <3>4. reports \in Seq(Tests)
      BY <2>2
    <3>5. next \in Nat \ {0} /\ failed \in Nat /\ skipped \in Nat /\ saved \in Nat /\ code \in {0, 1}
      BY <2>2
    <3> QED
      BY <2>3, <3>1, <3>2, <3>3, <3>4, <3>5, Zenon DEF RunnerTypeOK
  <2>5. ValueInv /\ ReportInv
    BY <2>2 DEF ValueInv, ReportInv
  <2>6. MainInv
    <3>1. main = "linear" => First = 0
      BY Zenon DEF Init, First
    <3>2. Cardinality(OneByOne) \in Nat
      BY <2>3, Places
    <3> QED
      BY <2>2, <2>3, <3>1, <3>2 DEF MainInv
  <2>7. CountInv
    <3>1. Having("FAILED") = {} /\ Having("SAVED") = {} /\ Having("SKIPPED") = {}
      BY <2>2 DEF Having, Reported
    <3>2. /\ Cardinality(Having("FAILED")) = 0 /\ Cardinality(Having("SAVED")) = 0
          /\ Cardinality(Having("SKIPPED")) = 0
      BY <3>1, FS_EmptySet, Zenon
    <3>3. failed = 0 /\ skipped = 0 + 0 /\ saved = 0
      BY <2>2
    <3> QED
      BY <3>2, <3>3, Zenon DEF CountInv
  <2> QED
    BY <2>1, <2>4, <2>5, <2>6, <2>7 DEF Inv
<1> QED
  BY <1>1, NextInv, PTL DEF Spec

\* The outcomes share the reported tests out among them.
LEMMA OutcomesCount ==
  ASSUME Inv
  PROVE  /\ Reported \in SUBSET Tests /\ IsFiniteSet(Tests) /\ Cardinality(Tests) = NumTests
         /\ IsFiniteSet(Reported) /\ Cardinality(Reported) <= NumTests
         /\ Cardinality(Having("OK")) \in Nat
         /\ Cardinality(Reported) = failed + skipped + Cardinality(Having("OK"))
\* Two finite sets that have nothing in common count for both.
<1>d. ASSUME NEW S, NEW T, IsFiniteSet(S), IsFiniteSet(T), S \cap T = {}
      PROVE  IsFiniteSet(S \cup T) /\ Cardinality(S \cup T) = Cardinality(S) + Cardinality(T)
  <2>1. Cardinality(S \cap T) = 0
    BY <1>d, FS_EmptySet
  <2>2. Cardinality(S) \in Nat /\ Cardinality(T) \in Nat
    BY <1>d, FS_CardinalityType
  <2>3. /\ IsFiniteSet(S \cup T)
        /\ Cardinality(S \cup T) = Cardinality(S) + Cardinality(T) - Cardinality(S \cap T)
    BY <1>d, FS_Union
  <2> QED
    BY <2>1, <2>2, <2>3
<1> DEFINE F == Having("FAILED")
           K == Having("SKIPPED")
           V == Having("SAVED")
           O == Having("OK")
<1>1. Reported \in SUBSET Tests
  BY DEF Reported, Inv, RunnerTypeOK
<1>2. IsFiniteSet(Tests) /\ Cardinality(Tests) = NumTests
  BY FS_Interval, NumTestsAssumption DEF Tests
<1>3. IsFiniteSet(Reported) /\ Cardinality(Reported) <= NumTests
  BY <1>1, <1>2, FS_Subset
<1>4. \A t \in Reported : result[t] \in {"FAILED", "SKIPPED", "SAVED", "OK"}
  BY <1>1 DEF Reported, Inv, ReportInv, TestInv, EndInv, TestTypeOK, Results
<1>5. /\ Reported = ((F \cup K) \cup V) \cup O
      /\ F \cap K = {} /\ (F \cup K) \cap V = {} /\ ((F \cup K) \cup V) \cap O = {}
  BY <1>4 DEF Having
<1>6. /\ IsFiniteSet(F) /\ IsFiniteSet(K) /\ IsFiniteSet(V) /\ IsFiniteSet(O)
      /\ Cardinality(F) \in Nat /\ Cardinality(K) \in Nat
      /\ Cardinality(V) \in Nat /\ Cardinality(O) \in Nat
  BY HavingFinite DEF Inv, RunnerTypeOK
<1>7. failed = Cardinality(F) /\ skipped = Cardinality(K) + Cardinality(V)
  BY DEF Inv, CountInv
<1> HIDE DEF F, K, V, O
<1>8. IsFiniteSet(F \cup K) /\ Cardinality(F \cup K) = Cardinality(F) + Cardinality(K)
  BY <1>5, <1>6, <1>d
<1>9. /\ IsFiniteSet((F \cup K) \cup V)
      /\ Cardinality((F \cup K) \cup V) = Cardinality(F) + Cardinality(K) + Cardinality(V)
  BY <1>5, <1>6, <1>8, <1>d
<1>10. Cardinality(Reported) = Cardinality(F) + Cardinality(K) + Cardinality(V) + Cardinality(O)
  BY <1>5, <1>6, <1>9, <1>d
<1> QED
  BY <1>1, <1>2, <1>3, <1>6, <1>7, <1>10 DEF O

\* Every variable keeps its type, and the counters count no test twice.
THEOREM TypeCorrect == Spec => []TypeOK
<1>1. Inv => TypeOK
  <2> SUFFICES ASSUME Inv PROVE TypeOK
    OBVIOUS
  <2>1. failed + skipped <= NumTests
    BY OutcomesCount, NumTestsAssumption DEF Inv, RunnerTypeOK
  <2>2. saved <= skipped
    BY HavingFinite DEF Inv, RunnerTypeOK, CountInv
  <2>3. \A t \in Tests : Len(codes[t]) <= 1 + Posts[t]
    BY DEF Inv, TestInv, CodesInv
  <2> QED
    BY <2>1, <2>2, <2>3 DEF Inv, TestInv, TestTypeOK, RunnerTypeOK, TypeOK
<1> QED
  BY <1>1, Invariance, PTL

\* What the summary says of the tests is so, and the exit code agrees with it.
THEOREM SummaryIsHonest == Spec => []HonestSummary
<1>1. Inv => HonestSummary
  <2> SUFFICES ASSUME Inv, main = "exit" PROVE HonestSummary
    BY DEF HonestSummary
  <2>1. Reported = Tests
    <3>1. ASSUME NEW t \in Tests PROVE t \in Reported
      <4>1. PICK i \in 1 .. NumTests : Place(i) = t
        BY Places DEF Inv, RunnerTypeOK
      <4>2. i \in DOMAIN reports /\ reports[i] = t
        BY <4>1 DEF Inv, RunnerTypeOK, MainInv, ReportInv
      <4> QED
        BY <4>2 DEF Reported
    <3> QED
      BY <3>1, OutcomesCount
  <2>2. \A r : {t \in Tests : result[t] = r} = Having(r)
    BY <2>1 DEF Having
  <2>3. NumTests = failed + skipped + Cardinality(Having("OK"))
    BY <2>1, OutcomesCount
  <2>4. code = 0 <=> failed = 0
    BY DEF Inv, MainInv
  <2> QED
    BY <2>2, <2>3, <2>4 DEF HonestSummary, Inv, CountInv
<1> QED
  BY <1>1, Invariance, PTL

\* Reports come in one order, whatever the threads do, and the program exits only after
\* all of them.
THEOREM ReportsInOrder == Spec => []ReportOrder
<1>1. Inv => ReportOrder
  BY DEF Inv, MainInv, ReportInv, ReportOrder, Place, First
<1> QED
  BY <1>1, Invariance, PTL

\* The calls of a test failed with the last of its codes, if at all: no call is made after
\* one that failed.
LEMMA LastIsFirst ==
  ASSUME TestInv, NEW t \in Tests, codes[t] # <<>>
  PROVE  FirstFailure(codes[t]) = LastCode(t)
<1> DEFINE called == codes[t]
           n == Len(called)
<1>1. called \in Seq(Codes) /\ n \in Nat \ {0} /\ DOMAIN called = 1 .. n
  BY DEF TestInv, TestTypeOK
<1>2. \A i \in 1 .. n : i < n => called[i] = 0
  BY <1>1 DEF TestInv, CodesInv
<1> HIDE DEF called
<1>3. CASE called[n] = 0
  <2>1. \A i \in DOMAIN called : called[i] = 0
    BY <1>1, <1>2, <1>3
  <2> QED
    BY <1>3, <2>1 DEF FirstFailure, LastCode, called
<1>4. CASE called[n] # 0
  <2>1. ~\A i \in DOMAIN called : called[i] = 0
    BY <1>1, <1>4
  <2>2. n \in DOMAIN called /\ called[n] # 0 /\ \A j \in 1 .. n - 1 : called[j] = 0
    BY <1>1, <1>2, <1>4
  <2>3. ASSUME NEW i \in DOMAIN called, called[i] # 0 PROVE i = n
    BY <1>1, <1>2, <2>3
  <2>4. (CHOOSE i \in DOMAIN called :
           called[i] # 0 /\ \A j \in 1 .. i - 1 : called[j] = 0) = n
    BY <2>2, <2>3
  <2> QED
    BY <2>1, <2>4 DEF FirstFailure, LastCode, called
<1> QED
  BY <1>3, <1>4

\* The code that decides the verdict of a test, and that is saved for one without
\* "expected", is that of the first of its calls that failed, whatever ran after it.
THEOREM VerdictOnFirstFailure == Spec => []FirstFailureWins
<1>1. Inv => FirstFailureWins
  <2> SUFFICES ASSUME Inv, NEW t \in Tests
               PROVE  /\ result[t] = "OK" => /\ codes[t] # <<>>
                                            /\ Expected[t] = FirstFailure(codes[t])
                      /\ t \notin Filled /\ file[t] \in Codes =>
                           file[t] = FirstFailure(codes[t])
    BY DEF FirstFailureWins
  <2>1. result[t] \in {"OK", "SAVED"} =>
          codes[t] # <<>> /\ FirstFailure(codes[t]) = LastCode(t)
    BY LastIsFirst DEF Inv, TestInv, CodesInv
  <2>2. result[t] = "OK" => Expected[t] = LastCode(t)
    BY DEF Inv, TestInv, FileInv
  <2>3. ASSUME t \notin Filled, file[t] \in Codes
        PROVE  result[t] = "SAVED" /\ file[t] = LastCode(t)
    <3>1. Expected[t] = Unset /\ file[t] # Unset /\ file[t] # Cut
      BY <2>3, UnsetAssumption DEF Filled
    <3> QED
      BY <3>1 DEF Inv, TestInv, FileInv
  <2> QED
    BY <2>1, <2>2, <2>3
<1> QED
  BY <1>1, Invariance, PTL

\* The file of a test is written only by a run of it that was saved, after all its calls.
THEOREM OnlyFullRuns == Spec => []OnlyFullRunsAreSaved
<1>1. Inv => OnlyFullRunsAreSaved
  BY DEF Inv, TestInv, CodesInv, FileInv, OnlyFullRunsAreSaved
<1> QED
  BY <1>1, Invariance, PTL

\* A test that is not linear is called where it started or in its own directory, with any
\* number of linear tests and with the pool or without.
THEOREM CalledAtHome == Spec => []StaysHome
<1>1. Inv => StaysHome
  BY DEF Inv, TestInv, HomeInv, StaysHome
<1> QED
  BY <1>1, Invariance, PTL

\* The directory of a test is never taken from under it, whichever thread it runs on, and
\* by the exit each has met remove_all, whose failures are the only directories left.
THEOREM DirectoriesLive == Spec => []DirectoryLifetime
<1>1. Inv => DirectoryLifetime
  <2> SUFFICES ASSUME Inv PROVE DirectoryLifetime
    OBVIOUS
  <2>1. \A t \in Tests : Running(t) => tempDir[t] \in {"none", "made"}
    BY DEF Inv, TestInv, TestTypeOK, DirStates, EndInv, Running
  <2>2. ASSUME main = "exit", ~KeepDirs, NEW t \in Tests PROVE tempDir[t] # "made"
    <3>1. PICK i \in 1 .. NumTests : Place(i) = t
      BY Places DEF Inv, RunnerTypeOK
    <3>2. i \in DOMAIN reports
      BY <2>2 DEF Inv, RunnerTypeOK, MainInv
    <3> QED
      BY <2>2, <3>1, <3>2 DEF Inv, ReportInv
  <2> QED
    BY <2>1, <2>2 DEF DirectoryLifetime
<1> QED
  BY <1>1, Invariance, PTL

\* While a thread of the pool runs a test, the directory of the process stays: only a
\* linear test changes it, and it runs after the pool is gone.
THEOREM CwdStable == Spec => CwdStableInPool
<1>1. Inv /\ [Next]_vars => [cwd' # cwd => \A i \in Task : status[i] # "running"]_vars
  <2> SUFFICES ASSUME Inv, Next, cwd' # cwd PROVE \A i \in Task : status[i] # "running"
    OBVIOUS
  <2>1. \A i \in Task : Nth(Pooled, i) \in Tests \ Linear
    BY NthCounts DEF Task, NumTasks, Pooled
  <2>2. ASSUME NEW i \in Task, PoolThread(i) PROVE FALSE
    <3>1. CASE TaskStep(i)
      BY <2>1, <3>1, StepOfOne DEF TaskStep, Inv, TestInv
    <3>2. CASE StartTask(i) \/ FinishTask(i)
      BY <3>2 DEF StartTask, FinishTask, testVars
    <3> QED
      BY <2>2, <3>1, <3>2 DEF PoolThread
  <2>3. CASE Main
    <3>1. CASE LinearStep
      BY <3>1 DEF LinearStep, Inv, MainInv
    <3>2. CASE GetResult \/ LinearReport
      BY <3>2 DEF GetResult, LinearReport, Report, testVars
    <3>3. ASSUME NEW i \in Task, PushTest(i) PROVE FALSE
      BY <3>3 DEF PushTest, testVars
    <3>4. CASE PushedAll \/ GetThrows \/ GotAll \/ DropTasks \/ PoolClosed \/ Summary
      BY <3>4 DEF PushedAll, GetThrows, GotAll, DropTasks, PoolClosed, Summary, testVars
    <3> QED
      BY <2>3, <3>1, <3>2, <3>3, <3>4 DEF Main
  <2> QED
    BY <2>2, <2>3 DEF Next
<1> QED
  BY <1>1, Invariance, PTL DEF Spec, CwdStableInPool
=============================================================================
