------------------------------- MODULE TaskPool -------------------------------
(***************************************************************************)
(* What the test runner needs of a thread pool (src/mt/thread_pool.hh):    *)
(* tasks are submitted one after the other, at most PoolSize run at once,  *)
(* they are given to threads in the order they were submitted ("running"   *)
(* is a task whose thread will call it), each runs at most once and        *)
(* settles its future with a value or an exception.  Once the pool is      *)
(* being closed, tasks that were not given out may be dropped, which       *)
(* breaks their promise; the process may also abort, and nothing moves.    *)
(***************************************************************************)
EXTENDS Naturals, FiniteSets

CONSTANTS PoolSize, NumTasks

VARIABLES status, closing, aborted

poolVars == <<status, closing, aborted>>

Task == 1 .. NumTasks
Settled == {"value", "exception", "dropped"}
Status == {"new", "queued", "running"} \cup Settled

Having(s) == {t \in Task : status[t] = s}

PoolInit ==
  /\ status = [t \in Task |-> "new"]
  /\ closing = FALSE
  /\ aborted = FALSE

\* Submitted in the order of the tests, and never to a pool that is closing.
Submit(t) ==
  /\ status[t] = "new" /\ \A u \in 1 .. t - 1 : status[u] # "new"
  /\ ~closing
  /\ status' = [status EXCEPT ![t] = "queued"]
  /\ UNCHANGED <<closing, aborted>>

\* A thread gets a task only when none submitted before it is still queued.
Start(t) ==
  /\ status[t] = "queued" /\ \A u \in 1 .. t - 1 : status[u] # "queued"
  /\ Cardinality(Having("running")) < PoolSize
  /\ status' = [status EXCEPT ![t] = "running"]
  /\ UNCHANGED <<closing, aborted>>

Finish(t) ==
  /\ status[t] = "running"
  /\ \E r \in {"value", "exception"} : status' = [status EXCEPT ![t] = r]
  /\ UNCHANGED <<closing, aborted>>

\* The pool closes when every future was read, or after one gave an exception.
Close ==
  /\ ~closing
  /\ Having("new") = {}
  /\ Having("value") = Task \/ Having("exception") # {}
  /\ closing' = TRUE
  /\ UNCHANGED <<status, aborted>>

Drop ==
  /\ closing
  /\ \E dropped \in SUBSET Having("queued") :
       /\ dropped # {}
       /\ status' = [t \in Task |-> IF t \in dropped THEN "dropped" ELSE status[t]]
  /\ UNCHANGED <<closing, aborted>>

Abort ==
  /\ Having("exception") # {} /\ Having("new") = {}
  /\ ~closing
  /\ aborted' = TRUE
  /\ UNCHANGED <<status, closing>>

PoolNext ==
  /\ ~aborted
  /\ \/ \E t \in Task : Submit(t) \/ Start(t) \/ Finish(t)
     \/ Close \/ Drop \/ Abort

\* Work that can be done gets done: a queued task starts or is dropped.
Progress == ~aborted /\ (Drop \/ \E t \in Task : Start(t) \/ Finish(t))

\* What a pool never does, and what it does at last.
PoolSafety == PoolInit /\ [][PoolNext]_poolVars
PoolSpec == PoolSafety /\ WF_poolVars(Progress)
=============================================================================
