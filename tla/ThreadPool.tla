------------------------------ MODULE ThreadPool ------------------------------
(***************************************************************************)
(* mt::thread_pool (src/mt/thread_pool.cc) on its mt_queue, together with  *)
(* the thread that owns it: the parallel phase of tool() (src/main.cc),    *)
(* which pushes one packaged_task for each parallel test, reads the        *)
(* futures in the same order and leaves the scope of the pool.             *)
(*                                                                         *)
(* "owner" says where that thread is:                                      *)
(*   "spawn"  thread_pool::thread_pool        "stop"  ~thread_pool, and    *)
(*   "push"   the loop over tests             "wake"  tasks_.wake()        *)
(*   "get"    the loop over results           "join"  ~jthread             *)
(*   "done"   the pool is gone                                             *)
(*   "terminated"  std::terminate: future.get() threw and nobody catches   *)
(***************************************************************************)
EXTENDS MtQueue, FiniteSets

VARIABLES
  owner,    \* where the owner of the pool is
  next,     \* the future it reads next; the ones before are reported
  outcome   \* the shared state of each future

vars == <<queueVars, owner, next, outcome>>

Outcomes == {"none", "value", "exception", "broken"}

\* Where a thread of the pool can be.
Labels == Critical \cup {"unborn", "loop", "lock", "parked", "call", "drop", "run", "exit"}

\* std::terminate ends every thread of the process.
Alive == owner # "terminated"

Init ==
  /\ QueueInit
  /\ stop = {}
  /\ pc = [w \in Workers |-> "unborn"]
  /\ hand = [w \in Workers |-> NoTask]
  /\ owner = "spawn"
  /\ next = 1
  /\ outcome = [t \in Tasks |-> "none"]

-----------------------------------------------------------------------------
(* thread_proc, one thread of the pool *)

\* while (!tok.stop_requested())
Loop(w) ==
  /\ Alive
  /\ pc[w] = "loop"
  /\ Goto(w, IF w \in stop THEN "exit" ELSE "lock")
  /\ UNCHANGED <<m, items, total, popped, waiting, stop, hand, owner, next, outcome>>

\* The consumer's side of wait_and_pop.
Fetch(w) ==
  /\ Alive
  /\ \/ Lock(w) \/ Test(w) \/ Park(w) \/ Relock(w)
     \/ Take(w) \/ Return(w) \/ Unlock(w)
  /\ UNCHANGED <<owner, next, outcome>>

\* The packaged_task that a stopped thread popped is destroyed without having been
\* called, and with it its promise.
Broken(h) == IF h = NoTask THEN outcome ELSE [outcome EXCEPT ![h] = "broken"]

\* wait_and_pop returned false: "task" goes out of scope, and the loop looks at the
\* token again.
Discard(w) ==
  /\ Alive
  /\ pc[w] = "drop"
  /\ Goto(w, "loop")
  /\ hand' = [hand EXCEPT ![w] = NoTask]
  /\ outcome' = Broken(hand[w])
  /\ UNCHANGED <<m, items, total, popped, waiting, stop, owner, next>>

\* wait_and_pop returned true: task() is called, and nobody looks at the token again.
Call(w) ==
  /\ Alive
  /\ pc[w] = "call"
  /\ Goto(w, "run")
  /\ UNCHANGED <<m, items, total, popped, waiting, stop, hand, owner, next, outcome>>

\* task(): run_test returns a result, or throws into the future.  Calling a
\* packaged_task without a state would throw out of the thread, and there is no
\* step for that: NeverCallsEmptyTask says it cannot come to that.
Run(w) ==
  /\ Alive
  /\ pc[w] = "run"
  /\ hand[w] # NoTask
  /\ \E r \in {"value", "exception"} : outcome' = [outcome EXCEPT ![hand[w]] = r]
  /\ hand' = [hand EXCEPT ![w] = NoTask]
  /\ Goto(w, "loop")
  /\ UNCHANGED <<m, items, total, popped, waiting, stop, owner, next>>

\* Nobody notified, the condition variable returned.
Spurious(w) == Alive /\ SpuriousWakeup(w) /\ UNCHANGED <<owner, next, outcome>>

-----------------------------------------------------------------------------
(* The owner *)

\* threads_.push_back(std::jthread{thread_proc, ...})
SpawnThread(w) ==
  /\ owner = "spawn"
  /\ pc[w] = "unborn" /\ \A v \in Workers : v < w => pc[v] # "unborn"
  /\ Goto(w, "loop")
  /\ owner' = IF w = PoolSize THEN "push" ELSE "spawn"
  /\ UNCHANGED <<m, items, total, popped, waiting, stop, hand, next, outcome>>

\* results.emplace_back(task.get_future()); pool.push(std::move(task));
Push ==
  /\ owner = "push"
  /\ total < NumTasks
  /\ PushElement
  /\ UNCHANGED <<owner, next, outcome>>

PushedAll ==
  /\ owner = "push"
  /\ total = NumTasks
  /\ owner' = "get"
  /\ UNCHANGED <<queueVars, next, outcome>>

\* future.get() returned: report the result, remove its directory.
Get ==
  /\ owner = "get"
  /\ next <= NumTasks
  /\ outcome[next] = "value"
  /\ next' = next + 1
  /\ UNCHANGED <<queueVars, owner, outcome>>

\* future.get() threw.  Nothing catches it, so std::terminate is called; it is
\* implementation-defined whether the stack is unwound (through ~thread_pool).
GetThrows ==
  /\ owner = "get"
  /\ next <= NumTasks
  /\ outcome[next] \in {"exception", "broken"}
  /\ owner' \in {"stop", "terminated"}
  /\ UNCHANGED <<queueVars, next, outcome>>

GotAlmostAll ==  \* mutant: the last future is not waited for
  /\ owner = "get"
  /\ next >= NumTasks
  /\ owner' = "stop"
  /\ UNCHANGED <<queueVars, next, outcome>>

\* The end of the scope of the pool.
GotAll ==
  /\ owner = "get"
  /\ next > NumTasks
  /\ owner' = "stop"
  /\ UNCHANGED <<queueVars, next, outcome>>

\* for (auto& thread : threads_) thread.request_stop();
RequestStop(w) ==
  /\ owner = "stop"
  /\ w \notin stop /\ \A v \in Workers : v < w => v \in stop
  /\ stop' = stop \cup {w}
  /\ owner' = IF w = PoolSize THEN "wake" ELSE "stop"
  /\ UNCHANGED <<m, items, total, popped, waiting, pc, hand, next, outcome>>

\* tasks_.wake();
Wake ==
  /\ owner = "wake"
  /\ NotifyAll
  /\ owner' = "join"
  /\ UNCHANGED <<next, outcome>>

\* ~vector<jthread> joins every thread; then ~mt_queue destroys the tasks that
\* are still queued, which breaks their promises.
Join ==
  /\ owner = "join"
  /\ \A w \in Workers : pc[w] = "exit"
  /\ owner' = "done"
  /\ items' = <<>>
  /\ outcome' = [t \in Tasks |->
                   IF \E i \in DOMAIN items : items[i] = t THEN "broken" ELSE outcome[t]]
  /\ UNCHANGED <<m, total, popped, waiting, stop, pc, hand, next>>

-----------------------------------------------------------------------------

Worker(w) == Loop(w) \/ Fetch(w) \/ Discard(w) \/ Call(w) \/ Run(w)

Owner ==
  \/ \E w \in Workers : SpawnThread(w) \/ RequestStop(w)
  \/ Push \/ PushedAll \/ Get \/ GetThrows \/ GotAll \/ Wake \/ Join

Next == Owner \/ \E w \in Workers : Worker(w) \/ Spurious(w)

\* The scheduler runs every thread that can run, and a thread that asks for a
\* mutex released again and again gets it at last (strong fairness: a thread
\* that keeps waking for no reason locks the mutex again and again).  A test
\* that has been started ends.  Nothing makes a spurious wakeup happen.
Fairness ==
  /\ SF_vars(Owner)
  /\ \A w \in Workers : SF_vars(Worker(w))

Spec == Init /\ [][Next]_vars
FairSpec == Spec /\ Fairness

-----------------------------------------------------------------------------
(* Properties *)

\* Types of the variables, the capacity of the counters included.
TypeOK ==
  /\ m \in Workers \cup {NoThread}
  /\ items \in Seq(Tasks)
  /\ total \in 0 .. NumTasks
  /\ popped \in 0 .. NumTasks
  /\ waiting \subseteq Workers
  /\ stop \subseteq Workers
  /\ pc \in [Workers -> Labels]
  /\ hand \in [Workers -> Tasks \cup {NoTask}]
  /\ owner \in {"spawn", "push", "get", "stop", "wake", "join", "done", "terminated"}
  /\ next \in 1 .. NumTasks + 1
  /\ outcome \in [Tasks -> Outcomes]

\* The queue hands its elements out in the order they were pushed: whatever the
\* threads do, items_ holds exactly the elements popped_ + 1 .. total_, in order,
\* until the pool is gone.
InOrder ==
  owner # "done" =>
    /\ Len(items) = total - popped
    /\ \A i \in DOMAIN items : items[i] = popped + i

\* No task is lost or done twice.  A task that was popped is either in the hand
\* of exactly one thread or its future is settled, never both; one still in the
\* queue or not pushed yet is in nobody's hand and has no outcome.
TaskAccounting ==
  /\ \A v, w \in Workers : hand[v] = hand[w] /\ hand[v] # NoTask => v = w
  /\ \A w \in Workers :
       hand[w] # NoTask => hand[w] <= popped /\ outcome[hand[w]] = "none"
  /\ \A t \in Tasks :
       /\ t <= popped => outcome[t] # "none" \/ \E w \in Workers : hand[w] = t
       /\ t > popped /\ owner # "done" => outcome[t] = "none"

\* thread_proc never calls a packaged_task that holds nothing: wait_and_pop
\* returns true only with a task, although it looks at the queue once and at the
\* stop token twice, and either may change between the looks.
NeverCallsEmptyTask == \A w \in Workers : pc[w] \in {"call", "run"} => hand[w] # NoTask

\* While the pool is in use no queued task is slept through: if a thread is
\* blocked in cv_, there are at least as many threads awake and on their way to
\* the queue as there are tasks in it.
NoTaskSleptThrough ==
  LET coming == {w \in Workers : /\ w \notin waiting
                                 /\ pc[w] \in {"loop", "lock", "test", "parked", "take"}}
  IN  stop = {} /\ waiting # {} => Len(items) <= Cardinality(coming)

\* A test is dropped without a result only when another test threw: closing the
\* pool after all futures were read drops nothing.
NothingDroppedSilently ==
  (\E t \in Tasks : outcome[t] = "broken") => \E t \in Tasks : outcome[t] = "exception"

\* The loop over the futures ends: every test that was pushed is reported, or
\* an exception ends the run.
EveryTestReported == (owner = "push") ~> (owner \in {"stop", "terminated"})

\* ~thread_pool returns: the threads that block in wait_and_pop see the stop
\* that was requested before tasks_.wake().
DestructorReturns == (owner = "stop") ~> (owner = "done")

\* Only a missed wake() keeps ~thread_pool from returning: once it joins and no thread
\* is blocked or about to be, whatever each of them is doing ends, and the loop around
\* it, and the destructor returns.
OnlyAMissedWakeHangs ==
  (owner = "join" /\ waiting = {} /\ \A w \in Workers : pc[w] # "block") ~> (owner = "done")

\* What TaskPool sees of a task: the second look at the token decides, under the mutex,
\* whether the thread that popped it will call it or destroy it.  Before that it is
\* still queued.
Calls == {"true", "call", "run"}
Drops == {"false", "drop"}
InHand(t, labels) == \E w \in Workers : hand[w] = t /\ pc[w] \in labels
TaskStatus ==
  [t \in Tasks |-> IF t > total THEN "new"
                   ELSE IF outcome[t] = "broken" THEN "dropped"
                   ELSE IF outcome[t] # "none" THEN outcome[t]
                   ELSE IF InHand(t, Calls) THEN "running"
                   ELSE IF InHand(t, Drops) THEN "dropped" ELSE "queued"]

\* The pool keeps the promises of TaskPool.
Abstract == INSTANCE TaskPool WITH
  status <- TaskStatus, closing <- stop # {}, aborted <- owner = "terminated"

ImplementsTaskPool == Abstract!PoolSpec
=============================================================================
