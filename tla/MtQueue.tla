------------------------------- MODULE MtQueue -------------------------------
(***************************************************************************)
(* mt::mt_queue (src/mt/queue.hh): a std::queue guarded by one mutex, with *)
(* one condition variable on which the consumers block.                    *)
(*                                                                         *)
(* Every step of a consumer that another thread could observe is a step    *)
(* here.  In particular the predicate of cv_.wait is evaluated in one step *)
(* (Test) and the thread parks in a later one (Park), and the stop token   *)
(* is read once more (Return) before the mutex goes (Unlock): the mutex is *)
(* held in between, so a producer cannot get in, but wake() takes no mutex *)
(* and a stop can be requested at any time.                                *)
(*                                                                         *)
(* Elements are the tasks 1 .. NumTasks in the order the (only) producer   *)
(* pushes them.                                                            *)
(***************************************************************************)
EXTENDS Naturals, Sequences

CONSTANTS Concurrency,  \* what hardware_concurrency() returned; 0 if unknown
          NumTasks      \* number of elements the producer pushes

ASSUME ConcurrencyAssumption == Concurrency \in Nat
ASSUME NumTasksAssumption == NumTasks \in Nat

\* The constructor of the pool never makes a pool without threads.
PoolSize == IF Concurrency = 0 THEN 1 ELSE Concurrency

Workers == 1 .. PoolSize
Tasks == 1 .. NumTasks
NoThread == 0
NoTask == 0

VARIABLES
  m,        \* m_: the thread that holds the mutex
  items,    \* items_
  total,    \* total_
  popped,   \* popped_
  waiting,  \* cv_: the threads blocked in it and not yet notified
  stop,     \* the threads whose stop token says stop_requested()
  pc,       \* where each consumer is
  hand      \* the element a consumer took, "result" of wait_and_pop

queueVars == <<m, items, total, popped, waiting, stop, pc, hand>>

\* A consumer is inside the critical section of wait_and_pop.
Critical == {"test", "block", "take", "return", "true", "false"}

Goto(w, label) == pc' = [pc EXCEPT ![w] = label]

-----------------------------------------------------------------------------

QueueInit ==
  /\ m = NoThread
  /\ items = <<>>
  /\ total = 0
  /\ popped = 0
  /\ waiting = {}

\* push(): the whole body runs under lock_guard, so it is one step that needs
\* the mutex free; notify_one() releases one blocked consumer if there is any.
NotifyOnFirst ==  \* mutant: notify only when the queue was empty
  IF waiting = {} \/ items # <<>> THEN UNCHANGED waiting
                                  ELSE \E w \in waiting : waiting' = waiting \ {w}

NotifyNobody == UNCHANGED waiting  \* mutant: the push forgets to notify

NotifyOne ==
  IF waiting = {} THEN waiting' = {}
                  ELSE \E w \in waiting : waiting' = waiting \ {w}

PushFront ==  \* mutant: a stack instead of a queue
  /\ m = NoThread
  /\ items' = <<total + 1>> \o items
  /\ total' = total + 1
  /\ NotifyOne
  /\ UNCHANGED <<m, popped, stop, pc, hand>>

PushElement ==
  /\ m = NoThread
  /\ items' = Append(items, total + 1)
  /\ total' = total + 1
  /\ NotifyOne
  /\ UNCHANGED <<m, popped, stop, pc, hand>>

\* wake(): notify_all() without the mutex.
NotifyAll ==
  /\ waiting' = {}
  /\ UNCHANGED <<m, items, total, popped, stop, pc, hand>>

-----------------------------------------------------------------------------
(* wait_and_pop(result, tok) *)

\* std::unique_lock lock{m_}
Lock(w) ==
  /\ pc[w] = "lock"
  /\ m = NoThread
  /\ m' = w
  /\ Goto(w, "test")
  /\ UNCHANGED <<items, total, popped, waiting, stop, hand>>

TestItemsOnly(w) ==  \* mutant: the predicate forgets the stop token
  /\ pc[w] = "test"
  /\ Goto(w, IF items # <<>> THEN "take" ELSE "block")
  /\ UNCHANGED <<m, items, total, popped, waiting, stop, hand>>

\* The predicate of cv_.wait: !items_.empty() || tok.stop_requested()
Test(w) ==
  /\ pc[w] = "test"
  /\ Goto(w, IF items # <<>> \/ w \in stop THEN "take" ELSE "block")
  /\ UNCHANGED <<m, items, total, popped, waiting, stop, hand>>

\* cv_.wait releases the mutex and blocks, as one step for whoever locks m_.
Park(w) ==
  /\ pc[w] = "block"
  /\ m' = NoThread
  /\ waiting' = waiting \cup {w}
  /\ Goto(w, "parked")
  /\ UNCHANGED <<items, total, popped, stop, hand>>

\* A condition variable may return without a notification.
SpuriousWakeup(w) ==
  /\ w \in waiting
  /\ waiting' = waiting \ {w}
  /\ UNCHANGED <<m, items, total, popped, stop, pc, hand>>

\* Notified (or awake for no reason): lock again and evaluate the predicate.
Relock(w) ==
  /\ pc[w] = "parked"
  /\ w \notin waiting
  /\ m = NoThread
  /\ m' = w
  /\ Goto(w, "test")
  /\ UNCHANGED <<items, total, popped, waiting, stop, hand>>

TakeKeeping(w) ==  \* mutant: the element stays in the queue
  /\ pc[w] = "take"
  /\ IF items # <<>> THEN /\ hand' = [hand EXCEPT ![w] = Head(items)]
                          /\ popped' = popped + 1
                     ELSE UNCHANGED <<hand, popped>>
  /\ Goto(w, "return")
  /\ UNCHANGED <<m, items, total, waiting, stop>>

TakeCounting(w) ==  \* mutant: ++popped_ outside of the condition
  /\ pc[w] = "take"
  /\ IF items # <<>> THEN hand' = [hand EXCEPT ![w] = Head(items)] /\ items' = Tail(items)
                     ELSE UNCHANGED <<hand, items>>
  /\ popped' = popped + 1
  /\ Goto(w, "return")
  /\ UNCHANGED <<m, total, waiting, stop>>

TakeLast(w) ==  \* mutant: the newest element is taken
  /\ pc[w] = "take"
  /\ IF items # <<>>
       THEN /\ hand' = [hand EXCEPT ![w] = items[Len(items)]]
            /\ items' = SubSeq(items, 1, Len(items) - 1)
            /\ popped' = popped + 1
       ELSE UNCHANGED <<hand, items, popped>>
  /\ Goto(w, "return")
  /\ UNCHANGED <<m, total, waiting, stop>>

\* if (!items_.empty()) { result = move(front()); pop(); ++popped_; }
Take(w) ==
  /\ pc[w] = "take"
  /\ IF items # <<>>
       THEN /\ hand' = [hand EXCEPT ![w] = Head(items)]
            /\ items' = Tail(items)
            /\ popped' = popped + 1
       ELSE UNCHANGED <<hand, items, popped>>
  /\ Goto(w, "return")
  /\ UNCHANGED <<m, total, waiting, stop>>

ReturnTrue(w) ==  \* mutant: "return true"
  /\ pc[w] = "return"
  /\ Goto(w, "true")
  /\ UNCHANGED <<m, items, total, popped, waiting, stop, hand>>

\* return !tok.stop_requested(): the token is read a second time, under the mutex.
Return(w) ==
  /\ pc[w] = "return"
  /\ Goto(w, IF w \in stop THEN "false" ELSE "true")
  /\ UNCHANGED <<m, items, total, popped, waiting, stop, hand>>

\* ~unique_lock, when what will be returned is settled: the caller goes on to "call"
\* its task or to "drop" it, whatever becomes of the token in the meantime.
Unlock(w) ==
  /\ pc[w] \in {"true", "false"}
  /\ m' = NoThread
  /\ Goto(w, IF pc[w] = "true" THEN "call" ELSE "drop")
  /\ UNCHANGED <<items, total, popped, waiting, stop, hand>>
=============================================================================
