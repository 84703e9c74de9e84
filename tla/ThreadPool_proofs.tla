--------------------------- MODULE ThreadPool_proofs ---------------------------
(***************************************************************************)
(* Proofs about ThreadPool, for every number of threads and of tasks.      *)
(* Everything rests on one inductive invariant, Inv.                       *)
(***************************************************************************)
EXTENDS ThreadPool, FiniteSetTheorems, SequenceTheorems, TLAPS

\* A thread is in a critical section if and only if it holds the mutex.
MutexInv == \A w \in Workers : pc[w] \in Critical <=> m = w

\* Only a thread that parked is in the wait set.
WaitingInv == \A w \in waiting : pc[w] = "parked"

\* What a thread knows at each of its steps, because it holds the mutex or
\* because a stop is never taken back.
LocalInv ==
  \A w \in Workers :
    /\ hand[w] # NoTask => pc[w] \in {"return", "true", "false", "call", "drop", "run"}
    /\ pc[w] \in {"true", "call", "run"} => hand[w] # NoTask
    /\ pc[w] = "take" => items # <<>> \/ w \in stop
    /\ pc[w] = "return" => hand[w] # NoTask \/ w \in stop
    /\ pc[w] \in {"false", "drop", "exit"} => w \in stop
    /\ owner = "done" => pc[w] = "exit"

\* How far the owner has got, and what that means for the others.
OwnerInv ==
  /\ owner \in {"spawn", "push", "get"} => stop = {}
  /\ owner \in {"wake", "join", "done"} => stop = Workers
  /\ owner \notin {"spawn", "push"} => total = NumTasks
  /\ \A t \in Tasks : t < next => outcome[t] = "value"

\* The owner leaves the scope of the pool when all is done or a test threw.
LeavingInv ==
  owner \in {"stop", "wake", "join", "done"} =>
    \/ \A t \in Tasks : outcome[t] = "value"
    \/ \E t \in Tasks : outcome[t] = "exception"

BrokenInv == \A t \in Tasks : outcome[t] = "broken" => stop # {}

Inv ==
  /\ TypeOK /\ InOrder /\ TaskAccounting
  /\ MutexInv /\ WaitingInv /\ LocalInv /\ OwnerInv /\ LeavingInv /\ BrokenInv
  /\ NothingDroppedSilently
  /\ popped <= total

-----------------------------------------------------------------------------

\* There is at least one thread, whatever hardware_concurrency() returned.
LEMMA PoolSizePositive == PoolSize \in Nat \ {0}
  BY ConcurrencyAssumption DEF PoolSize

\* Every step preserves the invariant.
LEMMA NextInv == Inv /\ [Next]_vars => Inv'
<1> SUFFICES ASSUME Inv, [Next]_vars PROVE Inv'
  OBVIOUS
\* The loop of thread_proc.
<1>1. ASSUME NEW w \in Workers, Loop(w) PROVE Inv'
  <2> USE <1>1, PoolSizePositive, NumTasksAssumption DEF Inv
  <2>1. TypeOK'
    BY DEF Loop, Goto, TypeOK, Workers, Tasks, NoTask, NoThread, Critical, Labels, Outcomes
  <2>2. (InOrder /\ TaskAccounting /\ popped <= total)'
    BY DEF Loop, Goto, InOrder, TaskAccounting, TypeOK, Workers, Tasks, NoTask,
       NoThread, Critical, Labels, Outcomes
  <2>3. (MutexInv /\ WaitingInv /\ LocalInv)'
    BY DEF Loop, Goto, MutexInv, WaitingInv, LocalInv, TypeOK, Workers, Tasks, NoTask,
       NoThread, Critical, Labels, Outcomes
  <2>4. (OwnerInv /\ LeavingInv /\ BrokenInv /\ NothingDroppedSilently)'
    BY DEF Loop, Goto, OwnerInv, LeavingInv, BrokenInv, NothingDroppedSilently,
       TypeOK, Workers, Tasks, NoTask, NoThread, Critical, Labels, Outcomes
  <2> QED
    BY <2>1, <2>2, <2>3, <2>4
\* Taking the mutex on entry.
<1>2. ASSUME NEW w \in Workers, Fetch(w), Lock(w) PROVE Inv'
  <2> USE <1>2, PoolSizePositive, NumTasksAssumption DEF Inv
  <2>1. TypeOK'
    BY DEF Lock, Goto, Fetch, Alive, TypeOK, Workers, Tasks, NoTask, NoThread,
       Critical, Labels, Outcomes
  <2>2. (InOrder /\ TaskAccounting /\ popped <= total)'
    BY DEF Lock, Goto, Fetch, Alive, InOrder, TaskAccounting, TypeOK, Workers, Tasks,
       NoTask, NoThread, Critical, Labels, Outcomes
  <2>3. (MutexInv /\ WaitingInv /\ LocalInv)'
    BY DEF Lock, Goto, Fetch, Alive, MutexInv, WaitingInv, LocalInv, TypeOK, Workers,
       Tasks, NoTask, NoThread, Critical, Labels, Outcomes
  <2>4. (OwnerInv /\ LeavingInv /\ BrokenInv /\ NothingDroppedSilently)'
    BY DEF Lock, Goto, Fetch, Alive, OwnerInv, LeavingInv, BrokenInv,
       NothingDroppedSilently, TypeOK, Workers, Tasks, NoTask, NoThread, Critical, Labels,
       Outcomes
  <2> QED
    BY <2>1, <2>2, <2>3, <2>4
\* The predicate is evaluated by the holder of the mutex.
<1>3. ASSUME NEW w \in Workers, Fetch(w), Test(w) PROVE Inv'
  <2> USE <1>3, PoolSizePositive, NumTasksAssumption DEF Inv
  <2>1. TypeOK'
    BY DEF Test, Goto, Fetch, Alive, TypeOK, Workers, Tasks, NoTask, NoThread,
       Critical, Labels, Outcomes
  <2>2. (InOrder /\ TaskAccounting /\ popped <= total)'
    BY DEF Test, Goto, Fetch, Alive, InOrder, TaskAccounting, TypeOK, Workers, Tasks,
       NoTask, NoThread, Critical, Labels, Outcomes
  <2>3. (MutexInv /\ WaitingInv /\ LocalInv)'
    BY DEF Test, Goto, Fetch, Alive, MutexInv, WaitingInv, LocalInv, TypeOK, Workers,
       Tasks, NoTask, NoThread, Critical, Labels, Outcomes
  <2>4. (OwnerInv /\ LeavingInv /\ BrokenInv /\ NothingDroppedSilently)'
    BY DEF Test, Goto, Fetch, Alive, OwnerInv, LeavingInv, BrokenInv,
       NothingDroppedSilently, TypeOK, Workers, Tasks, NoTask, NoThread, Critical, Labels,
       Outcomes
  <2> QED
    BY <2>1, <2>2, <2>3, <2>4
\* Releasing the mutex and blocking.
<1>4. ASSUME NEW w \in Workers, Fetch(w), Park(w) PROVE Inv'
  <2> USE <1>4, PoolSizePositive, NumTasksAssumption DEF Inv
  <2>1. TypeOK'
    BY DEF Park, Goto, Fetch, Alive, TypeOK, Workers, Tasks, NoTask, NoThread,
       Critical, Labels, Outcomes
  <2>2. (InOrder /\ TaskAccounting /\ popped <= total)'
    BY DEF Park, Goto, Fetch, Alive, InOrder, TaskAccounting, TypeOK, Workers, Tasks,
       NoTask, NoThread, Critical, Labels, Outcomes
  <2>3. (MutexInv /\ WaitingInv /\ LocalInv)'
    <3>1. MutexInv' /\ WaitingInv'
      BY DEF Park, Goto, MutexInv, WaitingInv, TypeOK, Workers, NoThread, Critical
    <3>2. LocalInv'
      BY DEF Park, Goto, Fetch, LocalInv, TypeOK
    <3> QED
      BY <3>1, <3>2
  <2>4. (OwnerInv /\ LeavingInv /\ BrokenInv /\ NothingDroppedSilently)'
    BY DEF Park, Goto, Fetch, Alive, OwnerInv, LeavingInv, BrokenInv,
       NothingDroppedSilently, TypeOK, Workers, Tasks, NoTask, NoThread, Critical, Labels,
       Outcomes
  <2> QED
    BY <2>1, <2>2, <2>3, <2>4
\* Taking the mutex again after a wakeup.
<1>5. ASSUME NEW w \in Workers, Fetch(w), Relock(w) PROVE Inv'
  <2> USE <1>5, PoolSizePositive, NumTasksAssumption DEF Inv
  <2>1. TypeOK'
    BY DEF Relock, Goto, Fetch, Alive, TypeOK, Workers, Tasks, NoTask, NoThread,
       Critical, Labels, Outcomes
  <2>2. (InOrder /\ TaskAccounting /\ popped <= total)'
    BY DEF Relock, Goto, Fetch, Alive, InOrder, TaskAccounting, TypeOK, Workers,
       Tasks, NoTask, NoThread, Critical, Labels, Outcomes
  <2>3. (MutexInv /\ WaitingInv /\ LocalInv)'
    BY DEF Relock, Goto, Fetch, Alive, MutexInv, WaitingInv, LocalInv, TypeOK,
       Workers, Tasks, NoTask, NoThread, Critical, Labels, Outcomes
  <2>4. (OwnerInv /\ LeavingInv /\ BrokenInv /\ NothingDroppedSilently)'
    BY DEF Relock, Goto, Fetch, Alive, OwnerInv, LeavingInv, BrokenInv,
       NothingDroppedSilently, TypeOK, Workers, Tasks, NoTask, NoThread, Critical, Labels,
       Outcomes
  <2> QED
    BY <2>1, <2>2, <2>3, <2>4
\* Popping the front: the element moves from items_ to the hand.
<1>6. ASSUME NEW w \in Workers, Fetch(w), Take(w) PROVE Inv'
  <2> USE <1>6, PoolSizePositive, NumTasksAssumption DEF Inv
  <2>1. TypeOK'
    <3>1. CASE items = <<>>
      BY <3>1 DEF Take, Goto, Fetch, TypeOK, Critical, Labels, Workers, NoThread
    <3>2. CASE items # <<>>
      <4>0. owner # "done"
        BY DEF Take, LocalInv
      <4>1. /\ Head(items) \in Tasks /\ Tail(items) \in Seq(Tasks)
            /\ Len(items) \in Nat \ {0}
        BY <3>2, HeadTailProperties, EmptySeq DEF TypeOK
      <4>2. popped + 1 \in 0 .. NumTasks
        BY <4>0, <4>1 DEF TypeOK, InOrder
      <4> QED
        BY <3>2, <4>1, <4>2 DEF Take, Goto, Fetch, TypeOK, Critical, Labels, Workers, NoThread
    <3> QED
      BY <3>1, <3>2
  <2>2. (InOrder /\ TaskAccounting /\ popped <= total)'
    <3>1. CASE items = <<>>
      BY <3>1 DEF Take, Fetch, InOrder, TaskAccounting
    <3>2. CASE items # <<>>
      <4>1. owner # "done" /\ hand[w] = NoTask
        BY DEF Take, LocalInv, TypeOK
      <4>2. /\ Len(items) \in Nat \ {0} /\ Len(items) = total - popped
            /\ items[1] = popped + 1 /\ Head(items) = popped + 1
        BY <3>2, <4>1, EmptySeq DEF TypeOK, InOrder
      <4>3. /\ Len(Tail(items)) = Len(items) - 1
            /\ DOMAIN Tail(items) = 1 .. Len(items) - 1
            /\ \A i \in 1 .. Len(items) - 1 : Tail(items)[i] = items[i + 1]
        BY <3>2, HeadTailProperties DEF TypeOK
      <4>4. /\ items' = Tail(items) /\ popped' = popped + 1
            /\ hand' = [hand EXCEPT ![w] = popped + 1]
            /\ UNCHANGED <<total, owner, outcome>>
        BY <3>2, <4>2 DEF Take, Fetch
      <4>5. InOrder' /\ (popped <= total)'
        BY <4>1, <4>2, <4>3, <4>4 DEF InOrder, TypeOK
      <4>6. popped + 1 \in Tasks /\ outcome[popped + 1] = "none"
        BY <4>1, <4>2 DEF TaskAccounting, TypeOK, Tasks
      <4>7. \A v \in Workers : hand[v] # NoTask => hand[v] # popped + 1
        BY DEF TaskAccounting, TypeOK, Tasks, NoTask
      <4>8. TaskAccounting'
        BY <4>1, <4>4, <4>6, <4>7 DEF TaskAccounting, TypeOK, Tasks, NoTask
      <4> QED
        BY <4>5, <4>8
    <3> QED
      BY <3>1, <3>2
  <2>3. (MutexInv /\ WaitingInv /\ LocalInv)'
    BY DEF Take, Goto, Fetch, Alive, MutexInv, WaitingInv, LocalInv, TypeOK, Workers,
       Tasks, NoTask, NoThread, Critical, Labels, Outcomes
  <2>4. (OwnerInv /\ LeavingInv /\ BrokenInv /\ NothingDroppedSilently)'
    BY DEF Take, Goto, Fetch, Alive, OwnerInv, LeavingInv, BrokenInv,
       NothingDroppedSilently, TypeOK, Workers, Tasks, NoTask, NoThread, Critical, Labels,
       Outcomes
  <2> QED
    BY <2>1, <2>2, <2>3, <2>4
\* The second look at the token.
<1>22. ASSUME NEW w \in Workers, Fetch(w), Return(w) PROVE Inv'
  <2> USE <1>22, PoolSizePositive, NumTasksAssumption DEF Inv
  <2>1. TypeOK'
    BY DEF Return, Goto, Fetch, Alive, TypeOK, Workers, Tasks, NoTask, NoThread,
       Critical, Labels, Outcomes
  <2>2. (InOrder /\ TaskAccounting /\ popped <= total)'
    BY DEF Return, Goto, Fetch, Alive, InOrder, TaskAccounting, TypeOK, Workers, Tasks,
       NoTask, NoThread, Critical, Labels, Outcomes
  <2>3. (MutexInv /\ WaitingInv /\ LocalInv)'
    BY DEF Return, Goto, Fetch, Alive, MutexInv, WaitingInv, LocalInv, TypeOK, Workers,
       Tasks, NoTask, NoThread, Critical, Labels, Outcomes
  <2>4. (OwnerInv /\ LeavingInv /\ BrokenInv /\ NothingDroppedSilently)'
    BY DEF Return, Goto, Fetch, Alive, OwnerInv, LeavingInv, BrokenInv,
       NothingDroppedSilently, TypeOK, Workers, Tasks, NoTask, NoThread, Critical, Labels,
       Outcomes
  <2> QED
    BY <2>1, <2>2, <2>3, <2>4
\* Releasing the mutex: what the thread does next is settled.
<1>23. ASSUME NEW w \in Workers, Fetch(w), Unlock(w) PROVE Inv'
  <2> USE <1>23, PoolSizePositive, NumTasksAssumption DEF Inv
  <2>1. TypeOK'
    BY DEF Unlock, Goto, Fetch, Alive, TypeOK, Workers, Tasks, NoTask, NoThread,
       Critical, Labels, Outcomes
  <2>2. (InOrder /\ TaskAccounting /\ popped <= total)'
    BY DEF Unlock, Goto, Fetch, Alive, InOrder, TaskAccounting, TypeOK, Workers, Tasks,
       NoTask, NoThread, Critical, Labels, Outcomes
  <2>3. (MutexInv /\ WaitingInv /\ LocalInv)'
    BY DEF Unlock, Goto, Fetch, Alive, MutexInv, WaitingInv, LocalInv, TypeOK, Workers,
       Tasks, NoTask, NoThread, Critical, Labels, Outcomes
  <2>4. (OwnerInv /\ LeavingInv /\ BrokenInv /\ NothingDroppedSilently)'
    BY DEF Unlock, Goto, Fetch, Alive, OwnerInv, LeavingInv, BrokenInv,
       NothingDroppedSilently, TypeOK, Workers, Tasks, NoTask, NoThread, Critical, Labels,
       Outcomes
  <2> QED
    BY <2>1, <2>2, <2>3, <2>4
\* Dropping the task because the stop came in between.
<1>7. ASSUME NEW w \in Workers, Discard(w) PROVE Inv'
  <2> USE <1>7, PoolSizePositive, NumTasksAssumption DEF Inv
  <2>1. TypeOK'
    BY DEF Discard, Broken, Goto, Alive, TypeOK, Workers, Tasks, NoTask,
       NoThread, Critical, Labels, Outcomes
  <2>2. (InOrder /\ TaskAccounting /\ popped <= total)'
    BY DEF Discard, Broken, Goto, Alive, InOrder, TaskAccounting, TypeOK,
       Workers, Tasks, NoTask, NoThread, Critical, Labels, Outcomes
  <2>3. (MutexInv /\ WaitingInv /\ LocalInv)'
    <3>1. MutexInv' /\ WaitingInv'
      BY DEF Discard, Goto, MutexInv, WaitingInv, TypeOK, Workers, NoThread, Critical
    <3>2. LocalInv'
      BY DEF Discard, Goto, LocalInv, TypeOK, Tasks, NoTask, Critical
    <3> QED
      BY <3>1, <3>2
  <2>4. (OwnerInv /\ LeavingInv /\ BrokenInv /\ NothingDroppedSilently)'
    <3>1. CASE hand[w] = NoTask
      BY <3>1 DEF Discard, Broken, OwnerInv, LeavingInv, BrokenInv,
                  NothingDroppedSilently
    <3>2. CASE hand[w] # NoTask
      <4>0. w \in stop
        BY DEF Discard, LocalInv
      <4>1. hand[w] \in Tasks /\ outcome[hand[w]] = "none"
        BY <3>2 DEF TypeOK, TaskAccounting
      <4>2. owner \in {"stop", "wake", "join", "done"}
        BY <4>0 DEF OwnerInv, TypeOK, Discard, Alive
      <4>3. PICK t \in Tasks : outcome[t] = "exception"
        BY <4>1, <4>2 DEF LeavingInv
      <4>4. outcome'[t] = "exception" /\ stop' # {}
        BY <3>2, <4>0, <4>1, <4>3 DEF Discard, Broken, TypeOK
      <4>5. \A u \in Tasks : outcome[u] = "value" => outcome'[u] = "value"
        BY <3>2, <4>1 DEF Discard, Broken, TypeOK
      <4> QED
        BY <4>4, <4>5 DEF Discard, OwnerInv, LeavingInv, BrokenInv,
                          NothingDroppedSilently
    <3> QED
      BY <3>1, <3>2
  <2> QED
    BY <2>1, <2>2, <2>3, <2>4
\* The call begins.
<1>24. ASSUME NEW w \in Workers, Call(w) PROVE Inv'
  <2> USE <1>24, PoolSizePositive, NumTasksAssumption DEF Inv
  <2>1. TypeOK'
    BY DEF Call, Goto, Alive, TypeOK, Workers, Tasks, NoTask, NoThread,
       Critical, Labels, Outcomes
  <2>2. (InOrder /\ TaskAccounting /\ popped <= total)'
    BY DEF Call, Goto, Alive, InOrder, TaskAccounting, TypeOK, Workers, Tasks,
       NoTask, NoThread, Critical, Labels, Outcomes
  <2>3. (MutexInv /\ WaitingInv /\ LocalInv)'
    BY DEF Call, Goto, Alive, MutexInv, WaitingInv, LocalInv, TypeOK, Workers,
       Tasks, NoTask, NoThread, Critical, Labels, Outcomes
  <2>4. (OwnerInv /\ LeavingInv /\ BrokenInv /\ NothingDroppedSilently)'
    BY DEF Call, Goto, Alive, OwnerInv, LeavingInv, BrokenInv,
       NothingDroppedSilently, TypeOK, Workers, Tasks, NoTask, NoThread, Critical, Labels,
       Outcomes
  <2> QED
    BY <2>1, <2>2, <2>3, <2>4
\* Calling the task settles its future, which was open.
<1>8. ASSUME NEW w \in Workers, Run(w) PROVE Inv'
  <2> USE <1>8, PoolSizePositive, NumTasksAssumption DEF Inv
  <2>1. TypeOK'
    BY DEF Run, Goto, Alive, TypeOK, Workers, Tasks, NoTask, NoThread, Critical, Labels,
       Outcomes
  <2>2. (InOrder /\ TaskAccounting /\ popped <= total)'
    BY DEF Run, Goto, Alive, InOrder, TaskAccounting, TypeOK, Workers, Tasks, NoTask,
       NoThread, Critical, Labels, Outcomes
  <2>3. (MutexInv /\ WaitingInv /\ LocalInv)'
    BY DEF Run, Goto, Alive, MutexInv, WaitingInv, LocalInv, TypeOK, Workers, Tasks,
       NoTask, NoThread, Critical, Labels, Outcomes
  <2>4. (OwnerInv /\ LeavingInv /\ BrokenInv /\ NothingDroppedSilently)'
    <3>1. hand[w] \in Tasks /\ outcome[hand[w]] = "none"
      BY DEF Run, TypeOK, TaskAccounting
    <3>2. \A t \in Tasks : outcome[t] # "none" => outcome'[t] = outcome[t]
      BY <3>1 DEF Run, TypeOK
    <3>3. \A t \in Tasks : outcome'[t] = "broken" => outcome[t] = "broken"
      BY <3>1 DEF Run, TypeOK
    <3>4. UNCHANGED <<owner, stop, next, total>>
      BY DEF Run
    <3>5. OwnerInv' /\ BrokenInv'
      BY <3>2, <3>3, <3>4 DEF OwnerInv, BrokenInv
    <3>6. LeavingInv' /\ NothingDroppedSilently'
      BY <3>2, <3>3, <3>4 DEF LeavingInv, NothingDroppedSilently
    <3> QED
      BY <3>5, <3>6
  <2> QED
    BY <2>1, <2>2, <2>3, <2>4
\* A wakeup for no reason.
<1>9. ASSUME NEW w \in Workers, Spurious(w) PROVE Inv'
  <2> USE <1>9, PoolSizePositive, NumTasksAssumption DEF Inv
  <2>1. TypeOK'
    BY DEF Spurious, SpuriousWakeup, Alive, TypeOK, Workers, Tasks, NoTask, NoThread,
       Critical, Labels, Outcomes
  <2>2. (InOrder /\ TaskAccounting /\ popped <= total)'
    BY DEF Spurious, SpuriousWakeup, Alive, InOrder, TaskAccounting, TypeOK, Workers,
       Tasks, NoTask, NoThread, Critical, Labels, Outcomes
  <2>3. (MutexInv /\ WaitingInv /\ LocalInv)'
    BY DEF Spurious, SpuriousWakeup, Alive, MutexInv, WaitingInv, LocalInv, TypeOK,
       Workers, Tasks, NoTask, NoThread, Critical, Labels, Outcomes
  <2>4. (OwnerInv /\ LeavingInv /\ BrokenInv /\ NothingDroppedSilently)'
    BY DEF Spurious, SpuriousWakeup, Alive, OwnerInv, LeavingInv, BrokenInv,
       NothingDroppedSilently, TypeOK, Workers, Tasks, NoTask, NoThread, Critical, Labels,
       Outcomes
  <2> QED
    BY <2>1, <2>2, <2>3, <2>4
\* A new thread knows nothing and holds nothing.
<1>10. ASSUME NEW w \in Workers, SpawnThread(w) PROVE Inv'
  <2> USE <1>10, PoolSizePositive, NumTasksAssumption DEF Inv
  <2>1. TypeOK'
    BY DEF SpawnThread, Goto, TypeOK, Workers, Tasks, NoTask, NoThread, Critical, Labels,
       Outcomes
  <2>2. (InOrder /\ TaskAccounting /\ popped <= total)'
    BY DEF SpawnThread, Goto, InOrder, TaskAccounting, TypeOK, Workers, Tasks, NoTask,
       NoThread, Critical, Labels, Outcomes
  <2>3. (MutexInv /\ WaitingInv /\ LocalInv)'
    BY DEF SpawnThread, Goto, MutexInv, WaitingInv, LocalInv, TypeOK, Workers, Tasks,
       NoTask, NoThread, Critical, Labels, Outcomes
  <2>4. (OwnerInv /\ LeavingInv /\ BrokenInv /\ NothingDroppedSilently)'
    BY DEF SpawnThread, Goto, OwnerInv, LeavingInv, BrokenInv, NothingDroppedSilently,
       TypeOK, Workers, Tasks, NoTask, NoThread, Critical, Labels, Outcomes
  <2> QED
    BY <2>1, <2>2, <2>3, <2>4
\* Threads are stopped in order: the last one makes it all of them.
<1>11. ASSUME NEW w \in Workers, RequestStop(w) PROVE Inv'
  <2> USE <1>11, PoolSizePositive, NumTasksAssumption DEF Inv
  <2>1. TypeOK'
    BY DEF RequestStop, TypeOK, Workers, Tasks, NoTask, NoThread, Critical, Labels, Outcomes
  <2>2. (InOrder /\ TaskAccounting /\ popped <= total)'
    BY DEF RequestStop, InOrder, TaskAccounting, TypeOK, Workers, Tasks, NoTask,
       NoThread, Critical, Labels, Outcomes
  <2>3. (MutexInv /\ WaitingInv /\ LocalInv)'
    BY DEF RequestStop, MutexInv, WaitingInv, LocalInv, TypeOK, Workers, Tasks,
       NoTask, NoThread, Critical, Labels, Outcomes
  <2>4. (OwnerInv /\ LeavingInv /\ BrokenInv /\ NothingDroppedSilently)'
    <3>1. CASE w = PoolSize
      <4>1. \A v \in Workers : v < w \/ v = w
        BY <3>1 DEF Workers
      <4>2. stop' = Workers
        BY <4>1 DEF RequestStop, TypeOK
      <4> QED
        BY <3>1, <4>2 DEF RequestStop, OwnerInv, LeavingInv, BrokenInv,
                          NothingDroppedSilently
    <3>2. CASE w # PoolSize
      BY <3>2 DEF RequestStop, OwnerInv, LeavingInv, BrokenInv, NothingDroppedSilently
    <3> QED
      BY <3>1, <3>2
  <2> QED
    BY <2>1, <2>2, <2>3, <2>4
\* The pushed element is the next number.
<1>12. ASSUME Push PROVE Inv'
  <2> USE <1>12, PoolSizePositive, NumTasksAssumption DEF Inv
  <2>1. TypeOK'
    <3>1. total + 1 \in Tasks
      BY DEF Push, TypeOK, Tasks
    <3>2. Append(items, total + 1) \in Seq(Tasks)
      BY <3>1, AppendProperties DEF TypeOK
    <3> QED
      BY <3>1, <3>2 DEF Push, PushElement, NotifyOne, TypeOK, Tasks
  <2>2. (InOrder /\ TaskAccounting /\ popped <= total)'
    BY DEF Push, PushElement, NotifyOne, InOrder, TaskAccounting, TypeOK, Workers,
       Tasks, NoTask, NoThread, Critical, Labels, Outcomes
  <2>3. (MutexInv /\ WaitingInv /\ LocalInv)'
    <3>1. items' # <<>> /\ waiting' \subseteq waiting
      BY AppendProperties, EmptySeq DEF Push, PushElement, NotifyOne, TypeOK
    <3> QED
      BY <3>1 DEF Push, PushElement, MutexInv, WaitingInv, LocalInv
  <2>4. (OwnerInv /\ LeavingInv /\ BrokenInv /\ NothingDroppedSilently)'
    BY DEF Push, PushElement, NotifyOne, OwnerInv, LeavingInv, BrokenInv,
       NothingDroppedSilently, TypeOK, Workers, Tasks, NoTask, NoThread, Critical, Labels,
       Outcomes
  <2> QED
    BY <2>1, <2>2, <2>3, <2>4
\* From pushing to reading futures.
<1>13. ASSUME PushedAll PROVE Inv'
  <2> USE <1>13, PoolSizePositive, NumTasksAssumption DEF Inv
  <2>1. TypeOK'
    BY DEF PushedAll, queueVars, TypeOK, Workers, Tasks, NoTask, NoThread, Critical, Labels,
       Outcomes
  <2>2. (InOrder /\ TaskAccounting /\ popped <= total)'
    BY DEF PushedAll, queueVars, InOrder, TaskAccounting, TypeOK, Workers, Tasks,
       NoTask, NoThread, Critical, Labels, Outcomes
  <2>3. (MutexInv /\ WaitingInv /\ LocalInv)'
    BY DEF PushedAll, queueVars, MutexInv, WaitingInv, LocalInv, TypeOK, Workers,
       Tasks, NoTask, NoThread, Critical, Labels, Outcomes
  <2>4. (OwnerInv /\ LeavingInv /\ BrokenInv /\ NothingDroppedSilently)'
    BY DEF PushedAll, queueVars, OwnerInv, LeavingInv, BrokenInv,
       NothingDroppedSilently, TypeOK, Workers, Tasks, NoTask, NoThread, Critical, Labels,
       Outcomes
  <2> QED
    BY <2>1, <2>2, <2>3, <2>4
\* One more future was read, and it held a value.
<1>14. ASSUME Get PROVE Inv'
  <2> USE <1>14, PoolSizePositive, NumTasksAssumption DEF Inv
  <2>1. TypeOK'
    BY DEF Get, queueVars, TypeOK, Workers, Tasks, NoTask, NoThread, Critical, Labels,
       Outcomes
  <2>2. (InOrder /\ TaskAccounting /\ popped <= total)'
    BY DEF Get, queueVars, InOrder, TaskAccounting, TypeOK, Workers, Tasks, NoTask,
       NoThread, Critical, Labels, Outcomes
  <2>3. (MutexInv /\ WaitingInv /\ LocalInv)'
    BY DEF Get, queueVars, MutexInv, WaitingInv, LocalInv, TypeOK, Workers, Tasks,
       NoTask, NoThread, Critical, Labels, Outcomes
  <2>4. (OwnerInv /\ LeavingInv /\ BrokenInv /\ NothingDroppedSilently)'
    BY DEF Get, queueVars, OwnerInv, LeavingInv, BrokenInv, NothingDroppedSilently,
       TypeOK, Workers, Tasks, NoTask, NoThread, Critical, Labels, Outcomes
  <2> QED
    BY <2>1, <2>2, <2>3, <2>4
\* The future that throws is not a broken promise: no stop was requested.
<1>15. ASSUME GetThrows PROVE Inv'
  <2> USE <1>15, PoolSizePositive, NumTasksAssumption DEF Inv
  <2>1. TypeOK'
    BY DEF GetThrows, queueVars, TypeOK, Workers, Tasks, NoTask, NoThread, Critical, Labels,
       Outcomes
  <2>2. (InOrder /\ TaskAccounting /\ popped <= total)'
    BY DEF GetThrows, queueVars, InOrder, TaskAccounting, TypeOK, Workers, Tasks,
       NoTask, NoThread, Critical, Labels, Outcomes
  <2>3. (MutexInv /\ WaitingInv /\ LocalInv)'
    BY DEF GetThrows, queueVars, MutexInv, WaitingInv, LocalInv, TypeOK, Workers,
       Tasks, NoTask, NoThread, Critical, Labels, Outcomes
  <2>4. (OwnerInv /\ LeavingInv /\ BrokenInv /\ NothingDroppedSilently)'
    BY DEF GetThrows, queueVars, OwnerInv, LeavingInv, BrokenInv,
       NothingDroppedSilently, TypeOK, Workers, Tasks, NoTask, NoThread, Critical, Labels,
       Outcomes
  <2> QED
    BY <2>1, <2>2, <2>3, <2>4
\* All futures were read, so all of them hold values.
<1>16. ASSUME GotAll PROVE Inv'
  <2> USE <1>16, PoolSizePositive, NumTasksAssumption DEF Inv
  <2>1. TypeOK'
    BY DEF GotAll, queueVars, TypeOK, Workers, Tasks, NoTask, NoThread, Critical, Labels,
       Outcomes
  <2>2. (InOrder /\ TaskAccounting /\ popped <= total)'
    BY DEF GotAll, queueVars, InOrder, TaskAccounting, TypeOK, Workers, Tasks, NoTask,
       NoThread, Critical, Labels, Outcomes
  <2>3. (MutexInv /\ WaitingInv /\ LocalInv)'
    BY DEF GotAll, queueVars, MutexInv, WaitingInv, LocalInv, TypeOK, Workers, Tasks,
       NoTask, NoThread, Critical, Labels, Outcomes
  <2>4. (OwnerInv /\ LeavingInv /\ BrokenInv /\ NothingDroppedSilently)'
    BY DEF GotAll, queueVars, OwnerInv, LeavingInv, BrokenInv, NothingDroppedSilently,
       TypeOK, Workers, Tasks, NoTask, NoThread, Critical, Labels, Outcomes
  <2> QED
    BY <2>1, <2>2, <2>3, <2>4
\* notify_all() empties the wait set.
<1>17. ASSUME Wake PROVE Inv'
  <2> USE <1>17, PoolSizePositive, NumTasksAssumption DEF Inv
  <2>1. TypeOK'
    BY DEF Wake, NotifyAll, TypeOK, Workers, Tasks, NoTask, NoThread, Critical, Labels,
       Outcomes
  <2>2. (InOrder /\ TaskAccounting /\ popped <= total)'
    BY DEF Wake, NotifyAll, InOrder, TaskAccounting, TypeOK, Workers, Tasks, NoTask,
       NoThread, Critical, Labels, Outcomes
  <2>3. (MutexInv /\ WaitingInv /\ LocalInv)'
    BY DEF Wake, NotifyAll, MutexInv, WaitingInv, LocalInv, TypeOK, Workers, Tasks,
       NoTask, NoThread, Critical, Labels, Outcomes
  <2>4. (OwnerInv /\ LeavingInv /\ BrokenInv /\ NothingDroppedSilently)'
    BY DEF Wake, NotifyAll, OwnerInv, LeavingInv, BrokenInv, NothingDroppedSilently,
       TypeOK, Workers, Tasks, NoTask, NoThread, Critical, Labels, Outcomes
  <2> QED
    BY <2>1, <2>2, <2>3, <2>4
\* The tasks still in the queue have no outcome yet, and some other test threw.
<1>18. ASSUME Join PROVE Inv'
  <2> USE <1>18, PoolSizePositive, NumTasksAssumption DEF Inv
  <2>1. TypeOK'
    BY DEF Join, TypeOK, Workers, Tasks, NoTask, NoThread, Critical, Labels, Outcomes
  <2>2. (InOrder /\ TaskAccounting /\ popped <= total)'
    BY DEF Join, InOrder, TaskAccounting, TypeOK, Workers, Tasks, NoTask, NoThread,
       Critical, Labels, Outcomes
  <2>3. (MutexInv /\ WaitingInv /\ LocalInv)'
    BY DEF Join, MutexInv, WaitingInv, LocalInv, TypeOK, Workers, Tasks, NoTask,
       NoThread, Critical, Labels, Outcomes
  <2>4. (OwnerInv /\ LeavingInv /\ BrokenInv /\ NothingDroppedSilently)'
    <3>1. CASE \A t \in Tasks : outcome[t] = "value"
      <4>1. \A i \in DOMAIN items : FALSE
        BY <3>1 DEF Join, InOrder, TaskAccounting, TypeOK, Tasks
      <4> QED
        BY <3>1, <4>1 DEF Join, OwnerInv, LeavingInv, BrokenInv, NothingDroppedSilently,
                          TypeOK
    <3>2. CASE \E t \in Tasks : outcome[t] = "exception"
      <4>1. \A i \in DOMAIN items : items[i] \in Tasks /\ outcome[items[i]] = "none"
        BY DEF Join, InOrder, TaskAccounting, TypeOK, Tasks
      <4>2. \A t \in Tasks : outcome[t] # "none" => outcome'[t] = outcome[t]
        BY <4>1 DEF Join, TypeOK
      <4>a. 1 \in Workers
        BY DEF Workers
      <4>3. stop' # {} /\ stop' = stop /\ next' = next
        BY <4>a DEF Join, OwnerInv
      <4> QED
        BY <3>2, <4>2, <4>3 DEF Join, OwnerInv, LeavingInv, BrokenInv,
                                NothingDroppedSilently, Workers
    <3> QED
      BY <3>1, <3>2 DEF Join, LeavingInv
  <2> QED
    BY <2>1, <2>2, <2>3, <2>4
\* A step that changes nothing.
<1>19. ASSUME UNCHANGED vars PROVE Inv'
  <2> USE <1>19 DEF Inv, vars, queueVars
  <2>1. (TypeOK /\ InOrder /\ TaskAccounting /\ popped <= total)'
    BY DEF TypeOK, InOrder, TaskAccounting
  <2>2. (MutexInv /\ WaitingInv /\ LocalInv)'
    BY DEF MutexInv, WaitingInv, LocalInv
  <2>3. (OwnerInv /\ LeavingInv /\ BrokenInv /\ NothingDroppedSilently)'
    BY DEF OwnerInv, LeavingInv, BrokenInv, NothingDroppedSilently
  <2> QED
    BY <2>1, <2>2, <2>3
<1>20. ASSUME NEW w \in Workers, Worker(w) PROVE Inv'
  <2>1. CASE Fetch(w)
    BY <2>1, <1>2, <1>3, <1>4, <1>5, <1>6, <1>22, <1>23 DEF Fetch
  <2> QED
    BY <1>20, <2>1, <1>1, <1>7, <1>8, <1>24 DEF Worker
<1>21. CASE Owner
  BY <1>21, <1>10, <1>11, <1>12, <1>13, <1>14, <1>15,
     <1>16, <1>17, <1>18 DEF Owner
<1> QED
  BY <1>9, <1>19, <1>20, <1>21 DEF Next

\* The invariant holds in every state the pool can reach.
THEOREM Invariance == Spec => []Inv
<1>1. Init => Inv
  <2> SUFFICES ASSUME Init PROVE Inv
    OBVIOUS
  <2> USE PoolSizePositive, NumTasksAssumption
  <2>1. TypeOK
    BY DEF Init, QueueInit, TypeOK, Workers, Tasks, NoThread, NoTask, Outcomes, Labels
  <2>2. InOrder /\ TaskAccounting /\ popped <= total
    BY DEF Init, QueueInit, InOrder, TaskAccounting, NoTask, Tasks
  <2>3. MutexInv /\ WaitingInv /\ LocalInv
    BY DEF Init, QueueInit, MutexInv, WaitingInv, LocalInv, Critical, NoThread, Workers
  <2>4. OwnerInv /\ LeavingInv /\ BrokenInv /\ NothingDroppedSilently
    BY DEF Init, OwnerInv, LeavingInv, BrokenInv, NothingDroppedSilently, Tasks
  <2> QED
    BY <2>1, <2>2, <2>3, <2>4 DEF Inv
<1> QED
  BY <1>1, NextInv, PTL DEF Spec

\* Every variable keeps its type: in particular popped_ never passes total_.
THEOREM TypeCorrect == Spec => []TypeOK
<1>1. Inv => TypeOK
  BY DEF Inv
<1> QED
  BY <1>1, Invariance, PTL

\* Elements leave the queue in the order they were pushed.
THEOREM ElementsInOrder == Spec => []InOrder
<1>1. Inv => InOrder
  BY DEF Inv
<1> QED
  BY <1>1, Invariance, PTL

\* No task is lost, held twice or settled while somebody still holds it.
THEOREM NoTaskLost == Spec => []TaskAccounting
<1>1. Inv => TaskAccounting
  BY DEF Inv
<1> QED
  BY <1>1, Invariance, PTL

\* wait_and_pop never reports success without a task.
THEOREM NoEmptyCall == Spec => []NeverCallsEmptyTask
<1>1. Inv => NeverCallsEmptyTask
  BY DEF Inv, LocalInv, NeverCallsEmptyTask
<1> QED
  BY <1>1, Invariance, PTL

\* A test is dropped only in a run in which another test threw.
THEOREM NoSilentDrop == Spec => []NothingDroppedSilently
<1>1. Inv => NothingDroppedSilently
  BY DEF Inv
<1> QED
  BY <1>1, Invariance, PTL

-----------------------------------------------------------------------------
(* No task is slept through. *)

\* The threads that will look at the queue before they block.
Coming == {w \in Workers : w \notin waiting /\ pc[w] \in {"loop", "lock", "test", "parked", "take"}}

\* A thread that is about to block has just seen an empty queue, and holds the mutex.
BlockInv == \A w \in Workers : pc[w] = "block" => items = <<>> \/ stop # {}

SleepInv == BlockInv /\ (stop = {} /\ waiting # {} => Len(items) <= Cardinality(Coming))

LEMMA ComingCounts ==
  /\ IsFiniteSet(Coming) /\ Cardinality(Coming) \in Nat
  /\ IsFiniteSet(Coming') /\ Cardinality(Coming') \in Nat
  /\ Coming \subseteq Coming' => Cardinality(Coming) <= Cardinality(Coming')
<1>1. IsFiniteSet(Workers)
  BY PoolSizePositive, FS_Interval DEF Workers
<1>2. Coming \in SUBSET Workers /\ Coming' \in SUBSET Workers
  BY DEF Coming
<1>3. IsFiniteSet(Coming) /\ IsFiniteSet(Coming')
  BY <1>1, <1>2, FS_Subset
<1> QED
  BY <1>3, FS_CardinalityType, FS_Subset

\* A step by which nobody goes to sleep, nobody turns away from the queue and the queue
\* does not grow.
LEMMA NobodyLeaves ==
  ASSUME Inv, SleepInv, items' = items, stop \subseteq stop',
         waiting' \subseteq waiting, Coming \subseteq Coming',
         \A w \in Workers : pc'[w] = "block" => pc[w] = "block"
  PROVE  SleepInv'
<1>1. BlockInv'
  BY DEF SleepInv, BlockInv
<1>2. ASSUME stop' = {}, waiting' # {} PROVE Len(items') <= Cardinality(Coming')
  <2>1. Len(items) <= Cardinality(Coming) /\ Len(items) \in Nat
    BY <1>2 DEF SleepInv, Inv, TypeOK
  <2> QED
    BY <2>1, ComingCounts
<1> QED
  BY <1>1, <1>2 DEF SleepInv

LEMMA SleepNext == Inv /\ SleepInv /\ [Next]_vars => SleepInv'
<1> SUFFICES ASSUME Inv, SleepInv, [Next]_vars PROVE SleepInv'
  OBVIOUS
<1>a. /\ pc \in [Workers -> Labels]
      /\ items \in Seq(Tasks) /\ waiting \subseteq Workers /\ stop \subseteq Workers
      /\ \A w \in waiting : pc[w] = "parked"
  BY DEF Inv, TypeOK, WaitingInv
<1>1. ASSUME NEW w \in Workers, \/ Loop(w) \/ Discard(w) \/ Call(w) \/ Run(w) \/ SpawnThread(w)
                             \/ Lock(w) \/ Relock(w) \/ Return(w) \/ Unlock(w)
      PROVE  SleepInv'
  <2>1. UNCHANGED <<items, waiting, stop>> /\ \A v \in Workers : pc'[v] = "block" => pc[v] = "block"
    BY <1>1, <1>a DEF Loop, Discard, Call, Run, SpawnThread, Lock, Relock, Return,
                       Unlock, Goto
  <2>2. stop = {} => Coming \subseteq Coming'
    BY <1>1, <1>a, <2>1 DEF Loop, Discard, Call, Run, SpawnThread, Lock, Relock, Return,
                       Unlock, Goto, Coming
  <2>3. CASE stop = {}
    BY <2>1, <2>2, <2>3, NobodyLeaves
  <2>4. CASE stop # {}
    BY <2>1, <2>4 DEF SleepInv, BlockInv
  <2> QED
    BY <2>3, <2>4
<1>2. ASSUME NEW w \in Workers, Test(w) PROVE SleepInv'
  <2>1. UNCHANGED <<items, waiting, stop>>
    BY <1>2 DEF Test
  <2>2. CASE items # <<>>
    <3>1. pc' = [pc EXCEPT ![w] = "take"] /\ pc[w] = "test"
      BY <1>2, <2>2 DEF Test, Goto
    <3>2. Coming \subseteq Coming' /\ \A v \in Workers : pc'[v] = "block" => pc[v] = "block"
      BY <3>1, <2>1, <1>a DEF Coming
    <3> QED
      BY <2>1, <3>2, NobodyLeaves
  <2>3. CASE items = <<>>
    BY <2>1, <2>3, ComingCounts DEF SleepInv, BlockInv
  <2> QED
    BY <2>2, <2>3
<1>3. ASSUME NEW w \in Workers, Park(w) PROVE SleepInv'
  <2>1. UNCHANGED <<items, stop>> /\ (items = <<>> \/ stop # {})
    BY <1>3 DEF Park, SleepInv, BlockInv
  <2> QED
    BY <2>1, ComingCounts DEF SleepInv, BlockInv
<1>4. ASSUME NEW w \in Workers, Take(w) PROVE SleepInv'
  <2>1. pc[w] = "take" /\ pc' = [pc EXCEPT ![w] = "return"] /\ UNCHANGED <<waiting, stop>>
    BY <1>4 DEF Take, Goto
  <2>2. BlockInv'
    BY <1>4, <2>1, <1>a DEF Take, SleepInv, BlockInv
  <2>3. ASSUME stop' = {}, waiting' # {} PROVE Len(items') <= Cardinality(Coming')
    <3>1. items # <<>> /\ items' = Tail(items) /\ Len(items') = Len(items) - 1 /\ Len(items) \in Nat
      BY <1>4, <2>1, <2>3, <1>a DEF Take, Inv, LocalInv
    <3>2. w \in Coming /\ Coming' = Coming \ {w}
      BY <2>1, <1>a DEF Coming
    <3>3. Cardinality(Coming') = Cardinality(Coming) - 1
      BY <3>2, ComingCounts, FS_RemoveElement
    <3>4. Len(items) <= Cardinality(Coming)
      BY <2>1, <2>3 DEF SleepInv
    <3> QED
      BY <3>1, <3>3, <3>4, ComingCounts
  <2> QED
    BY <2>2, <2>3 DEF SleepInv
<1>5. ASSUME NEW w \in Workers, Spurious(w) PROVE SleepInv'
  <2>1. waiting' = waiting \ {w} /\ w \in waiting /\ UNCHANGED <<items, stop, pc>>
    BY <1>5 DEF Spurious, SpuriousWakeup
  <2>2. Coming \subseteq Coming'
    BY <2>1 DEF Coming
  <2> QED
    BY <2>1, <2>2, NobodyLeaves
<1>6. ASSUME Push PROVE SleepInv'
  <2>1. m = NoThread /\ items' = Append(items, total + 1) /\ NotifyOne /\ UNCHANGED <<stop, pc>>
    BY <1>6 DEF Push, PushElement
  <2>2. \A w \in Workers : pc[w] # "block"
    BY <2>1 DEF Inv, MutexInv, Critical, Workers, NoThread
  <2>3. ASSUME stop' = {}, waiting' # {} PROVE Len(items') <= Cardinality(Coming')
    <3>1. PICK w \in waiting : waiting' = waiting \ {w}
      BY <2>1, <2>3 DEF NotifyOne
    <3>2. w \notin Coming /\ Coming' = Coming \cup {w}
      BY <2>1, <3>1, <1>a DEF Coming
    <3>3. Cardinality(Coming') = Cardinality(Coming) + 1
      BY <3>2, ComingCounts, FS_AddElement
    <3>4. Len(items) <= Cardinality(Coming) /\ Len(items) \in Nat /\ Len(items') = Len(items) + 1
      BY <2>1, <2>3, <3>1, <1>a DEF SleepInv
    <3> QED
      BY <3>3, <3>4, ComingCounts
  <2> QED
    BY <2>1, <2>2, <2>3 DEF SleepInv, BlockInv
<1>7. ASSUME NEW w \in Workers, RequestStop(w) PROVE SleepInv'
  BY <1>7 DEF RequestStop, SleepInv, BlockInv
<1>8. CASE Wake
  BY <1>8 DEF Wake, NotifyAll, SleepInv, BlockInv
<1>9. CASE Join
  <2>1. 1 \in Workers
    BY PoolSizePositive DEF Workers
  <2> QED
    BY <1>9, <2>1 DEF Join, Inv, OwnerInv, SleepInv, BlockInv
<1>10. CASE PushedAll \/ Get \/ GetThrows \/ GotAll \/ UNCHANGED vars
  <2>1. UNCHANGED <<items, stop, waiting, pc>>
    BY <1>10 DEF PushedAll, Get, GetThrows, GotAll, vars, queueVars
  <2>2. Coming' = Coming
    BY <2>1 DEF Coming
  <2> QED
    BY <2>1, <2>2 DEF SleepInv, BlockInv
<1> QED
  BY <1>1, <1>2, <1>3, <1>4, <1>5, <1>6, <1>7, <1>8, <1>9, <1>10 DEF Next, Owner, Worker, Fetch

\* While the pool is in use, a thread is blocked only if enough others are on their way to
\* the queue for the tasks in it: no notification is missed.
THEOREM NothingSleptThrough == Spec => []NoTaskSleptThrough
<1>1. Init => SleepInv
  BY DEF Init, QueueInit, SleepInv, BlockInv
<1>2. SleepInv => NoTaskSleptThrough
  BY DEF SleepInv, Coming, NoTaskSleptThrough
<1> QED
  BY <1>1, <1>2, SleepNext, Invariance, PTL DEF Spec

-----------------------------------------------------------------------------
(* ThreadPool keeps what TaskPool promises: the safety of ImplementsTaskPool. *)

\* The steps TaskPool does not see: nobody is told to call a task or to drop it.
LEMMA Unseen ==
  ASSUME UNCHANGED <<total, outcome>>,
         \A t \in Tasks : /\ InHand(t, Calls)' <=> InHand(t, Calls)
                          /\ InHand(t, Drops)' <=> InHand(t, Drops),
         stop' = {} <=> stop = {}, owner' = "terminated" <=> owner = "terminated"
  PROVE  UNCHANGED Abstract!poolVars
<1>1. TaskStatus' = TaskStatus
  BY DEF TaskStatus
<1> QED
  BY <1>1 DEF Abstract!poolVars

\* What TaskPool knows of a task that somebody holds.
LEMMA Held ==
  ASSUME Inv, NEW w \in Workers, hand[w] # NoTask
  PROVE  /\ hand[w] \in Tasks /\ hand[w] <= popped /\ hand[w] <= total
         /\ outcome[hand[w]] = "none"
         /\ TaskStatus[hand[w]] = IF pc[w] \in Calls THEN "running"
                                  ELSE IF pc[w] \in Drops THEN "dropped" ELSE "queued"
<1>1. hand[w] \in Tasks /\ hand[w] <= popped /\ hand[w] <= total /\ outcome[hand[w]] = "none"
  BY NumTasksAssumption DEF Inv, TypeOK, TaskAccounting, Tasks
<1>2. /\ InHand(hand[w], Calls) <=> pc[w] \in Calls
      /\ InHand(hand[w], Drops) <=> pc[w] \in Drops
  BY DEF InHand, Inv, TaskAccounting
<1> QED
  BY <1>1, <1>2, NumTasksAssumption DEF TaskStatus, Inv, TypeOK, Tasks

\* Fewer tasks than threads are being run when a thread has none to call.
LEMMA RunningFit ==
  ASSUME Inv, NEW w \in Workers, pc[w] \notin Calls
  PROVE  Cardinality(Abstract!Having("running")) < PoolSize
<1> DEFINE R == Abstract!Having("running")
           f == [t \in R |-> CHOOSE v \in Workers : hand[v] = t /\ pc[v] \in Calls]
<1>1. \A t \in R : \E v \in Workers : hand[v] = t /\ pc[v] \in Calls
  BY NumTasksAssumption DEF Abstract!Having, Abstract!Task, Tasks, TaskStatus, InHand, Inv, TypeOK,
                            Outcomes
<1>2. \A t \in R : f[t] \in Workers \ {w} /\ hand[f[t]] = t
  BY <1>1
<1>3. f \in Injection(R, Workers \ {w})
  BY <1>2 DEF Injection, IsInjective
<1>0. IsFiniteSet(Workers) /\ Cardinality(Workers) = PoolSize
  BY PoolSizePositive, FS_Interval DEF Workers
<1>4. IsFiniteSet(Workers \ {w}) /\ Cardinality(Workers \ {w}) = PoolSize - 1
  BY <1>0, FS_RemoveElement
<1> HIDE DEF f
<1>5. IsFiniteSet(R) /\ Cardinality(R) <= PoolSize - 1
  BY <1>3, <1>4, FS_Injection
<1> QED
  BY <1>5, PoolSizePositive, FS_CardinalityType

\* Every step of a thread or of the owner is a step of TaskPool, or nothing it sees.
LEMMA StepImplements ==
  ASSUME Inv
  PROVE  /\ \A w \in Workers : Worker(w) \/ Spurious(w) => [Abstract!PoolNext]_(Abstract!poolVars)
         /\ Owner => [Abstract!PoolNext]_(Abstract!poolVars)
\* A thread of the pool: what it does is to start a task, to finish it, to drop one
\* because it was stopped, or nothing TaskPool sees.
<1>1. ASSUME NEW w \in Workers, Worker(w) \/ Spurious(w)
      PROVE  [Abstract!PoolNext]_(Abstract!poolVars)
  <2>a. /\ pc \in [Workers -> Labels]
        /\ hand \in [Workers -> Tasks \cup {NoTask}] /\ outcome \in [Tasks -> Outcomes]
    BY DEF Inv, TypeOK
  <2>b. owner # "terminated" /\ owner' = owner /\ stop' = stop /\ total' = total
    BY <1>1 DEF Worker, Loop, Fetch, Discard, Call, Run, Spurious, Alive, Lock, Test, Park,
                Relock, Take, Return, Unlock, SpuriousWakeup
  <2>c. UNCHANGED <<stop # {}, owner = "terminated">>
    BY <2>b
  <2>1. CASE \/ Loop(w) \/ Spurious(w) \/ Call(w)
             \/ Fetch(w) /\ (Lock(w) \/ Test(w) \/ Park(w) \/ Relock(w) \/ Unlock(w))
    <3>1. UNCHANGED <<hand, outcome>>
      BY <2>1 DEF Loop, Lock, Test, Park, Relock, Unlock, Call, Spurious, SpuriousWakeup, Fetch
    <3>2. \A v \in Workers : /\ pc'[v] \in Calls <=> pc[v] \in Calls
                             /\ pc'[v] \in Drops <=> pc[v] \in Drops
      <4>1. CASE Loop(w) \/ Lock(w) \/ Test(w) \/ Park(w) \/ Relock(w)
        BY <4>1, <2>a DEF Loop, Lock, Test, Park, Relock, Goto, Calls, Drops
      <4>2. CASE Unlock(w) \/ Call(w)
        BY <4>2, <2>a DEF Unlock, Call, Goto, Calls, Drops
      <4>3. CASE Spurious(w)
        BY <4>3 DEF Spurious, SpuriousWakeup
      <4> QED
        BY <2>1, <4>1, <4>2, <4>3
    <3> QED
      BY <3>1, <3>2, <2>b, Unseen DEF InHand, Calls, Drops
  <2>2. CASE Take(w) /\ Fetch(w)
    <3>1. /\ pc[w] = "take" /\ pc' = [pc EXCEPT ![w] = "return"] /\ outcome' = outcome
          /\ \A v \in Workers \ {w} : hand'[v] = hand[v]
      BY <2>2, <2>a DEF Take, Fetch, Goto
    <3>2. \A t \in Tasks : /\ InHand(t, Calls)' <=> InHand(t, Calls)
                           /\ InHand(t, Drops)' <=> InHand(t, Drops)
      BY <3>1, <2>a DEF InHand, Calls, Drops
    <3> QED
      BY <3>1, <3>2, <2>b, Unseen
  <2>3. CASE Return(w) /\ Fetch(w) /\ w \notin stop
    <3> DEFINE t == hand[w]
    <3>1. /\ pc[w] = "return" /\ pc' = [pc EXCEPT ![w] = "true"]
          /\ hand' = hand /\ outcome' = outcome /\ hand[w] # NoTask
      BY <2>3, <2>a DEF Fetch, Return, Goto, Inv, LocalInv
    <3>2. t \in Tasks /\ t <= popped /\ outcome[t] = "none" /\ TaskStatus[t] = "queued" /\ t <= total
      BY <3>1, Held DEF Calls, Drops
    <3>3. \A u \in 1 .. t - 1 : TaskStatus[u] # "queued"
      <4> SUFFICES ASSUME NEW u \in 1 .. t - 1 PROVE TaskStatus[u] # "queued"
        OBVIOUS
      <4>0. popped \in Nat /\ total \in Nat /\ popped <= total
        BY NumTasksAssumption DEF Inv, TypeOK
      <4>1. u \in Tasks /\ u <= popped /\ u # t /\ ~(u > total)
        BY <3>2, <4>0, NumTasksAssumption DEF Tasks
      <4>6. CASE outcome[u] # "none"
        BY <4>1, <4>6, <2>a DEF TaskStatus, Outcomes
      <4>7. CASE outcome[u] = "none"
        <5>2. PICK v \in Workers : hand[v] = u
          BY <4>1, <4>7 DEF Inv, TaskAccounting
        <5>3. pc[v] # "return"
          BY <3>1, <4>1, <5>2 DEF Inv, MutexInv, Critical
        <5>4. hand[v] # NoTask
          BY <4>1, <5>2 DEF Tasks, NoTask
        <5>5. pc[v] \in Calls \cup Drops
          BY <5>3, <5>4 DEF Inv, LocalInv, Calls, Drops
        <5> QED
          BY <5>2, <5>4, <5>5, Held
      <4> QED
        BY <4>6, <4>7
    <3>4. Cardinality(Abstract!Having("running")) < PoolSize
      BY <3>1, RunningFit DEF Calls
    <3>5. TaskStatus' = [TaskStatus EXCEPT ![t] = "running"]
      <4>1. \A u \in Tasks : /\ InHand(u, Calls)' <=> InHand(u, Calls) \/ u = t
                             /\ InHand(u, Drops)' <=> InHand(u, Drops)
        BY <3>1, <2>a DEF InHand, Calls, Drops
      <4> QED
        BY <3>1, <3>2, <4>1, <2>b, NumTasksAssumption DEF TaskStatus, Inv, TypeOK, Tasks
    <3>6. Abstract!Start(t)
      <4> HIDE DEF t
      <4>1. Abstract!Cardinality(Abstract!Having("running")) < PoolSize
        BY <3>4, Zenon DEF Cardinality, Abstract!Cardinality
      <4> QED
        BY <3>2, <3>3, <4>1, <3>5, <2>c, Zenon DEF Abstract!Start
    <3> QED
      BY <3>2, <3>6, <2>b DEF Abstract!PoolNext, Abstract!Task, Tasks
  <2>4. CASE Return(w) /\ Fetch(w) /\ w \in stop
    <3>1. /\ pc[w] = "return" /\ pc' = [pc EXCEPT ![w] = "false"] /\ UNCHANGED <<hand, outcome>>
      BY <2>4, <2>a DEF Fetch, Return, Goto
    <3>2. \A u \in Tasks : /\ InHand(u, Calls)' <=> InHand(u, Calls)
                           /\ InHand(u, Drops)' <=> InHand(u, Drops) \/ u = hand[w]
      BY <3>1, <2>a DEF InHand, Calls, Drops
    <3>3. CASE hand[w] = NoTask
      BY <3>1, <3>2, <3>3, <2>b, Unseen DEF Tasks, NoTask
    <3>4. CASE hand[w] # NoTask
      <4> DEFINE t == hand[w]
      <4>1. t \in Tasks /\ outcome[t] = "none" /\ TaskStatus[t] = "queued" /\ t <= total
        BY <3>1, <3>4, Held DEF Calls, Drops
      <4>3. TaskStatus' = [u \in Tasks |-> IF u \in {t} THEN "dropped" ELSE TaskStatus[u]]
        BY <3>1, <3>2, <4>1, <2>a, <2>b, NumTasksAssumption DEF TaskStatus, Inv, TypeOK, Tasks
      <4>4. {t} \in SUBSET Abstract!Having("queued")
        BY <4>1 DEF Abstract!Having, Abstract!Task, Tasks
      <4>5. Abstract!Drop
        BY <4>3, <4>4, <2>4, <2>b DEF Abstract!Drop, Abstract!Task, Tasks
      <4> QED
        BY <4>5, <2>b DEF Abstract!PoolNext
    <3> QED
      BY <3>3, <3>4
  <2>6. CASE Discard(w)
    <3>1. /\ pc[w] = "drop" /\ pc' = [pc EXCEPT ![w] = "loop"]
          /\ hand' = [hand EXCEPT ![w] = NoTask] /\ outcome' = Broken(hand[w])
      BY <2>6, <2>a DEF Discard, Goto
    <3>2. CASE hand[w] = NoTask
      <4>1. \A u \in Tasks : /\ InHand(u, Calls)' <=> InHand(u, Calls)
                             /\ InHand(u, Drops)' <=> InHand(u, Drops)
        BY <3>1, <3>2, <2>a DEF InHand, Calls, Drops, Tasks, NoTask
      <4> QED
        BY <3>1, <3>2, <4>1, <2>b, Unseen DEF Broken
    <3>3. CASE hand[w] # NoTask
      <4> DEFINE t == hand[w]
      <4>1. t \in Tasks /\ outcome[t] = "none" /\ TaskStatus[t] = "dropped" /\ t <= total
        BY <3>1, <3>3, Held DEF Calls, Drops
      <4>2. outcome' = [outcome EXCEPT ![t] = "broken"]
        BY <3>1, <3>3 DEF Broken
      <4>3. \A u \in Tasks \ {t} : /\ InHand(u, Calls)' <=> InHand(u, Calls)
                                   /\ InHand(u, Drops)' <=> InHand(u, Drops)
        BY <3>1, <2>a DEF InHand, Calls, Drops, Tasks, NoTask
      <4>4. TaskStatus' = TaskStatus
        <5> HIDE DEF t
        <5>1. ASSUME NEW u \in Tasks \ {t} PROVE TaskStatus'[u] = TaskStatus[u]
          BY <4>2, <4>3, <2>a, <2>b DEF TaskStatus, Calls, Drops
        <5>2. TaskStatus'[t] = "dropped"
          BY <4>1, <4>2, <2>a, <2>b, NumTasksAssumption DEF TaskStatus, Inv, TypeOK, Tasks
        <5> QED
          BY <4>1, <5>1, <5>2 DEF TaskStatus
      <4> QED
        BY <4>4, <2>b DEF Abstract!poolVars
    <3> QED
      BY <3>2, <3>3
  <2>5. CASE Run(w)
    <3> DEFINE t == hand[w]
    <3>1. /\ pc[w] = "run" /\ pc' = [pc EXCEPT ![w] = "loop"] /\ hand[w] # NoTask
          /\ hand' = [hand EXCEPT ![w] = NoTask]
      BY <2>5 DEF Run, Goto
    <3>2. PICK r \in {"value", "exception"} : outcome' = [outcome EXCEPT ![t] = r]
      BY <2>5 DEF Run
    <3>3. t \in Tasks /\ t <= total /\ TaskStatus[t] = "running"
      BY <3>1, Held DEF Calls
    <3>4. \A u \in Tasks \ {t} : /\ InHand(u, Calls)' <=> InHand(u, Calls)
                                 /\ InHand(u, Drops)' <=> InHand(u, Drops)
      BY <3>1, <2>a DEF InHand, Calls, Drops, Tasks, NoTask
    <3>5. TaskStatus' = [TaskStatus EXCEPT ![t] = r]
      BY <3>2, <3>3, <3>4, <2>a, <2>b, NumTasksAssumption DEF TaskStatus, Inv, TypeOK, Tasks
    <3>6. Abstract!Finish(t)
      BY <3>3, <3>5, <2>b DEF Abstract!Finish
    <3> QED
      BY <3>3, <3>6, <2>b DEF Abstract!PoolNext, Abstract!Task, Tasks
  <2> QED
    BY <1>1, <2>1, <2>2, <2>3, <2>4, <2>5, <2>6 DEF Worker, Fetch
\* The owner: it submits a task, closes the pool once it may, drops what is still
\* queued, aborts the process, or does what TaskPool does not see.
<1>2. ASSUME Owner PROVE [Abstract!PoolNext]_(Abstract!poolVars)
  <2>a. /\ total \in 0 .. NumTasks /\ popped \in 0 .. NumTasks /\ popped <= total /\ NumTasks \in Nat
        /\ hand \in [Workers -> Tasks \cup {NoTask}] /\ outcome \in [Tasks -> Outcomes]
        /\ next \in 1 .. NumTasks + 1
    BY NumTasksAssumption DEF Inv, TypeOK
  <2>b. owner # "terminated"
    BY <1>2 DEF Owner, SpawnThread, RequestStop, Push, PushedAll, Get, GetThrows, GotAll, Wake, Join
  \* A task that was not taken yet and that nobody destroyed.
  <2>c. \A t \in Tasks : t > popped /\ owner # "done" => outcome[t] = "none" /\ ~InHand(t, Calls) /\ ~InHand(t, Drops)
    BY <2>a DEF InHand, Inv, TaskAccounting, Tasks, NoTask
  \* Nothing is new once the owner has pushed everything.
  <2>d. owner \notin {"spawn", "push"} => Abstract!Having("new") = {}
    BY <2>a DEF Inv, OwnerInv, Abstract!Having, Abstract!Task, TaskStatus, Tasks, Outcomes
  <2>1. ASSUME NEW w \in Workers, SpawnThread(w) PROVE UNCHANGED Abstract!poolVars
    <3>1. \A v \in Workers : /\ pc'[v] \in Calls <=> pc[v] \in Calls
                             /\ pc'[v] \in Drops <=> pc[v] \in Drops
      BY <2>1 DEF SpawnThread, Goto, Inv, TypeOK, Calls, Drops
    <3> QED
      BY <2>1, <3>1, <2>b, Unseen DEF SpawnThread, InHand, Calls, Drops
  <2>2. ASSUME NEW w \in Workers, RequestStop(w) PROVE [Abstract!PoolNext]_(Abstract!poolVars)
    <3>1. /\ UNCHANGED <<total, outcome, hand, pc>> /\ owner = "stop"
          /\ owner' # "terminated" /\ stop' # {}
      BY <2>2 DEF RequestStop
    <3>2. \A t \in Tasks : /\ InHand(t, Calls)' <=> InHand(t, Calls)
                           /\ InHand(t, Drops)' <=> InHand(t, Drops)
      BY <3>1 DEF InHand
    <3>3. CASE stop # {}
      BY <3>1, <3>2, <3>3, <2>b, Unseen
    <3>4. CASE stop = {}
      <4>1. TaskStatus' = TaskStatus
        BY <3>1, <3>2 DEF TaskStatus
      <4>2. total = NumTasks
        BY <3>1 DEF Inv, OwnerInv
      <4>5. Abstract!Having("value") = Abstract!Task \/ Abstract!Having("exception") # {}
        <5>1. CASE \A t \in Tasks : outcome[t] = "value"
          BY <5>1, <4>2, <2>a DEF Abstract!Having, Abstract!Task, TaskStatus, Tasks
        <5>2. CASE \E t \in Tasks : outcome[t] = "exception"
          BY <5>2, <4>2, <2>a DEF Abstract!Having, Abstract!Task, TaskStatus, Tasks
        <5> QED
          BY <5>1, <5>2, <3>1 DEF Inv, LeavingInv
      <4>6. (stop' # {}) = TRUE /\ (owner' = "terminated") = (owner = "terminated")
        BY <3>1
      <4>7. Abstract!Having("new") = {}
        BY <3>1, <2>d
      <4>8. Abstract!Close
        BY <3>4, <4>1, <4>5, <4>6, <4>7, Zenon DEF Abstract!Close
      <4> QED
        BY <4>8, <2>b DEF Abstract!PoolNext
    <3> QED
      BY <3>3, <3>4
  <2>3. CASE Push
    <3> DEFINE t == total + 1
    <3>1. /\ total' = t /\ UNCHANGED <<outcome, hand, pc, stop, owner>>
          /\ total < NumTasks /\ owner = "push" /\ stop = {}
      BY <2>3 DEF Push, PushElement, Inv, OwnerInv
    <3>2. t \in Tasks /\ outcome[t] = "none" /\ ~InHand(t, Calls) /\ ~InHand(t, Drops)
      BY <3>1, <2>a, <2>c DEF Tasks
    <3>3. TaskStatus[t] = "new" /\ \A u \in 1 .. t - 1 : TaskStatus[u] # "new"
      BY <3>1, <3>2, <2>a DEF TaskStatus, Tasks, Outcomes
    <3>4. \A u \in Tasks : /\ InHand(u, Calls)' <=> InHand(u, Calls)
                           /\ InHand(u, Drops)' <=> InHand(u, Drops)
      BY <3>1 DEF InHand
    <3>5. TaskStatus' = [TaskStatus EXCEPT ![t] = "queued"]
      <4>1. \A u \in Tasks : u > total' <=> u > total /\ u # t
        BY <3>1, <2>a DEF Tasks
      <4>2. t > total
        BY <2>a
      <4> HIDE DEF t
      <4>3. ASSUME NEW u \in Tasks PROVE TaskStatus'[u] = IF u = t THEN "queued" ELSE TaskStatus[u]
        BY <3>1, <3>2, <3>4, <4>1, <4>2 DEF TaskStatus
      <4> QED
        BY <3>2, <4>3 DEF TaskStatus
    <3>6. ~(stop # {}) /\ UNCHANGED <<stop # {}, owner = "terminated">>
      BY <3>1
    <3>7. Abstract!Submit(t)
      <4> HIDE DEF t
      <4> QED
        BY <3>3, <3>5, <3>6, Zenon DEF Abstract!Submit
    <3> QED
      BY <3>2, <3>7, <2>b DEF Abstract!PoolNext, Abstract!Task, Tasks
  <2>4. CASE PushedAll \/ Get \/ GotAll \/ Wake
    <3>1. UNCHANGED <<total, outcome, hand, pc, stop>> /\ owner' # "terminated"
      BY <2>4 DEF PushedAll, Get, GotAll, Wake, NotifyAll, queueVars
    <3> QED
      BY <3>1, <2>b, Unseen DEF InHand
  <2>5. CASE GetThrows
    <3>1. /\ UNCHANGED <<total, outcome, hand, pc, stop>>
          /\ owner = "get" /\ stop = {} /\ total = NumTasks
          /\ next \in Tasks /\ outcome[next] \in {"exception", "broken"}
      BY <2>5, <2>a DEF GetThrows, queueVars, Inv, OwnerInv, Tasks
    <3>2. outcome[next] = "exception"
      BY <3>1 DEF Inv, BrokenInv
    <3>3. CASE owner' = "stop"
      BY <3>1, <3>3, <2>b, Unseen DEF InHand
    <3>4. CASE owner' = "terminated"
      <4>1. TaskStatus' = TaskStatus
        BY <3>1 DEF TaskStatus, InHand
      <4>2. Abstract!Having("exception") # {}
        <5>1. TaskStatus[next] = "exception"
          BY <3>1, <3>2, <2>a DEF TaskStatus, Tasks
        <5> QED
          BY <3>1, <5>1 DEF Abstract!Having, Abstract!Task, Tasks
      <4>3. Abstract!Having("new") = {}
        BY <3>1, <2>d
      <4>4. ~(stop # {}) /\ (owner' = "terminated") = TRUE /\ (stop' # {}) = (stop # {})
        BY <3>1, <3>4
      <4>5. Abstract!Abort
        BY <4>1, <4>2, <4>3, <4>4, Zenon DEF Abstract!Abort
      <4> QED
        BY <4>5, <2>b DEF Abstract!PoolNext
    <3> QED
      BY <2>5, <3>3, <3>4 DEF GetThrows
  <2>6. CASE Join
    <3> DEFINE D == {t \in Tasks : \E i \in DOMAIN items : items[i] = t}
    <3>1. /\ UNCHANGED <<total, hand, pc, stop>> /\ owner = "join" /\ owner' = "done"
          /\ outcome' = [t \in Tasks |-> IF t \in D THEN "broken" ELSE outcome[t]]
          /\ stop = Workers /\ total = NumTasks
      BY <2>6 DEF Join, Inv, OwnerInv
    <3>2. \A t \in Tasks : /\ InHand(t, Calls)' <=> InHand(t, Calls)
                           /\ InHand(t, Drops)' <=> InHand(t, Drops)
      BY <3>1 DEF InHand
    <3>3. CASE D = {}
      <4>1. outcome' = outcome
        BY <3>1, <3>3, <2>a
      <4> QED
        BY <3>1, <3>2, <4>1, <2>b, Unseen
    <3>4. CASE D # {}
      <4>1. \A t \in D : t > popped
        <5> SUFFICES ASSUME NEW i \in DOMAIN items PROVE items[i] > popped
          OBVIOUS
        <5>1. i \in Nat \ {0} /\ items[i] = popped + i
          BY <3>1 DEF Inv, InOrder, TypeOK
        <5> QED
          BY <5>1, <2>a
      <4>2. \A t \in D : outcome[t] = "none" /\ ~InHand(t, Calls) /\ ~InHand(t, Drops) /\ TaskStatus[t] = "queued"
        BY <3>1, <4>1, <2>a, <2>c DEF TaskStatus, Tasks
      <4>3. TaskStatus' = [t \in Tasks |-> IF t \in D THEN "dropped" ELSE TaskStatus[t]]
        BY <3>1, <3>2, <4>2, <2>a DEF TaskStatus, Tasks
      <4>4. D \in SUBSET Abstract!Having("queued")
        BY <4>2 DEF Abstract!Having, Abstract!Task, Tasks
      <4>5. 1 \in Workers
        BY PoolSizePositive DEF Workers
      <4>6. stop # {} /\ UNCHANGED <<stop # {}, owner = "terminated">>
        BY <3>1, <4>5
      <4>7. Abstract!Drop
        <5> HIDE DEF D
        <5>1. TaskStatus' = [t \in Abstract!Task |-> IF t \in D THEN "dropped" ELSE TaskStatus[t]]
          BY <4>3 DEF Abstract!Task, Tasks
        <5> QED
          BY <3>4, <4>4, <4>6, <5>1, Zenon DEF Abstract!Drop
      <4> QED
        BY <4>7, <2>b DEF Abstract!PoolNext
    <3> QED
      BY <3>3, <3>4
  <2> QED
    BY <1>2, <2>1, <2>2, <2>3, <2>4, <2>5, <2>6 DEF Owner
<1> QED
  BY <1>1, <1>2

\* The pool keeps the safety of TaskPool, whatever the number of threads and tasks: no
\* task runs twice or without being submitted, they start in order and at most PoolSize
\* at once, and one is dropped only after a test threw.
THEOREM Implements == Spec => Abstract!PoolSafety
<1>1. Init => Abstract!PoolInit
  <2> SUFFICES ASSUME Init PROVE Abstract!PoolInit
    OBVIOUS
  <2>1. TaskStatus = [t \in Abstract!Task |-> "new"]
    BY NumTasksAssumption DEF Init, QueueInit, TaskStatus, Tasks, Abstract!Task
  <2>2. (stop # {}) = FALSE /\ (owner = "terminated") = FALSE
    BY DEF Init
  <2> QED
    BY <2>1, <2>2, Zenon DEF Abstract!PoolInit
<1>2. Inv /\ [Next]_vars => [Abstract!PoolNext]_(Abstract!poolVars)
  <2> SUFFICES ASSUME Inv, [Next]_vars PROVE [Abstract!PoolNext]_(Abstract!poolVars)
    OBVIOUS
  <2>1. CASE UNCHANGED vars
    BY <2>1, Unseen DEF vars, queueVars, InHand
  <2> QED
    BY <2>1, StepImplements DEF Next
<1> QED
  BY <1>1, <1>2, Invariance, PTL DEF Spec, Abstract!PoolSafety
=============================================================================
