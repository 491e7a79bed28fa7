----------------------------- MODULE WorkQueue -----------------------------
(***************************************************************************)
(* The work queue of phlib (workqueue.c): items in a list, a semaphore     *)
(* that is signalled once for each of them, and worker threads that are    *)
(* created when all are busy and end when no work came for a while.  The   *)
(* list and the counts are read without their locks where the code does.   *)
(*                                                                         *)
(* A critical section of QueueLock is one step.  That of StateLock is too, *)
(* except where it starts a thread, which runs before it is counted.       *)
(* MaximumThreads never changes and is checked under StateLock, so a       *)
(* worker never finds more threads than that at the head of its loop.      *)
(***************************************************************************)
EXTENDS Integers, Sequences, SequencesExt, FiniteSets

CONSTANTS
  Callers,          \* threads that use the queue from outside
  Workers,          \* worker threads
  Items,            \* work items: taken from a free list, so reused
  MinimumThreads,
  MaximumThreads,
  NULL

ASSUME WorkQueueAssumption ==
  /\ MinimumThreads \in Nat /\ MaximumThreads \in Nat \ {0}
  /\ IsFiniteSet(Workers) /\ MaximumThreads <= Cardinality(Workers)
  /\ Callers \cap Workers = {} /\ NULL \notin Callers \cup Workers \cup Items

VARIABLES
  QueueList,        \* the items in QueueListHead, oldest first
  QueueEmpty,       \* threads that wait for QueueEmptyCondition, oldest first
  Semaphore,        \* its count, NULL before the first use
  CurrentThreads,
  BusyCount,
  StateLock,        \* the thread that holds it across a step, or NULL
  Terminating,
  refs, rundown,    \* the rundown protection: users, and whether it is active
  life,             \* how far PhDeleteWorkQueue is
  pc,               \* where a thread is in a call it makes of the queue
  seen,             \* the BusyCount a thread read and has not compared yet, or 0
  at,               \* where a worker is in its loop
  item              \* the item a worker executes

queueVars == <<QueueList, QueueEmpty, BusyCount>>
threadVars == <<CurrentThreads, StateLock, refs>>
lifeVars == <<Terminating, rundown, life>>
vars == <<queueVars, Semaphore, threadVars, lifeVars, pc, seen, at, item>>

\* PhInitializeWorkQueue
Initialized ==
  [QueueList |-> <<>>, Semaphore |-> NULL, CurrentThreads |-> 0, BusyCount |-> 0,
   Terminating |-> FALSE, refs |-> 0, rundown |-> FALSE]

Init ==
  /\ QueueList = Initialized.QueueList /\ QueueEmpty = <<>>
  /\ Semaphore = Initialized.Semaphore
  /\ CurrentThreads = Initialized.CurrentThreads /\ BusyCount = Initialized.BusyCount
  /\ StateLock = NULL
  /\ Terminating = Initialized.Terminating
  /\ refs = Initialized.refs /\ rundown = Initialized.rundown
  /\ life = "open"
  /\ pc = [t \in Callers \cup Workers |-> "idle"]
  /\ seen = [t \in Callers \cup Workers |-> 0]
  /\ at = [w \in Workers |-> "none"]
  /\ item = [w \in Workers |-> NULL]

Goto(t, l) == pc' = [pc EXCEPT ![t] = l]
GotoAt(w, l) == at' = [at EXCEPT ![w] = l]
Signals(n) == Semaphore' = (IF Semaphore = NULL THEN 0 ELSE Semaphore) + n
-----------------------------------------------------------------------------
(* PhQueueItemWorkQueueEx, by a thread of the program or by the function   *)
(* of an item that is being executed.                                      *)

\* Who may use the queue: a thread of the program until the owner deletes it,
\* and a work item as long as it runs.
MayCall(t) ==
  /\ pc[t] = "idle"
  /\ t \in Callers => life = "open"
  /\ t \in Workers => at[t] = "exec"

\* The items of the free list: the bound on the items in use.
FreeItems == Items \ (ToSet(QueueList) \cup {item[w] : w \in Workers})

\* The item is linked and counted under QueueLock.
Enqueue(t) ==
  /\ \E i \in FreeItems : QueueList' = Append(QueueList, i)
  /\ BusyCount' = BusyCount + 1
  /\ Goto(t, "signal")
  /\ UNCHANGED <<QueueEmpty, Semaphore, threadVars, lifeVars, seen, at, item>>

PhQueueItemWorkQueueEx(t) == MayCall(t) /\ Enqueue(t)

\* The semaphore is created by its first user (PhpGetSemaphoreWorkQueue).
Signal(t) ==
  /\ pc[t] = "signal"
  /\ Signals(1)
  /\ Goto(t, "busy")
  /\ UNCHANGED <<queueVars, threadVars, lifeVars, seen, at, item>>

\* The two checks without the lock: BusyCount is read, then CurrentThreads,
\* which is read once more for the second check.
ReadBusy(t) ==
  /\ pc[t] = "busy"
  /\ seen' = [seen EXCEPT ![t] = BusyCount]
  /\ Goto(t, "compare")
  /\ UNCHANGED <<queueVars, Semaphore, threadVars, lifeVars, at, item>>

CheckBusy(t) ==
  /\ pc[t] = "compare"
  /\ Goto(t, IF seen[t] >= CurrentThreads THEN "room" ELSE "idle")
  /\ seen' = [seen EXCEPT ![t] = 0]
  /\ UNCHANGED <<queueVars, Semaphore, threadVars, lifeVars, at, item>>

CheckRoom(t) ==
  /\ pc[t] = "room"
  /\ Goto(t, IF CurrentThreads < MaximumThreads THEN "create" ELSE "idle")
  /\ UNCHANGED <<queueVars, Semaphore, threadVars, lifeVars, seen, at, item>>

\* Mutant: the worker acquires the rundown protection itself, once it runs.
CreateUnprotected(t) ==
  /\ pc[t] = "create" /\ StateLock = NULL
  /\ \/ /\ CurrentThreads < MaximumThreads /\ ~rundown
        /\ \E w \in {x \in Workers : at[x] = "none"} : GotoAt(w, "top")
        /\ StateLock' = t
        /\ Goto(t, "count")
     \/ Goto(t, "idle") /\ UNCHANGED <<StateLock, at>>
  /\ UNCHANGED <<queueVars, Semaphore, CurrentThreads, refs, lifeVars, seen, item>>

\* PhpCreateWorkQueueThread under StateLock: no thread when there are enough
\* by now, when the queue is being run down, or when Windows has none.
PhpCreateWorkQueueThread(t) ==
  /\ pc[t] = "create" /\ StateLock = NULL
  /\ \/ /\ CurrentThreads < MaximumThreads /\ ~rundown
        /\ refs' = refs + 1
        /\ \E w \in {x \in Workers : at[x] = "none"} : GotoAt(w, "top")
        /\ StateLock' = t
        /\ Goto(t, "count")
     \/ Goto(t, "idle") /\ UNCHANGED <<StateLock, refs, at>>
  /\ UNCHANGED <<queueVars, Semaphore, CurrentThreads, lifeVars, seen, item>>

CountThread(t) ==
  /\ pc[t] = "count"
  /\ CurrentThreads' = CurrentThreads + 1
  /\ StateLock' = NULL
  /\ Goto(t, "idle")
  /\ UNCHANGED <<queueVars, Semaphore, refs, lifeVars, seen, at, item>>

\* The rest of a call that was begun.
QueueStep(t) ==
  \/ Signal(t) \/ ReadBusy(t) \/ CheckBusy(t) \/ CheckRoom(t)
  \/ PhpCreateWorkQueueThread(t) \/ CountThread(t)
-----------------------------------------------------------------------------
(* PhpWorkQueueThreadStart.                                                *)

\* The head of the loop: nobody waits for work when the queue is deleted.
StartWait(w) ==
  /\ at[w] = "top"
  /\ GotoAt(w, IF Terminating THEN "end" ELSE "wait")
  /\ UNCHANGED <<queueVars, Semaphore, threadVars, lifeVars, pc, seen, item>>

\* A wait is satisfied as soon as the semaphore is signalled, and times out
\* only while it is not.
NtWaitForSingleObject(w) ==
  /\ at[w] = "wait"
  /\ \/ /\ Semaphore > 0
        /\ Semaphore' = Semaphore - 1
        /\ GotoAt(w, "woken")
     \/ Semaphore = 0 /\ GotoAt(w, "end") /\ UNCHANGED Semaphore
  /\ UNCHANGED <<queueVars, threadVars, lifeVars, pc, seen, item>>

CheckTerminating(w) ==
  /\ at[w] = "woken"
  /\ GotoAt(w, IF Terminating THEN "end" ELSE "dequeue")
  /\ UNCHANGED <<queueVars, Semaphore, threadVars, lifeVars, pc, seen, item>>

\* PhPulseCondition wakes the thread that waits longest, and only that one.
PhPulseCondition ==
  IF QueueEmpty = <<>> THEN UNCHANGED <<QueueEmpty, pc>>
  ELSE QueueEmpty' = Tail(QueueEmpty) /\ Goto(Head(QueueEmpty), "recheck")

\* RemoveHeadList.  "Make sure we got work": every signal before Terminating
\* stands for an item, so there is one.
Dequeue(w) ==
  /\ at[w] = "dequeue"
  /\ IF QueueList = <<>> THEN GotoAt(w, "top") /\ UNCHANGED <<QueueList, item>>
     ELSE /\ item' = [item EXCEPT ![w] = Head(QueueList)]
          /\ QueueList' = Tail(QueueList)
          /\ GotoAt(w, "exec")
  /\ IF QueueList' = <<>> THEN PhPulseCondition ELSE UNCHANGED <<QueueEmpty, pc>>
  /\ UNCHANGED <<BusyCount, Semaphore, threadVars, lifeVars, seen>>

\* The function of the item returns; the item is destroyed.
PhpExecuteWorkQueueItem(w) ==
  /\ at[w] = "exec" /\ pc[w] = "idle"
  /\ BusyCount' = BusyCount - 1
  /\ item' = [item EXCEPT ![w] = NULL]
  /\ GotoAt(w, "top")
  /\ UNCHANGED <<QueueList, QueueEmpty, Semaphore, threadVars, lifeVars, pc, seen>>

\* Mutant: the thread ends only when there are more than the minimum, even
\* if the queue is being deleted.
EndAboveMinimum(w) ==
  /\ at[w] = "end" /\ StateLock = NULL
  /\ IF CurrentThreads > MinimumThreads
     THEN CurrentThreads' = CurrentThreads - 1 /\ GotoAt(w, "release")
     ELSE GotoAt(w, "top") /\ UNCHANGED CurrentThreads
  /\ UNCHANGED <<queueVars, Semaphore, StateLock, refs, lifeVars, pc, seen, item>>

\* Mutant: the minimum is off by one.
EndBelowMinimum(w) ==
  /\ at[w] = "end" /\ StateLock = NULL
  /\ IF Terminating \/ CurrentThreads >= MinimumThreads
     THEN CurrentThreads' = CurrentThreads - 1 /\ GotoAt(w, "release")
     ELSE GotoAt(w, "top") /\ UNCHANGED CurrentThreads
  /\ UNCHANGED <<queueVars, Semaphore, StateLock, refs, lifeVars, pc, seen, item>>

\* A thread that got no work ends, unless the minimum would be left.
EndThread(w) ==
  /\ at[w] = "end" /\ StateLock = NULL
  /\ IF Terminating \/ CurrentThreads > MinimumThreads
     THEN CurrentThreads' = CurrentThreads - 1 /\ GotoAt(w, "release")
     ELSE GotoAt(w, "top") /\ UNCHANGED CurrentThreads
  /\ UNCHANGED <<queueVars, Semaphore, StateLock, refs, lifeVars, pc, seen, item>>

PhReleaseRundownProtection(w) ==
  /\ at[w] = "release"
  /\ refs' = refs - 1
  /\ GotoAt(w, "none")
  /\ UNCHANGED <<queueVars, Semaphore, CurrentThreads, StateLock, lifeVars, pc, seen, item>>

WorkerStep(w) ==
  \/ StartWait(w) \/ NtWaitForSingleObject(w) \/ CheckTerminating(w) \/ Dequeue(w)
  \/ EndThread(w) \/ PhReleaseRundownProtection(w)
-----------------------------------------------------------------------------
(* PhWaitForWorkQueue and PhDeleteWorkQueue.                               *)

\* Waits as long as the list is not empty.
PhWaitForWorkQueue(t) ==
  /\ \/ t \in Callers /\ MayCall(t)
     \/ pc[t] = "recheck"
  /\ IF QueueList = <<>> THEN Goto(t, "idle") /\ UNCHANGED QueueEmpty
     ELSE Goto(t, "waiting") /\ QueueEmpty' = Append(QueueEmpty, t)
  /\ UNCHANGED <<QueueList, BusyCount, Semaphore, threadVars, lifeVars, seen, at, item>>

\* The owner deletes the queue when no other thread of the program uses it.
\* It tells the workers, wakes those it counts, and waits for all to leave.
Terminate ==
  /\ life = "open" /\ \A c \in Callers : pc[c] = "idle"
  /\ Terminating' = TRUE
  /\ life' = "terminating"
  /\ UNCHANGED <<queueVars, Semaphore, threadVars, rundown, pc, seen, at, item>>

WakeWorkers ==
  /\ life = "terminating"
  /\ IF Semaphore = NULL THEN UNCHANGED Semaphore ELSE Signals(CurrentThreads)
  /\ life' = "signalled"
  /\ UNCHANGED <<queueVars, threadVars, Terminating, rundown, pc, seen, at, item>>

PhWaitForRundownProtection ==
  /\ life = "signalled"
  /\ rundown' = TRUE
  /\ life' = "rundown"
  /\ UNCHANGED <<queueVars, Semaphore, threadVars, Terminating, pc, seen, at, item>>

\* The items that are left are freed, and the semaphore is closed.
FreeQueue ==
  /\ life = "rundown" /\ refs = 0
  /\ QueueList' = <<>>
  /\ Semaphore' = NULL
  /\ life' = "deleted"
  /\ UNCHANGED <<QueueEmpty, BusyCount, threadVars, Terminating, rundown, pc, seen, at, item>>

\* A queue is initialized where the old one was.
PhInitializeWorkQueue ==
  /\ life = "deleted"
  /\ life' = "open"
  /\ QueueList' = Initialized.QueueList /\ Semaphore' = Initialized.Semaphore
  /\ CurrentThreads' = Initialized.CurrentThreads /\ BusyCount' = Initialized.BusyCount
  /\ Terminating' = Initialized.Terminating
  /\ refs' = Initialized.refs /\ rundown' = Initialized.rundown
  /\ UNCHANGED <<QueueEmpty, StateLock, pc, seen, at, item>>

DeleteStep == WakeWorkers \/ PhWaitForRundownProtection \/ FreeQueue
-----------------------------------------------------------------------------
Next ==
  \/ \E t \in Callers \cup Workers :
       PhQueueItemWorkQueueEx(t) \/ QueueStep(t) \/ PhWaitForWorkQueue(t)
  \/ \E w \in Workers : WorkerStep(w) \/ PhpExecuteWorkQueueItem(w)
  \/ Terminate \/ DeleteStep \/ PhInitializeWorkQueue

Spec == Init /\ [][Next]_vars

\* Threads inside a call or a worker's loop run on, waits end by a signal or
\* by NoWorkTimeout, and the function of every item returns.
FairSpec ==
  /\ Spec
  /\ \A t \in Callers \cup Workers : WF_vars(QueueStep(t))
  /\ \A w \in Workers : WF_vars(WorkerStep(w)) /\ SF_vars(PhpExecuteWorkQueueItem(w))
  /\ WF_vars(DeleteStep)
-----------------------------------------------------------------------------
(* Properties.                                                             *)

\* An item queued while there is a worker thread is executed or, when the
\* queue is deleted, freed, if MinimumThreads is not 0: a worker whose wait
\* timed out before the item came does not leave it behind.
ItemsRun ==
  \A i \in Items :
    i \in ToSet(QueueList) /\ CurrentThreads > 0 ~> i \notin ToSet(QueueList)

\* PhDeleteWorkQueue returns, although threads may be created while it is
\* counting the ones to wake.
DeleteEnds == life = "terminating" ~> life = "deleted"

\* No thread looks at a queue that was deleted: neither a worker nor the
\* function of an item that queues another one.
NotUsedAfterDelete ==
  life = "deleted" =>
    /\ \A w \in Workers : at[w] = "none" /\ pc[w] = "idle"
    /\ StateLock = NULL /\ CurrentThreads = 0
=============================================================================
