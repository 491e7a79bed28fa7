---------------------------- MODULE DeferDelete ----------------------------
(***************************************************************************)
(* Deferred deletion of reference-counted objects (phlib/ref.c) on the     *)
(* global work queue: the thread that drops the last reference pushes the  *)
(* object on a list, and a work item frees everything on the list.         *)
(***************************************************************************)
EXTENDS WorkQueue

CONSTANTS Objects

VARIABLES
  DeferDeleteList,   \* PhObjectDeferDeleteListHead
  obj,               \* the object a thread is deleting, or NULL
  oldFirstEntry      \* whether the list looked non-empty to the thread

deferVars == <<DeferDeleteList, obj, oldFirstEntry>>
allVars == <<vars, deferVars>>

DeferInit ==
  /\ Init
  /\ DeferDeleteList = {}
  /\ obj = [c \in Callers |-> NULL]
  /\ oldFirstEntry = [c \in Callers |-> FALSE]

\* Objects that are neither on the list nor on their way to it: alive, or
\* allocated again at the same address.
Alive == Objects \ (DeferDeleteList \cup {obj[c] : c \in Callers})

\* PhDereferenceObjectEx with DeferDelete drops the last reference, and
\* PhpDeferDeleteObject looks whether the list is empty ...
PhpDeferDeleteObject(c) ==
  /\ pc[c] = "idle"
  /\ \E o \in Alive : obj' = [obj EXCEPT ![c] = o]
  /\ oldFirstEntry' = [oldFirstEntry EXCEPT ![c] = DeferDeleteList # {}]
  /\ Goto(c, "push")
  /\ UNCHANGED <<DeferDeleteList, queueVars, Semaphore, threadVars, lifeVars, seen,
                 at, item>>

\* ... pushes the object ...
RtlInterlockedPushEntrySList(c) ==
  /\ pc[c] = "push"
  /\ DeferDeleteList' = DeferDeleteList \cup {obj[c]}
  /\ obj' = [obj EXCEPT ![c] = NULL]
  /\ Goto(c, IF oldFirstEntry[c] THEN "idle" ELSE "queue")
  /\ UNCHANGED <<oldFirstEntry, queueVars, Semaphore, threadVars, lifeVars, seen,
                 at, item>>

\* ... and queues a work item if the list was empty.
QueueRoutine(c) ==
  /\ pc[c] = "queue"
  /\ Enqueue(c)
  /\ UNCHANGED deferVars

\* The work item takes the list and frees its objects.
PhpDeferDeleteObjectRoutine(w) ==
  /\ PhpExecuteWorkQueueItem(w)
  /\ DeferDeleteList' = {}
  /\ UNCHANGED <<obj, oldFirstEntry>>

DeferNext ==
  \/ \E c \in Callers :
       PhpDeferDeleteObject(c) \/ RtlInterlockedPushEntrySList(c) \/ QueueRoutine(c)
  \/ \E w \in Workers : PhpDeferDeleteObjectRoutine(w)
  \/ /\ \/ \E c \in Callers : QueueStep(c)
        \/ \E w \in Workers : WorkerStep(w)
     /\ UNCHANGED deferVars

DeferSpec == DeferInit /\ [][DeferNext]_allVars
-----------------------------------------------------------------------------
\* "Was the to-free list empty before? If so, we need to queue a work item":
\* whenever there are objects to free, a work item that will free them is
\* queued or running, or somebody is about to queue it.
ObjectsHaveWork ==
  DeferDeleteList # {} =>
    \/ QueueList # <<>>
    \/ \E w \in Workers : at[w] = "exec"
    \/ \E c \in Callers : pc[c] = "queue"
=============================================================================
