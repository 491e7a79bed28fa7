-------------------------- MODULE WorkQueueProofs --------------------------
(***************************************************************************)
(* A deleted work queue is not used any more, for any number of threads,   *)
(* workers and items (workqueue.c).  The rundown protection counts the     *)
(* workers that have not left, and a worker is in a call only while it     *)
(* executes an item; the owner deletes the queue when no other thread uses *)
(* it, and none of them waits in a list that a worker would pulse.         *)
(***************************************************************************)
EXTENDS WorkQueue, FiniteSetTheorems, TLAPS

Points ==
  {"idle", "signal", "busy", "compare", "room", "create", "count", "waiting", "recheck"}
LoopPoints == {"none", "top", "wait", "woken", "dequeue", "exec", "end", "release"}

\* The workers that are not at one of the points out.
Outside(f, out) == {w \in Workers : f[w] \notin out}

QueueTypes ==
  /\ pc \in [Callers \cup Workers -> Points]
  /\ at \in [Workers -> LoopPoints]
  /\ QueueEmpty \in Seq(Callers)
  /\ CurrentThreads \in Int /\ refs \in Int
  /\ life \in {"open", "terminating", "signalled", "rundown", "deleted"}
  /\ StateLock \in Callers \cup Workers \cup {NULL}

\* A user of the rundown protection is a worker that has not left.
UsersCounted == refs = Cardinality(Outside(at, {"none"}))

\* The threads are those that have not ended, but for one that was started
\* and is not counted yet.
ThreadsCounted ==
  CurrentThreads = Cardinality(Outside(at, {"none", "release"}))
                     - (IF StateLock = NULL THEN 0 ELSE 1)

\* A worker uses the queue only for the item it executes, and never waits for
\* the list to become empty.
CallsFromItems ==
  \A w \in Workers :
    /\ pc[w] # "idle" => at[w] = "exec"
    /\ pc[w] \notin {"waiting", "recheck"}

\* StateLock is held across a step only to count a new thread.
HeldToCount == \A t \in Callers \cup Workers : pc[t] = "count" <=> StateLock = t

\* The list of a condition variable holds every waiting thread once.
WaitersQueued ==
  /\ \A i \in 1..Len(QueueEmpty) : pc[QueueEmpty[i]] = "waiting"
  /\ \A i, j \in 1..Len(QueueEmpty) : QueueEmpty[i] = QueueEmpty[j] => i = j

\* The owner deletes the queue when no thread of the program uses it.
OwnedByDeleter == life # "open" => \A c \in Callers : pc[c] = "idle"

\* New threads are refused before the wait for the users begins.
RundownOrder ==
  /\ life \in {"rundown", "deleted"} => rundown
  /\ life = "deleted" => refs = 0

WorkQueueInv ==
  /\ QueueTypes /\ UsersCounted /\ ThreadsCounted /\ CallsFromItems
  /\ HeldToCount /\ WaitersQueued /\ OwnedByDeleter /\ RundownOrder
-----------------------------------------------------------------------------
(* The workers that are counted, and the steps that change one worker.     *)

(* A worker that moves from one point of its loop to another is counted as *)
(* the two points are.                                                     *)
LEMMA Moved ==
  ASSUME NEW f \in [Workers -> LoopPoints], NEW g \in [Workers -> LoopPoints],
         NEW w \in Workers, \A v \in Workers \ {w} : g[v] = f[v], NEW out
  PROVE  /\ Cardinality(Outside(f, out)) \in Nat
         /\ (g[w] \in out <=> f[w] \in out) =>
              Cardinality(Outside(g, out)) = Cardinality(Outside(f, out))
         /\ g[w] \notin out /\ f[w] \in out =>
              Cardinality(Outside(g, out)) = Cardinality(Outside(f, out)) + 1
         /\ g[w] \in out /\ f[w] \notin out =>
              Cardinality(Outside(g, out)) = Cardinality(Outside(f, out)) - 1
PROOF
<1> DEFINE S == Outside(f, out)
           T == Outside(g, out)
           R == S \ {w}
<1>1. S \in SUBSET Workers
  BY DEF Outside
<1>2. IsFiniteSet(S)
  BY <1>1, FS_Subset, WorkQueueAssumption DEF WorkQueueAssumption
<1>3. Cardinality(S) \in Nat
  BY <1>2, FS_CardinalityType
<1>4. /\ IsFiniteSet(R)
      /\ Cardinality(R) = Cardinality(S) - (IF f[w] \in out THEN 0 ELSE 1)
  <2>1. w \in S <=> f[w] \notin out
    BY DEF Outside
  <2>2. /\ IsFiniteSet(R)
        /\ Cardinality(R) = IF w \in S THEN Cardinality(S) - 1 ELSE Cardinality(S)
    BY <1>2, FS_RemoveElement
  <2> QED BY <1>3, <2>1, <2>2
<1>5. T = IF g[w] \in out THEN R ELSE R \cup {w}
  BY DEF Outside
<1>6. Cardinality(T) = Cardinality(R) + (IF g[w] \in out THEN 0 ELSE 1)
  <2>1. Cardinality(R \cup {w}) = Cardinality(R) + 1
    BY <1>4, FS_AddElement
  <2>2. Cardinality(R) \in Nat
    BY <1>4, FS_CardinalityType
  <2> QED BY <1>5, <2>1, <2>2
<1>7. Cardinality(R) \in Nat
  BY <1>4, FS_CardinalityType
<1> HIDE DEF S, T, R
<1>8. /\ Cardinality(S) \in Nat
      /\ Cardinality(T) = Cardinality(S)
           + (IF g[w] \in out THEN 0 ELSE 1) - (IF f[w] \in out THEN 0 ELSE 1)
  BY <1>3, <1>4, <1>6, <1>7
<1> QED BY <1>8 DEF S, T

(* A step of a call that leaves the workers, the counts and the waiting    *)
(* threads alone.                                                          *)
LEMMA CallStep ==
  ASSUME WorkQueueInv, NEW t \in Callers \cup Workers, NEW l \in Points,
         pc[t] \notin {"waiting", "count"}, l \notin {"waiting", "recheck", "count"},
         t \in Callers => life = "open", t \in Workers => at[t] = "exec",
         pc' = [pc EXCEPT ![t] = l], UNCHANGED <<QueueEmpty, threadVars, lifeVars, at>>
  PROVE  WorkQueueInv'
PROOF
<1> USE DEF WorkQueueInv, threadVars, lifeVars
<1>1. QueueTypes'
  BY DEF QueueTypes
<1>2. UsersCounted' /\ ThreadsCounted' /\ RundownOrder'
  BY DEF UsersCounted, ThreadsCounted, RundownOrder
<1>3. CallsFromItems'
  BY WorkQueueAssumption DEF CallsFromItems, QueueTypes, WorkQueueAssumption
<1>4. HeldToCount'
  BY DEF HeldToCount, QueueTypes
<1>5. WaitersQueued'
  <2>1. \A i \in 1..Len(QueueEmpty) : QueueEmpty[i] \in Callers
    BY DEF QueueTypes
  <2> QED BY <2>1 DEF WaitersQueued, QueueTypes
<1>6. OwnedByDeleter'
  BY WorkQueueAssumption DEF OwnedByDeleter, QueueTypes, WorkQueueAssumption
<1> QED BY <1>1, <1>2, <1>3, <1>4, <1>5, <1>6

(* A step of a worker's loop by which it neither comes nor goes, outside   *)
(* every call.                                                             *)
LEMMA LoopStep ==
  ASSUME WorkQueueInv, NEW w \in Workers, NEW l \in LoopPoints \ {"none", "release"},
         at[w] \notin {"none", "release"}, pc[w] = "idle",
         at' = [at EXCEPT ![w] = l], UNCHANGED <<QueueEmpty, threadVars, lifeVars, pc>>
  PROVE  WorkQueueInv'
PROOF
<1> USE DEF WorkQueueInv, threadVars, lifeVars
<1>1. QueueTypes'
  BY DEF QueueTypes
<1> DEFINE n(out) == Cardinality(Outside(at, out))
<1>2. at \in [Workers -> LoopPoints] /\ at' \in [Workers -> LoopPoints]
  BY <1>1 DEF QueueTypes
<1>3. at'[w] = l /\ \A v \in Workers \ {w} : at'[v] = at[v]
  BY <1>2
<1>4. \A out : l \notin out /\ at[w] \notin out => n(out)' = n(out)
  <2> SUFFICES ASSUME NEW out, l \notin out, at[w] \notin out
               PROVE  Outside(at, out)' = Outside(at, out)
    OBVIOUS
  <2> QED BY <1>3 DEF Outside
<1>5. UsersCounted'
  BY <1>4 DEF UsersCounted
<1>6. ThreadsCounted'
  BY <1>4 DEF ThreadsCounted
<1>7. CallsFromItems'
  BY DEF CallsFromItems, QueueTypes
<1>8. HeldToCount' /\ WaitersQueued' /\ OwnedByDeleter' /\ RundownOrder'
  BY DEF HeldToCount, WaitersQueued, OwnedByDeleter, RundownOrder
<1> QED BY <1>1, <1>5, <1>6, <1>7, <1>8

(* A step of the owner that changes neither the workers nor the calls, and *)
(* no count.                                                               *)
LEMMA OwnerStep ==
  ASSUME WorkQueueInv, UNCHANGED <<QueueEmpty, threadVars, pc, at>>,
         life' \in {"open", "terminating", "signalled", "rundown", "deleted"},
         OwnedByDeleter', RundownOrder'
  PROVE  WorkQueueInv'
PROOF
<1> USE DEF WorkQueueInv, threadVars
<1>1. QueueTypes' /\ UsersCounted' /\ ThreadsCounted' /\ CallsFromItems'
  BY DEF QueueTypes, UsersCounted, ThreadsCounted, CallsFromItems
<1>2. HeldToCount' /\ WaitersQueued'
  BY DEF HeldToCount, WaitersQueued
<1> QED BY <1>1, <1>2
-----------------------------------------------------------------------------
(* The steps of a call.                                                    *)

(* A call by a thread that is outside it: an item runs, or the queue is    *)
(* open.                                                                   *)
LEMMA InsideCall ==
  ASSUME WorkQueueInv, NEW t \in Callers \cup Workers, pc[t] # "idle"
  PROVE  /\ t \in Callers => life = "open"
         /\ t \in Workers => at[t] = "exec"
PROOF
  BY DEF WorkQueueInv, OwnedByDeleter, CallsFromItems

(* A new worker is protected and not counted yet.                          *)
LEMMA CreateStep ==
  ASSUME WorkQueueInv, NEW t \in Callers \cup Workers, PhpCreateWorkQueueThread(t)
  PROVE  WorkQueueInv'
PROOF
<1> USE DEF PhpCreateWorkQueueThread, Goto, GotoAt, queueVars, lifeVars, WorkQueueInv
<1>1. CASE Goto(t, "idle") /\ UNCHANGED <<StateLock, refs, at>>
  BY <1>1, InsideCall, CallStep DEF threadVars, Points
<1>2. CASE /\ CurrentThreads < MaximumThreads /\ ~rundown
           /\ refs' = refs + 1
           /\ \E w \in {x \in Workers : at[x] = "none"} : GotoAt(w, "top")
           /\ StateLock' = t
           /\ Goto(t, "count")
  <2>1. PICK w \in Workers : at[w] = "none" /\ at' = [at EXCEPT ![w] = "top"]
    BY <1>2
  <2>2. pc' = [pc EXCEPT ![t] = "count"] /\ StateLock = NULL /\ pc[t] = "create"
    BY <1>2
  <2>3. QueueTypes'
    BY <1>2, <2>1, <2>2 DEF QueueTypes, Points, LoopPoints
  <2> DEFINE n(out) == Cardinality(Outside(at, out))
  <2>4. \A out \in {{"none"}, {"none", "release"}} : n(out) \in Nat /\ n(out)' = n(out) + 1
    <3> SUFFICES ASSUME NEW out \in {{"none"}, {"none", "release"}}
                 PROVE  n(out) \in Nat /\ n(out)' = n(out) + 1
      OBVIOUS
    <3>1. at \in [Workers -> LoopPoints] /\ at' \in [Workers -> LoopPoints]
      BY <2>3 DEF QueueTypes
    <3>2. "top" \notin out /\ at[w] \in out
      BY <2>1
    <3>3. at'[w] = "top" /\ \A v \in Workers \ {w} : at'[v] = at[v]
      BY <2>1, <3>1
    <3> QED BY <3>1, <3>2, <3>3, Moved
  <2>5. UsersCounted'
    BY <1>2, <2>4 DEF UsersCounted
  <2>6. ThreadsCounted'
    <3>1. t # NULL
      BY WorkQueueAssumption DEF WorkQueueAssumption
    <3>2. /\ CurrentThreads = n({"none", "release"}) /\ CurrentThreads' = CurrentThreads
          /\ n({"none", "release"})' = n({"none", "release"}) + 1
          /\ n({"none", "release"}) \in Nat
      BY <2>2, <2>4, <1>2 DEF ThreadsCounted, threadVars
    <3>3. CurrentThreads' = n({"none", "release"})' - 1
      <4> HIDE DEF n
      <4> QED BY <3>2
    <3> QED BY <1>2, <3>1, <3>3 DEF ThreadsCounted
  <2>7. CallsFromItems'
    BY <2>1, <2>2 DEF CallsFromItems, QueueTypes
  <2>8. HeldToCount'
    <3>1. \A x \in Callers \cup Workers : pc[x] # "count"
      BY <2>2, WorkQueueAssumption DEF HeldToCount, WorkQueueAssumption
    <3> QED BY <1>2, <2>2, <3>1 DEF HeldToCount, QueueTypes
  <2>9. WaitersQueued'
    <3>1. \A i \in 1..Len(QueueEmpty) : QueueEmpty[i] \in Callers
      BY DEF QueueTypes
    <3> QED BY <1>2, <2>2, <3>1 DEF WaitersQueued, QueueTypes
  <2>10. OwnedByDeleter' /\ RundownOrder'
    BY <1>2, <2>2 DEF OwnedByDeleter, RundownOrder, QueueTypes
  <2> QED BY <2>3, <2>5, <2>6, <2>7, <2>8, <2>9, <2>10
<1> QED BY <1>1, <1>2

(* The thread that was started is counted, and StateLock released.         *)
LEMMA CountStep ==
  ASSUME WorkQueueInv, NEW t \in Callers \cup Workers, CountThread(t)
  PROVE  WorkQueueInv'
PROOF
<1> USE DEF CountThread, Goto, queueVars, lifeVars, WorkQueueInv
<1>1. pc' = [pc EXCEPT ![t] = "idle"] /\ StateLock = t /\ StateLock' = NULL /\ t # NULL
  BY WorkQueueAssumption DEF HeldToCount, WorkQueueAssumption
<1>2. QueueTypes'
  BY DEF QueueTypes, Points
<1>3. UsersCounted' /\ RundownOrder'
  BY DEF UsersCounted, RundownOrder
<1>4. ThreadsCounted'
  <2> DEFINE n == Cardinality(Outside(at, {"none", "release"}))
  <2>1. CurrentThreads = n - 1
    BY <1>1 DEF ThreadsCounted
  <2>2. n' = n
    BY DEF Outside
  <2>3. n \in Int
    <3>1. Outside(at, {"none", "release"}) \in SUBSET Workers
      BY DEF Outside
    <3> QED BY <3>1, FS_Subset, FS_CardinalityType, WorkQueueAssumption
         DEF WorkQueueAssumption
  <2>4. CurrentThreads' = n
    <3> HIDE DEF n
    <3> QED BY <2>1, <2>3
  <2> QED BY <1>1, <2>2, <2>4 DEF ThreadsCounted
<1>5. CallsFromItems'
  BY <1>1 DEF CallsFromItems, QueueTypes
<1>6. HeldToCount'
  BY <1>1, WorkQueueAssumption DEF HeldToCount, QueueTypes, WorkQueueAssumption
<1>7. WaitersQueued'
  <2>1. \A i \in 1..Len(QueueEmpty) : QueueEmpty[i] \in Callers
    BY DEF QueueTypes
  <2> QED BY <1>1, <2>1 DEF WaitersQueued, QueueTypes
<1>8. OwnedByDeleter'
  BY <1>1 DEF OwnedByDeleter, QueueTypes
<1> QED BY <1>2, <1>3, <1>4, <1>5, <1>6, <1>7, <1>8

(* A thread that finds items in the list joins those that wait for it to   *)
(* become empty.                                                           *)
LEMMA WaitStep ==
  ASSUME WorkQueueInv, NEW t \in Callers \cup Workers, PhWaitForWorkQueue(t)
  PROVE  WorkQueueInv'
PROOF
<1> USE DEF PhWaitForWorkQueue, Goto, lifeVars, WorkQueueInv
<1>1. /\ t \in Callers => life = "open"
      /\ t \in Workers => at[t] = "exec"
      /\ pc[t] \in {"idle", "recheck"}
  BY InsideCall, WorkQueueAssumption DEF MayCall, WorkQueueAssumption
<1>2. CASE QueueList = <<>>
  BY <1>1, <1>2, CallStep DEF Points
<1>3. CASE QueueList # <<>>
  <2>1. pc' = [pc EXCEPT ![t] = "waiting"] /\ QueueEmpty' = Append(QueueEmpty, t)
    BY <1>3
  <2>2. t \in Callers
    BY DEF CallsFromItems
  <2>3. QueueTypes'
    BY <2>1, <2>2 DEF QueueTypes, Points, threadVars
  <2>4. UsersCounted' /\ ThreadsCounted' /\ RundownOrder'
    BY DEF UsersCounted, ThreadsCounted, RundownOrder, threadVars
  <2>5. CallsFromItems'
    BY <1>1, <2>1, <2>2, WorkQueueAssumption
    DEF CallsFromItems, QueueTypes, WorkQueueAssumption
  <2>6. HeldToCount'
    BY <1>1, <2>1 DEF HeldToCount, QueueTypes, threadVars
  <2>7. WaitersQueued'
    <3>1. \A i \in 1..Len(QueueEmpty) :
            /\ QueueEmpty[i] \in Callers /\ pc[QueueEmpty[i]] = "waiting"
            /\ QueueEmpty[i] # t
      BY <1>1 DEF QueueTypes, WaitersQueued
    <3>2. /\ Len(QueueEmpty') = Len(QueueEmpty) + 1 /\ Len(QueueEmpty) \in Nat
          /\ QueueEmpty'[Len(QueueEmpty) + 1] = t
          /\ \A i \in 1..Len(QueueEmpty) : QueueEmpty'[i] = QueueEmpty[i]
      BY <2>1, <2>2 DEF QueueTypes
    <3> DEFINE n == Len(QueueEmpty)
    <3>3. \A i \in 1..Len(QueueEmpty') : i \in 1..n \/ i = n + 1
      <4> HIDE DEF n
      <4> QED BY <3>2 DEF n
    <3>4. \A i \in 1..Len(QueueEmpty') : pc'[QueueEmpty'[i]] = "waiting"
      BY <2>1, <3>1, <3>2, <3>3 DEF QueueTypes
    <3>5. ASSUME NEW i \in 1..Len(QueueEmpty'), NEW j \in 1..Len(QueueEmpty'),
                 QueueEmpty'[i] = QueueEmpty'[j]
          PROVE  i = j
      <4>1. CASE i \in 1..n /\ j \in 1..n
        BY <3>2, <3>5, <4>1 DEF WaitersQueued
      <4>2. CASE i \notin 1..n \/ j \notin 1..n
        BY <3>1, <3>2, <3>3, <3>5, <4>2
      <4> QED BY <4>1, <4>2
    <3> QED BY <3>4, <3>5 DEF WaitersQueued
  <2>8. OwnedByDeleter'
    BY <1>1, <2>1, <2>2 DEF OwnedByDeleter
  <2> QED BY <2>3, <2>4, <2>5, <2>6, <2>7, <2>8
<1> QED BY <1>2, <1>3
-----------------------------------------------------------------------------
(* The steps of a worker's loop.                                           *)

(* A worker that is not executing an item makes no call.                   *)
LEMMA OutsideCall ==
  ASSUME WorkQueueInv, NEW w \in Workers, at[w] # "exec"
  PROVE  pc[w] = "idle"
PROOF
  BY DEF WorkQueueInv, CallsFromItems

(* The item is taken; the thread that waits longest is woken when it was   *)
(* the last one.                                                           *)
LEMMA DequeueStep ==
  ASSUME WorkQueueInv, NEW w \in Workers, Dequeue(w)
  PROVE  WorkQueueInv'
PROOF
<1> USE DEF WorkQueueInv
<1>1. /\ at[w] = "dequeue" /\ pc[w] = "idle"
      /\ UNCHANGED <<threadVars, lifeVars>>
      /\ (PhPulseCondition \/ UNCHANGED <<QueueEmpty, pc>>)
  BY OutsideCall DEF Dequeue
<1>2. PICK l \in {"top", "exec"} : at' = [at EXCEPT ![w] = l]
  BY DEF Dequeue, GotoAt
<1>3. CASE UNCHANGED <<QueueEmpty, pc>>
  BY <1>1, <1>2, <1>3, LoopStep DEF LoopPoints
<1>4. CASE QueueEmpty # <<>> /\ PhPulseCondition
  <2> DEFINE t == Head(QueueEmpty)
             n == Len(QueueEmpty)
  <2>1. /\ pc' = [pc EXCEPT ![t] = "recheck"] /\ QueueEmpty' = Tail(QueueEmpty)
        /\ QueueEmpty \in Seq(Callers) /\ QueueEmpty # <<>>
    BY <1>4 DEF PhPulseCondition, Goto, QueueTypes
  <2>2. /\ t \in Callers /\ t = QueueEmpty[1] /\ n \in Nat \ {0}
        /\ Len(QueueEmpty') = n - 1
        /\ \A i \in 1..n - 1 : QueueEmpty'[i] = QueueEmpty[i + 1]
    BY <2>1
  <2>3. /\ pc[t] = "waiting"
        /\ \A i \in 1..n - 1 :
             /\ QueueEmpty[i + 1] \in Callers \ {t}
             /\ pc[QueueEmpty[i + 1]] = "waiting"
    BY <2>1, <2>2 DEF WaitersQueued
  <2>4. QueueTypes'
    <3>1. pc' \in [Callers \cup Workers -> Points]
      BY <2>1 DEF QueueTypes, Points
    <3>2. at' \in [Workers -> LoopPoints]
      BY <1>2 DEF QueueTypes, LoopPoints
    <3>3. QueueEmpty' \in Seq(Callers)
      BY <2>1
    <3> QED BY <1>1, <3>1, <3>2, <3>3 DEF QueueTypes, threadVars, lifeVars
  <2>5. \A out \in {{"none"}, {"none", "release"}} : Outside(at, out)' = Outside(at, out)
    <3> SUFFICES ASSUME NEW out, l \notin out, at[w] \notin out
                 PROVE  Outside(at, out)' = Outside(at, out)
      BY <1>1
    <3>1. at'[w] = l /\ \A v \in Workers \ {w} : at'[v] = at[v]
      BY <1>2 DEF QueueTypes
    <3> QED BY <3>1 DEF Outside
  <2>6. UsersCounted' /\ ThreadsCounted'
    BY <1>1, <2>5, SMTT(60) DEF UsersCounted, ThreadsCounted, threadVars
  <2>7. CallsFromItems'
    BY <1>1, <1>2, <2>1, <2>2, WorkQueueAssumption, ZenonT(60)
    DEF CallsFromItems, QueueTypes, WorkQueueAssumption
  <2>8. HeldToCount'
    BY <1>1, <2>1, <2>2, <2>3, ZenonT(60) DEF HeldToCount, QueueTypes, threadVars
  <2>9. WaitersQueued'
    <3>1. \A i \in 1..Len(QueueEmpty') : i \in 1..n - 1 /\ i \in Int
      BY <2>2
    <3>2. \A i \in 1..Len(QueueEmpty') : pc'[QueueEmpty'[i]] = "waiting"
      BY <2>1, <2>2, <2>3, <3>1 DEF QueueTypes
    <3>3. ASSUME NEW i \in 1..Len(QueueEmpty'), NEW j \in 1..Len(QueueEmpty'),
                 QueueEmpty'[i] = QueueEmpty'[j]
          PROVE  i = j
      <4>1. i + 1 \in 1..n /\ j + 1 \in 1..n
        <5> HIDE DEF n
        <5> QED BY <2>2, <3>1
      <4>2. QueueEmpty[i + 1] = QueueEmpty[j + 1]
        BY <2>2, <3>1, <3>3
      <4>3. i + 1 = j + 1
        BY <4>1, <4>2 DEF WaitersQueued
      <4> QED BY <3>1, <4>3
    <3> QED BY <3>2, <3>3 DEF WaitersQueued
  <2>10. OwnedByDeleter'
    <3>1. life = "open"
      BY <2>2, <2>3 DEF OwnedByDeleter
    <3> QED BY <1>1, <3>1 DEF OwnedByDeleter, lifeVars
  <2>11. RundownOrder'
    BY <1>1 DEF RundownOrder, threadVars, lifeVars
  <2> QED BY <2>4, <2>6, <2>7, <2>8, <2>9, <2>10, <2>11
<1> QED BY <1>1, <1>3, <1>4 DEF PhPulseCondition

(* A worker that ends is not counted any more, and still protected.        *)
LEMMA EndStep ==
  ASSUME WorkQueueInv, NEW w \in Workers, EndThread(w)
  PROVE  WorkQueueInv'
PROOF
<1> USE DEF EndThread, GotoAt, queueVars, lifeVars, WorkQueueInv
<1>1. pc[w] = "idle" /\ at[w] = "end"
  BY OutsideCall
<1>2. CASE GotoAt(w, "top") /\ UNCHANGED CurrentThreads
  BY <1>1, <1>2, LoopStep DEF threadVars, LoopPoints
<1>3. CASE CurrentThreads' = CurrentThreads - 1 /\ GotoAt(w, "release")
  <2>1. QueueTypes'
    BY <1>3 DEF QueueTypes, LoopPoints
  <2>2. /\ at \in [Workers -> LoopPoints] /\ at' \in [Workers -> LoopPoints]
        /\ at'[w] = "release" /\ \A v \in Workers \ {w} : at'[v] = at[v]
    BY <1>3, <2>1 DEF QueueTypes
  <2>3. UsersCounted'
    <3>1. Outside(at, {"none"})' = Outside(at, {"none"})
      BY <1>1, <2>2 DEF Outside
    <3> QED BY <3>1 DEF UsersCounted
  <2>4. ThreadsCounted'
    <3> DEFINE n == Cardinality(Outside(at, {"none", "release"}))
    <3>1. n \in Nat /\ n' = n - 1
      BY <1>1, <2>2, Moved
    <3>2. CurrentThreads = n /\ StateLock = NULL
      <4> HIDE DEF n
      <4> QED BY <3>1 DEF ThreadsCounted, n
    <3>3. CurrentThreads' = n'
      <4> HIDE DEF n
      <4> QED BY <1>3, <3>1, <3>2
    <3>4. n' \in Int
      <4> HIDE DEF n
      <4> QED BY <3>1
    <3> QED BY <3>2, <3>3, <3>4 DEF ThreadsCounted
  <2>5. CallsFromItems'
    BY <1>1, <2>2 DEF CallsFromItems
  <2>6. HeldToCount' /\ WaitersQueued' /\ OwnedByDeleter' /\ RundownOrder'
    BY DEF HeldToCount, WaitersQueued, OwnedByDeleter, RundownOrder
  <2> QED BY <2>1, <2>3, <2>4, <2>5, <2>6
<1> QED BY <1>2, <1>3

(* The last thing a worker does is to leave the rundown protection.        *)
LEMMA ReleaseStep ==
  ASSUME WorkQueueInv, NEW w \in Workers, PhReleaseRundownProtection(w)
  PROVE  WorkQueueInv'
PROOF
<1> USE DEF PhReleaseRundownProtection, GotoAt, queueVars, lifeVars, WorkQueueInv
<1>1. pc[w] = "idle" /\ at[w] = "release"
  BY OutsideCall
<1>2. QueueTypes'
  BY DEF QueueTypes, LoopPoints
<1>3. /\ at \in [Workers -> LoopPoints] /\ at' \in [Workers -> LoopPoints]
      /\ at'[w] = "none" /\ \A v \in Workers \ {w} : at'[v] = at[v]
  BY <1>2 DEF QueueTypes
<1>4. Cardinality(Outside(at, {"none"})) \in Nat
  BY <1>1, <1>3, Moved
<1>5. UsersCounted'
  <2> DEFINE n == Cardinality(Outside(at, {"none"}))
  <2>1. n' = n - 1
    <3> HIDE DEF PhReleaseRundownProtection
    <3> QED BY <1>1, <1>3, Moved
  <2> QED BY <2>1 DEF UsersCounted
<1>6. ThreadsCounted'
  <2>1. Outside(at, {"none", "release"})' = Outside(at, {"none", "release"})
    BY <1>1, <1>3 DEF Outside
  <2> QED BY <2>1 DEF ThreadsCounted
<1>7. CallsFromItems'
  BY <1>1, <1>3 DEF CallsFromItems
<1>8. RundownOrder'
  <2>1. w \in Outside(at, {"none"})
    BY <1>1 DEF Outside
  <2>2. refs # 0
    <3>1. IsFiniteSet(Outside(at, {"none"}))
      BY FS_Subset, WorkQueueAssumption DEF Outside, WorkQueueAssumption
    <3> QED BY <2>1, <3>1, FS_EmptySet DEF UsersCounted
  <2> QED BY <2>2 DEF RundownOrder
<1>9. HeldToCount' /\ WaitersQueued' /\ OwnedByDeleter'
  BY DEF HeldToCount, WaitersQueued, OwnedByDeleter
<1> QED BY <1>2, <1>5, <1>6, <1>7, <1>8, <1>9
-----------------------------------------------------------------------------
(* The owner's steps.                                                      *)

(* The owner runs the queue down when the rundown protection is active,    *)
(* and frees it when that has no users left.                               *)
LEMMA OwnerSteps ==
  ASSUME WorkQueueInv,
         Terminate \/ WakeWorkers \/ PhWaitForRundownProtection \/ FreeQueue
  PROVE  WorkQueueInv'
PROOF
<1> USE DEF WorkQueueInv, queueVars, threadVars
<1>1. CASE Terminate
  <2>1. OwnedByDeleter' /\ RundownOrder'
    BY <1>1 DEF Terminate, OwnedByDeleter, RundownOrder
  <2> QED BY <1>1, <2>1, OwnerStep DEF Terminate
<1>2. CASE WakeWorkers
  <2>1. OwnedByDeleter' /\ RundownOrder'
    BY <1>2 DEF WakeWorkers, OwnedByDeleter, RundownOrder
  <2> QED BY <1>2, <2>1, OwnerStep DEF WakeWorkers
<1>3. CASE PhWaitForRundownProtection
  <2>1. OwnedByDeleter' /\ RundownOrder'
    BY <1>3 DEF PhWaitForRundownProtection, OwnedByDeleter, RundownOrder
  <2> QED BY <1>3, <2>1, OwnerStep DEF PhWaitForRundownProtection
<1>4. CASE FreeQueue
  <2>1. OwnedByDeleter' /\ RundownOrder'
    BY <1>4 DEF FreeQueue, OwnedByDeleter, RundownOrder
  <2> QED BY <1>4, <2>1, OwnerStep DEF FreeQueue
<1> QED BY <1>1, <1>2, <1>3, <1>4

(* Nobody is left in a queue that is deleted: a thread that holds StateLock *)
(* is in a call, of the program or of an item that is executed.            *)
LEMMA NobodyLeft ==
  ASSUME WorkQueueInv, life = "deleted"
  PROVE  /\ \A w \in Workers : at[w] = "none" /\ pc[w] = "idle"
         /\ \A c \in Callers : pc[c] = "idle"
         /\ StateLock = NULL /\ CurrentThreads = 0
PROOF
<1> USE DEF WorkQueueInv
<1>1. \A c \in Callers : pc[c] = "idle"
  BY DEF OwnedByDeleter
<1>2. \A w \in Workers : at[w] = "none"
  <2>1. IsFiniteSet(Outside(at, {"none"}))
    BY FS_Subset, WorkQueueAssumption DEF Outside, WorkQueueAssumption
  <2>2. Outside(at, {"none"}) = {}
    BY <2>1, FS_EmptySet DEF RundownOrder, UsersCounted
  <2> QED BY <2>2 DEF Outside
<1>3. \A w \in Workers : pc[w] = "idle"
  BY <1>2 DEF CallsFromItems
<1>4. StateLock = NULL
  BY <1>1, <1>3 DEF HeldToCount, QueueTypes
<1>5. CurrentThreads = 0
  <2>1. Outside(at, {"none", "release"}) = {}
    BY <1>2 DEF Outside
  <2> QED BY <1>4, <2>1, FS_EmptySet DEF ThreadsCounted
<1> QED BY <1>1, <1>2, <1>3, <1>4, <1>5

(* A queue is initialized when nobody is in the one that was there.        *)
LEMMA InitializeStep ==
  ASSUME WorkQueueInv, PhInitializeWorkQueue
  PROVE  WorkQueueInv'
PROOF
<1> USE DEF PhInitializeWorkQueue, Initialized, WorkQueueInv
<1>1. /\ \A w \in Workers : at[w] = "none" /\ pc[w] = "idle"
      /\ StateLock = NULL /\ CurrentThreads = 0 /\ refs = 0
  BY NobodyLeft DEF RundownOrder
<1>2. QueueTypes' /\ UsersCounted' /\ ThreadsCounted'
  BY <1>1 DEF QueueTypes, UsersCounted, ThreadsCounted
<1>3. CallsFromItems' /\ HeldToCount' /\ WaitersQueued' /\ OwnedByDeleter' /\ RundownOrder'
  BY DEF CallsFromItems, HeldToCount, WaitersQueued, OwnedByDeleter, RundownOrder
<1> QED BY <1>2, <1>3
-----------------------------------------------------------------------------
(* The theorem.                                                            *)

(* A queue that was never used has no workers and no users.                *)
LEMMA WorkQueueInitially == Init => WorkQueueInv
PROOF
<1> SUFFICES ASSUME Init PROVE WorkQueueInv
  OBVIOUS
<1> USE DEF Init, Initialized, WorkQueueInv
<1>1. QueueTypes
  BY DEF QueueTypes, Points, LoopPoints
<1>2. Outside(at, {"none"}) = {} /\ Outside(at, {"none", "release"}) = {}
  BY DEF Outside
<1>3. UsersCounted /\ ThreadsCounted
  <2>1. CurrentThreads = 0 /\ refs = 0 /\ StateLock = NULL
    OBVIOUS
  <2> HIDE DEF Init
  <2> QED BY <1>2, <2>1, FS_EmptySet DEF UsersCounted, ThreadsCounted
<1>4. CallsFromItems /\ HeldToCount /\ WaitersQueued /\ OwnedByDeleter /\ RundownOrder
  BY WorkQueueAssumption
  DEF CallsFromItems, HeldToCount, WaitersQueued, OwnedByDeleter, RundownOrder,
      WorkQueueAssumption
<1> QED BY <1>1, <1>3, <1>4

(* Every step preserves the invariant.                                     *)
LEMMA WorkQueueNext == WorkQueueInv /\ [Next]_vars => WorkQueueInv'
PROOF
<1> SUFFICES ASSUME WorkQueueInv, [Next]_vars PROVE WorkQueueInv'
  OBVIOUS
<1>1. ASSUME NEW t \in Callers \cup Workers, PhQueueItemWorkQueueEx(t)
      PROVE  WorkQueueInv'
  <2>1. /\ pc[t] = "idle" /\ pc' = [pc EXCEPT ![t] = "signal"]
        /\ UNCHANGED <<QueueEmpty, threadVars, lifeVars, at>>
        /\ t \in Callers => life = "open"
        /\ t \in Workers => at[t] = "exec"
    BY <1>1 DEF PhQueueItemWorkQueueEx, MayCall, Enqueue, Goto
  <2> QED BY <2>1, CallStep DEF Points
<1>2. ASSUME NEW t \in Callers \cup Workers, QueueStep(t)
      PROVE  WorkQueueInv'
  <2>1. CASE Signal(t)
    <3>1. /\ pc[t] = "signal" /\ pc' = [pc EXCEPT ![t] = "busy"]
          /\ UNCHANGED <<QueueEmpty, threadVars, lifeVars, at>>
      BY <2>1 DEF Signal, Goto, queueVars
    <3> QED BY <3>1, InsideCall, CallStep DEF Points
  <2>0. CASE ReadBusy(t)
    <3>1. /\ pc[t] = "busy" /\ pc' = [pc EXCEPT ![t] = "compare"]
          /\ UNCHANGED <<QueueEmpty, threadVars, lifeVars, at>>
      BY <2>0 DEF ReadBusy, Goto, queueVars
    <3> QED BY <3>1, InsideCall, CallStep DEF Points
  <2>2. CASE CheckBusy(t)
    <3>1. PICK l \in {"room", "idle"} :
            /\ pc[t] = "compare" /\ pc' = [pc EXCEPT ![t] = l]
            /\ UNCHANGED <<QueueEmpty, threadVars, lifeVars, at>>
      BY <2>2 DEF CheckBusy, Goto, queueVars
    <3> QED BY <3>1, InsideCall, CallStep DEF Points
  <2>3. CASE CheckRoom(t)
    <3>1. PICK l \in {"create", "idle"} :
            /\ pc[t] = "room" /\ pc' = [pc EXCEPT ![t] = l]
            /\ UNCHANGED <<QueueEmpty, threadVars, lifeVars, at>>
      BY <2>3 DEF CheckRoom, Goto, queueVars
    <3> QED BY <3>1, InsideCall, CallStep DEF Points
  <2> QED BY <1>2, <2>0, <2>1, <2>2, <2>3, CreateStep, CountStep DEF QueueStep
<1>3. ASSUME NEW t \in Callers \cup Workers, PhWaitForWorkQueue(t)
      PROVE  WorkQueueInv'
  BY <1>3, WaitStep
<1>4. ASSUME NEW w \in Workers, WorkerStep(w) \/ PhpExecuteWorkQueueItem(w)
      PROVE  WorkQueueInv'
  <2>1. ASSUME StartWait(w) \/ NtWaitForSingleObject(w) \/ CheckTerminating(w)
                 \/ PhpExecuteWorkQueueItem(w)
        PROVE  WorkQueueInv'
    <3>1. /\ at[w] \in {"top", "wait", "woken", "exec"} /\ pc[w] = "idle"
          /\ UNCHANGED <<QueueEmpty, threadVars, lifeVars, pc>>
      BY <2>1, OutsideCall DEF StartWait, NtWaitForSingleObject, CheckTerminating,
                               PhpExecuteWorkQueueItem, queueVars
    <3>2. PICK l \in {"top", "wait", "woken", "dequeue", "end"} :
            at' = [at EXCEPT ![w] = l]
      BY <2>1 DEF StartWait, NtWaitForSingleObject, CheckTerminating,
                  PhpExecuteWorkQueueItem, GotoAt
    <3> QED BY <3>1, <3>2, LoopStep DEF LoopPoints
  <2> QED BY <1>4, <2>1, DequeueStep, EndStep, ReleaseStep DEF WorkerStep
<1>5. CASE Terminate \/ DeleteStep
  BY <1>5, OwnerSteps DEF DeleteStep
<1>6. CASE PhInitializeWorkQueue
  BY <1>6, InitializeStep
<1>7. CASE UNCHANGED vars
  <2>1. OwnedByDeleter' /\ RundownOrder' /\ life' = life
    BY <1>7 DEF vars, queueVars, threadVars, lifeVars, OwnedByDeleter, RundownOrder,
                WorkQueueInv
  <2> QED BY <1>7, <2>1, OwnerStep
       DEF vars, queueVars, threadVars, lifeVars, QueueTypes, WorkQueueInv
<1> QED BY <1>1, <1>2, <1>3, <1>4, <1>5, <1>6, <1>7 DEF Next

(* The invariant of the work queue: its rundown protection and its counts  *)
(* stand for workers, and its owner for all threads of the program.        *)
THEOREM WorkQueueInvariance == Spec => []WorkQueueInv
PROOF
  BY WorkQueueInitially, WorkQueueNext, PTL DEF Spec

(* No worker is left in a queue that was deleted, no item that queues      *)
(* another one, and no thread counts: PhDeleteWorkQueue (workqueue.c)      *)
(* frees nothing that is still used.                                       *)
THEOREM WorkQueueGone == Spec => []NotUsedAfterDelete
PROOF
<1>1. WorkQueueInv => NotUsedAfterDelete
  BY NobodyLeft DEF NotUsedAfterDelete
<1> QED BY <1>1, WorkQueueInvariance, PTL
=============================================================================
