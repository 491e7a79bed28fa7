----------------------------- MODULE QueuedLock -----------------------------
(***************************************************************************)
(* The queued lock of phlib (queuedlock.c, queuedlock.h), at the grain of  *)
(* its interlocked operations.  The whole lock is one word: flags and a    *)
(* count of shared owners, or flags and the head of a chain of wait blocks *)
(* that live on the stacks of the waiting threads.  A thread waits in one  *)
(* block at a time, so a block is named by its thread.                     *)
(*                                                                         *)
(* Next points to the block pushed before, Previous (set by a walk along   *)
(* the chain) to the one pushed after, Last to the oldest.  A walk is one  *)
(* step: meanwhile others may only push blocks in front of its start.      *)
(***************************************************************************)
EXTENDS Integers, Sequences, SequencesExt, FiniteSets

CONSTANTS Threads, NULL

ASSUME QueuedLockAssumption ==
  /\ IsFiniteSet(Threads) /\ Threads # {}
  /\ NULL \notin Threads \cup {"exclusive", "shared"}

VARIABLES
  Value,   \* the word of the lock
  blk,     \* the wait block of each thread
  pc,      \* where each thread is
  want,    \* the mode a thread is acquiring, NULL otherwise
  val,     \* the value of the lock each thread goes by
  cur      \* the block a thread is about to wake

vars == <<Value, blk, pc, want, val, cur>>

\* Owned, Waiters, Traversing, MultipleShared; the count of shared owners is
\* valid without waiters, the pointer to a block with them.
Free == [owned |-> FALSE, waiters |-> FALSE, trav |-> FALSE, multi |-> FALSE,
         shared |-> 0, block |-> NULL]

NoBlock == [Next |-> NULL, Previous |-> NULL, Last |-> NULL, SharedOwners |-> 0,
            Exclusive |-> FALSE, Spinning |-> FALSE]

Init ==
  /\ Value = Free
  /\ blk = [t \in Threads |-> NoBlock]
  /\ pc = [t \in Threads |-> "idle"]
  /\ want = [t \in Threads |-> NULL]
  /\ val = [t \in Threads |-> Free]
  /\ cur = [t \in Threads |-> NULL]

Goto(t, l) == pc' = [pc EXCEPT ![t] = l]
GoBy(t, v) == val' = [val EXCEPT ![t] = v]

\* _InterlockedCompareExchangePointer with the value the thread goes by:
\* success puts new there and leads to label l, where val is not used any
\* more; failure yields the current value and leads to label otherwise.
CompareExchange(t, new, l, otherwise) ==
  \/ Value = val[t] /\ Value' = new /\ Goto(t, l) /\ GoBy(t, Free)
  \/ Value # val[t] /\ GoBy(t, Value) /\ Goto(t, otherwise) /\ UNCHANGED Value

\* A thread that has finished optimizing or waking blocks on its own wait
\* block if it was acquiring, and returns if it was releasing.
After(t) == IF want[t] = NULL THEN "idle" ELSE "block"
-----------------------------------------------------------------------------
(* The chain.                                                              *)

\* A walk goes from block to block up to the first one with a Last pointer;
\* one without either pointer is gone.
Ends(x) == blk[x].Last # NULL \/ blk[x].Next = NULL

IsWalk(w, b) ==
  /\ Len(w) > 0 /\ w[1] = b
  /\ \A i \in 1 .. Len(w) - 1 : ~Ends(w[i]) /\ w[i + 1] = blk[w[i]].Next
  /\ Ends(w[Len(w)])

\* It comes to no block twice.
Walks == SeqOf(Threads, Cardinality(Threads))

\* The blocks from b up to the first one with a Last pointer.
Walk(b) == CHOOSE w \in Walks : IsWalk(w, b)

\* PhpFindLastQueuedWaitBlock
PhpFindLastQueuedWaitBlock(b) == blk[Last(Walk(b))].Last

\* The Previous pointers a walk from b sets.
Linked(b) ==
  LET w == Walk(b) IN
    [x \in Threads |->
       IF \E i \in 2 .. Len(w) : w[i] = x
       THEN [blk[x] EXCEPT !.Previous = w[(CHOOSE i \in 2 .. Len(w) : w[i] = x) - 1]]
       ELSE blk[x]]

\* PhpPushQueuedWaitBlock: the block as it is pushed on a lock of value v ...
PushedBlock(v, exclusive, t) ==
  [NoBlock EXCEPT
     !.Next = v.block,
     !.Last = IF v.waiters THEN NULL ELSE t,
     !.SharedOwners = IF exclusive /\ ~v.waiters THEN v.shared ELSE 0,
     !.Exclusive = exclusive,
     !.Spinning = TRUE]

\* ... and the value it leaves.  Only the first waiter finds shared owners.
PushedValue(v, exclusive, t) ==
  IF v.waiters THEN [v EXCEPT !.block = t, !.trav = TRUE]
  ELSE [Free EXCEPT !.owned = TRUE, !.waiters = TRUE, !.block = t,
                    !.multi = exclusive /\ v.shared > 1]

\* The pusher optimizes the list if nobody else was traversing it.  On
\* success it goes by the value it pushed while it optimizes; the caller
\* retries with the one it replaced, which only makes it read the lock again.
PhpPushQueuedWaitBlock(t) ==
  LET v == val[t]
      exclusive == want[t] = "exclusive"
      new == PushedValue(v, exclusive, t)
  IN  \/ /\ Value = v
         /\ Value' = new
         /\ blk' = [blk EXCEPT ![t] = PushedBlock(v, exclusive, t)]
         /\ IF v.waiters /\ ~v.trav THEN GoBy(t, new) /\ Goto(t, "optimize")
            ELSE GoBy(t, Free) /\ Goto(t, "block")
      \/ /\ Value # v
         /\ GoBy(t, Value)
         /\ UNCHANGED <<Value, blk, pc>>
-----------------------------------------------------------------------------
(* Acquiring.                                                              *)

\* PhAcquireQueuedLockExclusive and PhTryAcquireQueuedLockExclusive: one bit
\* test and set, which takes the lock past any waiters.
PhAcquireQueuedLockExclusive(t) ==
  /\ pc[t] = "idle"
  /\ IF Value.owned
     THEN Goto(t, "read") /\ want' = [want EXCEPT ![t] = "exclusive"] /\ UNCHANGED Value
     ELSE Goto(t, "exclusive") /\ Value' = [Value EXCEPT !.owned = TRUE] /\ UNCHANGED want
  /\ UNCHANGED <<blk, val, cur>>

\* PhAcquireQueuedLockShared: takes a lock that is free without waiters.
PhAcquireQueuedLockShared(t) ==
  /\ pc[t] = "idle"
  /\ IF Value # Free
     THEN Goto(t, "read") /\ want' = [want EXCEPT ![t] = "shared"] /\ UNCHANGED Value
     ELSE /\ Goto(t, "shared")
          /\ Value' = [Free EXCEPT !.owned = TRUE, !.shared = 1]
          /\ UNCHANGED want
  /\ UNCHANGED <<blk, val, cur>>

ReadValue(t) ==
  /\ pc[t] = "read"
  /\ GoBy(t, Value)
  /\ Goto(t, "try")
  /\ UNCHANGED <<Value, blk, want, cur>>

\* The lock was acquired: the caller holds it.
Acquired(t, new, holds) ==
  /\ CompareExchange(t, new, holds, "try")
  /\ want' = IF pc'[t] = holds THEN [want EXCEPT ![t] = NULL] ELSE want
  /\ UNCHANGED <<blk, cur>>

\* The loop of PhfAcquireQueuedLockExclusive.
PhfAcquireQueuedLockExclusive(t) ==
  /\ pc[t] = "try" /\ want[t] = "exclusive"
  /\ IF ~val[t].owned
     THEN Acquired(t, [val[t] EXCEPT !.owned = TRUE], "exclusive")
     ELSE PhpPushQueuedWaitBlock(t) /\ UNCHANGED <<want, cur>>

\* Mutant: an exclusive owner is not told from shared ones.
SharedPastOwner(t) ==
  LET v == val[t] IN
    /\ pc[t] = "try" /\ want[t] = "shared"
    /\ IF ~v.waiters
       THEN Acquired(t, [v EXCEPT !.shared = @ + 1, !.owned = TRUE], "shared")
       ELSE PhpPushQueuedWaitBlock(t) /\ UNCHANGED <<want, cur>>

\* The loop of PhfAcquireQueuedLockShared: nobody passes a waiter.
PhfAcquireQueuedLockShared(t) ==
  LET v == val[t] IN
    /\ pc[t] = "try" /\ want[t] = "shared"
    /\ IF ~v.waiters /\ (~v.owned \/ v.shared > 0)
       THEN Acquired(t, [v EXCEPT !.shared = @ + 1, !.owned = TRUE], "shared")
       ELSE PhpPushQueuedWaitBlock(t) /\ UNCHANGED <<want, cur>>

\* PhpBlockOnQueuedWaitBlock: spins while the flag is set, or clears it and
\* waits for the keyed event; a flag found cleared ends the wait.
PhpBlockOnQueuedWaitBlock(t) ==
  /\ pc[t] = "block"
  /\ \/ ~blk[t].Spinning /\ Goto(t, "read") /\ blk' = [blk EXCEPT ![t] = NoBlock]
     \/ /\ blk[t].Spinning
        /\ blk' = [blk EXCEPT ![t].Spinning = FALSE]
        /\ Goto(t, "keyed")
  /\ UNCHANGED <<Value, want, val, cur>>
-----------------------------------------------------------------------------
(* Optimizing the list and waking waiters.                                 *)

\* Mutant: the optimizer does not see that the lock was released.
OptimizeAnyway(t) ==
  /\ pc[t] = "optimize"
  /\ LET first == val[t].block IN
       blk' = [Linked(first) EXCEPT ![first].Last = PhpFindLastQueuedWaitBlock(first)]
  /\ Goto(t, "optimized")
  /\ UNCHANGED <<Value, want, val, cur>>

\* PhpOptimizeQueuedLockListEx: shortens the way to the last block, unless
\* the lock was released meanwhile.
PhpOptimizeQueuedLockListEx(t) ==
  /\ pc[t] = "optimize"
  /\ IF val[t].owned
     THEN LET first == val[t].block IN
            /\ blk' = [Linked(first) EXCEPT ![first].Last = PhpFindLastQueuedWaitBlock(first)]
            /\ Goto(t, "optimized")
     ELSE Goto(t, "wake") /\ UNCHANGED blk
  /\ UNCHANGED <<Value, want, val, cur>>

ClearTraversing(t) ==
  /\ pc[t] = "optimized"
  /\ CompareExchange(t, [val[t] EXCEPT !.trav = FALSE], After(t), "optimize")
  /\ UNCHANGED <<blk, want, cur>>

\* Mutant: the waiter that is woken stays the last one of the chain.
UnlinkKeepsLast(t) ==
  /\ pc[t] = "wake"
  /\ IF val[t].owned
     THEN /\ CompareExchange(t, [val[t] EXCEPT !.trav = FALSE], After(t), "wake")
          /\ UNCHANGED <<blk, cur>>
     ELSE LET first == val[t].block
              last == PhpFindLastQueuedWaitBlock(first)
              linked == Linked(first)
          IN  /\ cur' = [cur EXCEPT ![t] = last]
              /\ IF linked[last].Exclusive /\ linked[last].Previous # NULL
                 THEN /\ blk' = [linked EXCEPT ![last].Previous = NULL]
                      /\ Goto(t, "unlinked")
                 ELSE blk' = linked /\ Goto(t, "takeAll")
              /\ UNCHANGED <<Value, val>>
  /\ UNCHANGED want

\* PhpPrepareToWakeQueuedLock: nobody is woken while the lock is owned;
\* otherwise the oldest waiter, and if it is a shared one all the others.
PhpPrepareToWakeQueuedLock(t) ==
  /\ pc[t] = "wake"
  /\ IF val[t].owned
     THEN /\ CompareExchange(t, [val[t] EXCEPT !.trav = FALSE], After(t), "wake")
          /\ UNCHANGED <<blk, cur>>
     ELSE LET first == val[t].block
              last == PhpFindLastQueuedWaitBlock(first)
              linked == Linked(first)
              previous == linked[last].Previous
          IN  /\ cur' = [cur EXCEPT ![t] = last]
              /\ IF linked[last].Exclusive /\ previous # NULL
                 THEN /\ blk' = [linked EXCEPT ![first].Last = previous,
                                               ![last].Previous = NULL]
                      /\ Goto(t, "unlinked")
                 ELSE blk' = linked /\ Goto(t, "takeAll")
              /\ UNCHANGED <<Value, val>>
  /\ UNCHANGED want

\* One exclusive waiter was unlinked: the traversing bit is subtracted.
UnlinkOne(t) ==
  /\ pc[t] = "unlinked"
  /\ Value' = [Value EXCEPT !.trav = FALSE]
  /\ Goto(t, "unblock")
  /\ GoBy(t, Free)
  /\ UNCHANGED <<blk, want, cur>>

\* The whole chain is taken, if the lock was not changed.
TakeAll(t) ==
  /\ pc[t] = "takeAll"
  /\ CompareExchange(t, Free, "unblock", "wake")
  /\ UNCHANGED <<blk, want, cur>>

\* The next block to wake, if there is one.
Unblocked(t) == cur' = [cur EXCEPT ![t] = blk[cur[t]].Previous]

\* PhpUnblockQueuedWaitBlock: a waiter that still spins sees the flag ...
PhpUnblockQueuedWaitBlock(t) ==
  /\ pc[t] = "unblock"
  /\ IF blk[cur[t]].Spinning
     THEN /\ blk' = [blk EXCEPT ![cur[t]].Spinning = FALSE]
          /\ Unblocked(t)
          /\ Goto(t, IF blk[cur[t]].Previous = NULL THEN After(t) ELSE "unblock")
     ELSE Goto(t, "release") /\ UNCHANGED <<blk, cur>>
  /\ UNCHANGED <<Value, want, val>>

\* ... and one that does not is met at the keyed event.
NtReleaseKeyedEvent(t) ==
  /\ pc[t] = "release" /\ pc[cur[t]] = "keyed"
  /\ pc' = [pc EXCEPT ![cur[t]] = "read",
                      ![t] = IF blk[cur[t]].Previous = NULL THEN After(t) ELSE "unblock"]
  /\ Unblocked(t)
  /\ blk' = [blk EXCEPT ![cur[t]] = NoBlock]
  /\ UNCHANGED <<Value, want, val>>
-----------------------------------------------------------------------------
(* Releasing.                                                              *)

\* PhReleaseQueuedLockExclusive: the owned bit is subtracted; if there are
\* waiters nobody is traversing, they must be woken.
PhReleaseQueuedLockExclusive(t) ==
  /\ pc[t] = "exclusive"
  /\ Value' = [Value EXCEPT !.owned = FALSE]
  /\ IF Value.waiters /\ ~Value.trav
     THEN Goto(t, "wakeForRelease") /\ GoBy(t, Value')
     ELSE Goto(t, "idle") /\ UNCHANGED val
  /\ UNCHANGED <<blk, want, cur>>

\* PhfWakeForReleaseQueuedLock gives up if the lock has changed.
PhfWakeForReleaseQueuedLock(t) ==
  /\ pc[t] = "wakeForRelease"
  /\ IF Value = val[t]
     THEN /\ Value' = [val[t] EXCEPT !.trav = TRUE]
          /\ GoBy(t, Value') /\ Goto(t, "wake")
     ELSE Goto(t, "idle") /\ GoBy(t, Free) /\ UNCHANGED Value
  /\ UNCHANGED <<blk, want, cur>>

\* PhfReleaseQueuedLockExclusive, the variant that is not inlined.
PhfReleaseQueuedLockExclusive(t) ==
  LET v == val[t]  released == [v EXCEPT !.owned = FALSE] IN
    /\ \/ pc[t] = "exclusive" /\ GoBy(t, Value) /\ Goto(t, "releaseExclusive")
          /\ UNCHANGED Value
       \/ /\ pc[t] = "releaseExclusive" /\ Value = v
          /\ IF v.waiters /\ ~v.trav
             THEN /\ Value' = [released EXCEPT !.trav = TRUE]
                  /\ GoBy(t, Value') /\ Goto(t, "wake")
             ELSE Value' = released /\ Goto(t, "idle") /\ GoBy(t, Free)
       \/ /\ pc[t] = "releaseExclusive" /\ Value # v
          /\ GoBy(t, Value) /\ UNCHANGED <<Value, pc>>
    /\ UNCHANGED <<blk, want, cur>>

\* PhReleaseQueuedLockShared: the only owner of a lock without waiters.
PhReleaseQueuedLockShared(t) ==
  /\ pc[t] = "shared"
  /\ IF Value = [Free EXCEPT !.owned = TRUE, !.shared = 1]
     THEN Value' = Free /\ Goto(t, "idle") /\ UNCHANGED val
     ELSE GoBy(t, Value) /\ Goto(t, "releaseShared") /\ UNCHANGED Value
  /\ UNCHANGED <<blk, want, cur>>

\* PhfReleaseQueuedLockShared: without waiters the count is in the word,
\* with waiters it is in the oldest block.
PhfReleaseQueuedLockShared(t) ==
  LET v == val[t]
      last == PhpFindLastQueuedWaitBlock(v.block)
  IN  /\ pc[t] = "releaseShared"
      /\ \/ /\ ~v.waiters
            /\ CompareExchange(t, IF v.shared > 1 THEN [v EXCEPT !.shared = @ - 1] ELSE Free,
                               "idle", "releaseShared")
            /\ UNCHANGED blk
         \/ /\ v.waiters /\ ~v.multi
            /\ Goto(t, "lastShared") /\ UNCHANGED <<Value, val, blk>>
         \/ /\ v.waiters /\ v.multi
            /\ blk' = [blk EXCEPT ![last].SharedOwners = @ - 1]
            /\ IF blk[last].SharedOwners > 1 THEN Goto(t, "idle") /\ GoBy(t, Free)
               ELSE Goto(t, "lastShared") /\ UNCHANGED val
            /\ UNCHANGED Value
      /\ UNCHANGED <<want, cur>>

\* Mutant: the flag for several shared owners is left set.
ReleaseKeepsMultiple(t) ==
  LET v == val[t]  released == [v EXCEPT !.owned = FALSE] IN
    /\ pc[t] = "lastShared"
    /\ \/ /\ Value = v
          /\ IF v.trav
             THEN Value' = released /\ Goto(t, "idle") /\ GoBy(t, Free)
             ELSE /\ Value' = [released EXCEPT !.trav = TRUE]
                  /\ GoBy(t, Value') /\ Goto(t, "wake")
       \/ Value # v /\ GoBy(t, Value) /\ UNCHANGED <<Value, pc>>
    /\ UNCHANGED <<blk, want, cur>>

\* The last shared owner releases the lock and wakes the waiters, or leaves
\* that to the thread that is traversing the list.
ReleaseLastShared(t) ==
  LET v == val[t]  released == [v EXCEPT !.owned = FALSE, !.multi = FALSE] IN
    /\ pc[t] = "lastShared"
    /\ \/ /\ Value = v
          /\ IF v.trav
             THEN Value' = released /\ Goto(t, "idle") /\ GoBy(t, Free)
             ELSE /\ Value' = [released EXCEPT !.trav = TRUE]
                  /\ GoBy(t, Value') /\ Goto(t, "wake")
       \/ Value # v /\ GoBy(t, Value) /\ UNCHANGED <<Value, pc>>
    /\ UNCHANGED <<blk, want, cur>>
-----------------------------------------------------------------------------
Next == \E t \in Threads :
  \/ PhAcquireQueuedLockExclusive(t) \/ PhAcquireQueuedLockShared(t) \/ ReadValue(t)
  \/ PhfAcquireQueuedLockExclusive(t) \/ PhfAcquireQueuedLockShared(t)
  \/ PhpBlockOnQueuedWaitBlock(t)
  \/ PhpOptimizeQueuedLockListEx(t) \/ ClearTraversing(t)
  \/ PhpPrepareToWakeQueuedLock(t) \/ UnlinkOne(t) \/ TakeAll(t)
  \/ PhpUnblockQueuedWaitBlock(t) \/ NtReleaseKeyedEvent(t)
  \/ PhReleaseQueuedLockExclusive(t) \/ PhfWakeForReleaseQueuedLock(t)
  \/ PhfReleaseQueuedLockExclusive(t)
  \/ PhReleaseQueuedLockShared(t) \/ PhfReleaseQueuedLockShared(t) \/ ReleaseLastShared(t)

Spec == Init /\ [][Next]_vars
-----------------------------------------------------------------------------
(* Properties.                                                             *)

\* How a thread holds the lock, by the place it is at.
Holds ==
  [t \in Threads |->
     CASE pc[t] \in {"exclusive", "releaseExclusive"} -> "exclusive"
       [] pc[t] \in {"shared", "releaseShared"} -> "shared"
       [] OTHER -> "none"]

Abstract == INSTANCE RWLock WITH mode <- Holds

\* The queued lock is a reader-writer lock: whatever the interleaving of
\* fast paths, pushes and wake-ups, an exclusive owner is alone.
ImplementsRWLock == Abstract!Spec

\* No wake-up is lost: when every thread is outside the lock or sleeps at
\* the keyed event, none sleeps.
NoLostWakeup ==
  (\A t \in Threads : pc[t] \in {"idle", "keyed"}) => \A t \in Threads : pc[t] = "idle"

\* The wait block of t is on the chain, or is being woken: t has pushed it
\* and has not returned from PhpBlockOnQueuedWaitBlock.
Queued(t) == want[t] # NULL /\ pc[t] \notin {"read", "try"}

\* No thread follows a pointer to a wait block whose thread has returned:
\* the blocks are on the stack.
BlocksLive ==
  /\ Value.waiters =>
       /\ \A x \in ToSet(Walk(Value.block)) : Queued(x)
       /\ Queued(PhpFindLastQueuedWaitBlock(Value.block))
  /\ \A t \in Threads :
       /\ pc[t] \in {"unlinked", "takeAll", "unblock", "release"} => Queued(cur[t])
       /\ pc[t] \in {"optimize", "optimized", "wake"} => Queued(val[t].block)
       /\ pc[t] = "releaseShared" /\ val[t].waiters /\ val[t].multi =>
            Queued(PhpFindLastQueuedWaitBlock(val[t].block))

\* The assertions of the code: what PhpPrepareToWakeQueuedLock, the optimizer
\* and the releasers take for granted of the value they go by.
AssertsHold ==
  \A t \in Threads :
    /\ pc[t] \in {"optimize", "optimized"} => val[t].trav
    /\ pc[t] \in {"wake", "takeAll"} => val[t].trav /\ ~val[t].multi
    /\ pc[t] = "releaseExclusive" =>
         val[t].owned /\ (val[t].waiters \/ val[t].shared = 0)
    /\ pc[t] = "releaseShared" /\ ~val[t].waiters => val[t].owned /\ val[t].shared > 0
=============================================================================
