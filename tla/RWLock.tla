------------------------------- MODULE RWLock -------------------------------
(***************************************************************************)
(* What a reader-writer lock promises: one exclusive holder, or any number *)
(* of shared ones.                                                         *)
(***************************************************************************)
CONSTANTS Threads

VARIABLE mode   \* how each thread holds the lock

Init == mode = [t \in Threads |-> "none"]

AcquireExclusive(t) ==
  /\ \A u \in Threads : mode[u] = "none"
  /\ mode' = [mode EXCEPT ![t] = "exclusive"]

AcquireShared(t) ==
  /\ mode[t] = "none"
  /\ \A u \in Threads : mode[u] # "exclusive"
  /\ mode' = [mode EXCEPT ![t] = "shared"]

Release(t) ==
  /\ mode[t] # "none"
  /\ mode' = [mode EXCEPT ![t] = "none"]

Next == \E t \in Threads : AcquireExclusive(t) \/ AcquireShared(t) \/ Release(t)

Spec == Init /\ [][Next]_mode
=============================================================================
