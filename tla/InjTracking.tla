----------------------------- MODULE InjTracking ----------------------------
(***************************************************************************)
(* What the driver promises about one process, whatever the callbacks that *)
(* see it: it is tracked, a debugger may arm it with a DLL path (again as  *)
(* long as nothing was attempted), the driver notes once that it attempted *)
(* the injection of an armed process, and then it can only be forgotten.   *)
(* Threads whose attempts overlap before one is noted are InjRace's.       *)
(***************************************************************************)
CONSTANT Pids

VARIABLE status

Statuses == {"untracked", "tracked", "armed", "attempted"}

Init == status = [p \in Pids |-> "untracked"]

Move(p, from, to) ==
  /\ status[p] \in from
  /\ status' = [status EXCEPT ![p] = to]

Track(p)   == Move(p, {"untracked"}, "tracked")
Arm(p)     == Move(p, {"tracked", "armed"}, "armed")
Attempt(p) == Move(p, {"armed"}, "attempted")

\* A process ends, a protected process is taken off the list, or the driver
\* is unloaded and forgets them all.
Forget(S) == status' = [p \in Pids |-> IF p \in S THEN "untracked"
                                       ELSE status[p]]

Next ==
  \/ \E p \in Pids : Track(p) \/ Arm(p) \/ Attempt(p)
  \/ \E S \in SUBSET Pids : Forget(S)

Spec == Init /\ [][Next]_status
=============================================================================
