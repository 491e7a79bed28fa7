---------------------------- MODULE MCInjDriver -----------------------------
(* InjDriver for TLC: the kinds of process there are, the threads of each,  *)
(* and the symmetry, which leaves each thread with its process.             *)
EXTENDS InjDriver, TLC

\* Every process has a thread.
OwnersOf == CHOOSE f \in [Threads -> Pids] : \A p \in Pids : \E t \in Threads : f[t] = p

KeepsThreads(f) ==
  \A t \in Threads : f[t] \in Threads /\ ProcessOf[f[t]] = f[ProcessOf[t]]

Symmetry ==
  {f \in Permutations(Pids \cup Threads) : KeepsThreads(f)}
    \cup Permutations(Infos) \cup Permutations(Paths)

NativeKinds == [wow64 : {FALSE}, prot : BOOLEAN]
AllKinds == [wow64 : BOOLEAN, prot : BOOLEAN]
=============================================================================
