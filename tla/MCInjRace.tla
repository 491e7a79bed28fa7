------------------------------ MODULE MCInjRace ------------------------------
(* InjRace for TLC: two threads and two requests.                          *)
EXTENDS InjRace, TLC

Symmetry == Permutations(Threads)
=============================================================================
