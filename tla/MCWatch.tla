------------------------------ MODULE MCWatch ------------------------------
(* Two loader threads over two addresses for each structure, so that every *)
(* address is reused; ntdll is loaded for good.                            *)
EXTENDS Watch

CONSTANTS m1, m2, n1, n2

\* Addresses other than ntdll's are alike, and so are threads.
Symmetry ==
  Permutations(Threads) \cup Permutations({m1, m2}) \cup Permutations({n1, n2})
    \cup Permutations(Ctxs)
=============================================================================
