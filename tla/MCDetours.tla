------------------------------ MODULE MCDetours ------------------------------
(* Detours for TLC: three hooks, two of them on one page, and two regions   *)
(* of two usable trampolines, one of which one hook cannot reach.           *)
EXTENDS Detours

CONSTANTS h1, h2, h3, r1, r2, p1, p2

MCHooks == {h1, h2, h3}
MCRegions == {r1, r2}
MCNear == (MCHooks \X MCRegions) \ {<<h3, r1>>}
MCPageOf == [h \in MCHooks |-> IF h = h3 THEN p2 ELSE p1]
=============================================================================
