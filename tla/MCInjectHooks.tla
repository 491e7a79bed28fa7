---------------------------- MODULE MCInjectHooks ----------------------------
(* InjectHooks for TLC: four hooks on two pages, three regions of two       *)
(* usable trampolines.                                                      *)
EXTENDS InjectHooks

CONSTANTS h1, h2, h3, h4, r1, r2, r3, p1, p2

MCOrder == <<h1, h2, h3, h4>>
MCHooks == {h1, h2, h3, h4}
MCRegions == {r1, r2, r3}
MCNear == (MCHooks \X MCRegions) \ {<<h3, r1>>, <<h2, r3>>}
MCPageOf == [h \in MCHooks |-> IF h \in {h1, h3} THEN p1 ELSE p2]
=============================================================================
