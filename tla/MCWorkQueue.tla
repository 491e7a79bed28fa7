---------------------------- MODULE MCWorkQueue ----------------------------
(* Two threads of the program and three workers, which also queue items:   *)
(* one worker is kept, a second comes and goes, a third may come while a   *)
(* thread that ended has not left yet.                                     *)
EXTENDS WorkQueue
=============================================================================
