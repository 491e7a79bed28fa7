--------------------------- MODULE MCDeferDelete ---------------------------
(* The global work queue, as PhGetGlobalWorkQueue initializes it.          *)
EXTENDS DeferDelete
=============================================================================
