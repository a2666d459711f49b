--------------------------- MODULE MCStateManager ---------------------------
(* Model checking of StateManager: three releases, every initial layout of   *)
(* the two paths, crashes at every step.                                     *)
EXTENDS StateManager
=============================================================================
