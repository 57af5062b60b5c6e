--------------------------- MODULE MCGroupLifecycle --------------------------
(***************************************************************************)
(* GroupLifecycle for TLC.  MCGroupLifecycle.cfg: two workers, two clients *)
(* and four changes of a group, with every race decided the usual way;     *)
(* MCGroupLifecycleHasty.cfg: three changes that follow each other at once,*)
(* so that the threads that free a group meet those of the next one.       *)
(***************************************************************************)
EXTENDS GroupLifecycle
=============================================================================
