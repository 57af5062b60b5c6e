---------------------------- MODULE MCWorkerPool ----------------------------
(***************************************************************************)
(* WorkerPool for TLC: clients over four workers, with a group counter of  *)
(* four values and five connections, so that the counter wraps to the null *)
(* group and then to a group that is in use, and requests for one worker   *)
(* more than there are.                                                    *)
(***************************************************************************)
EXTENDS WorkerPool
=============================================================================
