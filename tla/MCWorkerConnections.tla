------------------------- MODULE MCWorkerConnections -------------------------
(***************************************************************************)
(* WorkerConnections for TLC: a worker that is opened for two groups, and  *)
(* one accept that may fail.  MCWorkerConnections.cfg: three connections   *)
(* and two session IDs, so that the counter comes round; one connection    *)
(* has two requests, and the completion of the first one's write may       *)
(* overtake or meet the second.  MCWorkerConnectionsLive.cfg: two          *)
(* connections, one of which sends rows that are none, before, between or  *)
(* after the groups while the other is served.                             *)
(***************************************************************************)
EXTENDS WorkerConnections

First == CHOOSE c \in Clients : TRUE

TwoOfOne  == [c \in Clients |-> IF c = First THEN 2 ELSE 0]
OneOfEach == [c \in Clients |-> 1]
MCSends   == [c \in Clients |-> IF c = First THEN {"REQUEST"} ELSE {"NOT_ROWS"}]
=============================================================================
