--------------------------- MODULE MCWorkerStartup ---------------------------
(***************************************************************************)
(* The start of three workers on two hosts, with arguments at and beyond   *)
(* their limits, where all processes start, none does, or one does not.    *)
(***************************************************************************)
EXTENDS WorkerStartup

MCPorts         == {1023, 1024, 65535 - NumWorkers, 65536 - NumWorkers}
MCBufferLengths == {0, 999999, 1000000}
MCFailing       == {{}, Processes, {Driver}, {1}}
MCHostname      == [p \in Processes |-> IF p < 2 THEN "nid1" ELSE "nid20"]

=============================================================================
