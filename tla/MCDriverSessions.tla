--------------------------- MODULE MCDriverSessions ---------------------------
(***************************************************************************)
(* A client that waits for its answers and one that does not, with one     *)
(* command of each kind and a task whose answer is sent in two parts.      *)
(***************************************************************************)
EXTENDS DriverSessions

MCCommands ==
    [c \in Clients |->
        IF c \in Eager THEN {"HANDSHAKE", "RUN TASK"}
        ELSE {"HANDSHAKE", "INVALID HANDSHAKE", "REQUEST ID", "LIST ALL WORKERS", "RUN TASK",
              "SHUTDOWN"}]

=============================================================================
