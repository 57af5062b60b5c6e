------------------------------- MODULE LogSink -------------------------------
(***************************************************************************)
(* The log of a worker process (start_log in utility/logging.hpp), which   *)
(* its command loops, handler threads and sessions all write to.  A        *)
(* message goes through the logger's sinks in turn: the console's, of a    *)
(* type ending in _mt, locks a mutex of its own, and the file's, of a type *)
(* ending in _st, locks nothing; the logger itself locks nothing either.   *)
(***************************************************************************)
EXTENDS Naturals, FiniteSets

CONSTANTS Threads,       \* threads of the process
          MaxMessages    \* messages each logs (a bound)

Sinks   == {"console", "file"}
Mutexed == {"console"}   \* ansicolor_stdout_sink_mt; not basic_file_sink_st

VARIABLES at,       \* at[t]: the sink t is formatting and writing in, or "out"
          next,     \* next[t]: the sink t's message goes to next, or "none"
          logged    \* logged[t]: messages t has logged

vars == <<at, next, logged>>

Init ==
    /\ at = [t \in Threads |-> "out"]
    /\ next = [t \in Threads |-> "none"]
    /\ logged = [t \in Threads |-> 0]

Inside(s) == {t \in Threads : at[t] = s}

\* log->info.
Info(t) ==
    /\ at[t] = "out" /\ next[t] = "none"
    /\ logged[t] < MaxMessages
    /\ logged' = [logged EXCEPT ![t] = @ + 1]
    /\ next' = [next EXCEPT ![t] = "console"]
    /\ UNCHANGED at

EnterSink(t) ==
    /\ at[t] = "out" /\ next[t] \in Sinks
    /\ next[t] \in Mutexed => Inside(next[t]) = {}
    /\ at' = [at EXCEPT ![t] = next[t]]
    /\ next' = [next EXCEPT ![t] = IF @ = "console" THEN "file" ELSE "none"]
    /\ UNCHANGED logged

LeaveSink(t) ==
    /\ at[t] \in Sinks
    /\ at' = [at EXCEPT ![t] = "out"]
    /\ UNCHANGED <<next, logged>>

Next == \E t \in Threads : Info(t) \/ EnterSink(t) \/ LeaveSink(t)

Spec == Init /\ [][Next]_vars

-----------------------------------------------------------------------------
(* "spdlog: For thread-safe logging during execution" (readme.md): no two    *)
(* threads of a process work in one sink at the same time.                   *)
OneThreadInASink == \A s \in Sinks : Cardinality(Inside(s)) <= 1
=============================================================================
