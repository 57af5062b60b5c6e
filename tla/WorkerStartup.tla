----------------------------- MODULE WorkerStartup -----------------------------
(***************************************************************************)
(* The start of an Alchemist job: one process is the driver, the others    *)
(* are workers (main.cpp).  The driver starts the workers and registers    *)
(* them (Driver.cpp); a worker runs each command of the driver in a thread *)
(* of its own (Worker.cpp).  Once all are registered the driver serves,    *)
(* which is where WorkerPool and GroupLifecycle begin.                     *)
(*                                                                         *)
(* A process whose arguments are out of range ends, and so does one whose  *)
(* constructor throws, as on a port that is taken or a log file that       *)
(* cannot be made; MPI_Finalize lets go when every process has come to it. *)
(***************************************************************************)
EXTENDS Integers, Sequences, FiniteSets, SequencesExt

CONSTANTS NumWorkers,
          Ports, BufferLengths,  \* arguments to try (a bound)
          Failing,               \* sets of processes whose constructors may throw (a bound)
          Hostname               \* Hostname[p]: the name of the host of process p

Driver    == 0
Workers   == 1 .. NumWorkers
Processes == Workers \cup {Driver}

ASSUME StartupAssumption ==
    /\ NumWorkers \in Nat
    /\ Ports \subseteq Int
    /\ Failing \subseteq SUBSET Processes
    /\ DOMAIN Hostname = Processes

VARIABLES
    start_port, max_buffer_length,  \* the arguments of all processes
    fails,       \* processes whose constructor throws
    at,          \* at[p]: what the main thread of p is doing
    port,        \* port[p]: the port p listens on, or would
    commands,    \* commands[w]: broadcasts that worker w has not taken yet
    threads,     \* threads[w]: the commands that threads of w handle, in order
    entered,     \* entered[p]: how often p has entered a barrier of the world
    mail,        \* mail[w]: what w has sent and the driver not received
    workers,     \* the driver's WorkerInfos, in the order it has them
    unallocated_workers

vars == <<start_port, max_buffer_length, fails, at, port, commands, threads, entered, mail,
          workers, unallocated_workers>>

MinBufferLength == 1000000
MaxPort         == 65535
AnyAddress      == "0.0.0.0"

Init ==
    /\ start_port \in Ports /\ max_buffer_length \in BufferLengths
    /\ fails \in Failing
    /\ at = [p \in Processes |-> "main"]
    /\ port = [p \in Processes |-> 0]
    /\ commands = [w \in Workers |-> <<>>]
    /\ threads = [w \in Workers |-> <<>>]
    /\ entered = [p \in Processes |-> 0]
    /\ mail = [w \in Workers |-> <<>>]
    /\ workers = <<>> /\ unallocated_workers = <<>>

-----------------------------------------------------------------------------
(* Mutated forms of operators below, each a slip this code could have had;   *)
(* the properties are tested against them.                                   *)

\* Only the driver's port is looked at, and not those of the workers.
OnePortInRange == start_port >= 1024 /\ start_port <= MaxPort

-----------------------------------------------------------------------------
(* main.                                                                     *)

PortInRange   == start_port >= 1024 /\ start_port <= MaxPort - (NumWorkers + 1) + 1
BufferInRange == max_buffer_length >= MinBufferLength \/ max_buffer_length = 0

\* The port of a process's endpoint, 16 bits wide.
PortOf(p) == (start_port + p) % (MaxPort + 1)

\* The same arguments and thus the same exit in all processes; a Driver or Worker else.
Main(p) ==
    /\ at[p] = "main"
    /\ IF PortInRange /\ BufferInRange /\ p \notin fails
       THEN /\ at' = [at EXCEPT ![p] = IF p = Driver THEN "start_workers" ELSE "wait_for_command"]
            /\ port' = [port EXCEPT ![p] = PortOf(p)]
       ELSE at' = [at EXCEPT ![p] = "finalize"] /\ UNCHANGED port
    /\ UNCHANGED <<start_port, max_buffer_length, fails, commands, threads, entered, mail,
                   workers, unallocated_workers>>

Finalize(p) ==
    /\ at[p] = "finalize" /\ \A q \in Processes : at[q] \in {"finalize", "ended"}
    /\ at' = [at EXCEPT ![p] = "ended"]
    /\ UNCHANGED <<start_port, max_buffer_length, fails, port, commands, threads, entered, mail,
                   workers, unallocated_workers>>

-----------------------------------------------------------------------------
(* MPI_Barrier on the world: the k-th one lets go when all have entered k.   *)

Met(k) == \A p \in Processes : entered[p] >= k
Enter(p) == entered' = [entered EXCEPT ![p] = @ + 1]

\* What MPI_Send and MPI_Recv of a text take: its length, then its characters.
Text(s) == <<Len(s) + 1, [s |-> s, nul |-> TRUE]>>

\* A string made of characters that have no NUL goes on with what is behind them.
StringOf(length, chars) == IF chars.nul /\ length = Len(chars.s) + 1 THEN chars.s ELSE "garbage"

-----------------------------------------------------------------------------
(* The driver's constructor.                                                 *)

Broadcast(c) == commands' = [w \in Workers |-> Append(commands[w], c)]

\* start_workers, up to its barrier.
StartWorkers ==
    /\ at[Driver] = "start_workers"
    /\ Broadcast("START")
    /\ Enter(Driver)
    /\ at' = [at EXCEPT ![Driver] = "started"]
    /\ UNCHANGED <<start_port, max_buffer_length, fails, port, threads, mail, workers,
                   unallocated_workers>>

\* register_workers begins when start_workers is past its barrier.
RegisterWorkers ==
    /\ at[Driver] = "started" /\ Met(entered[Driver])
    /\ Broadcast("SEND_INFO")
    /\ at' = [at EXCEPT ![Driver] = "register_workers"]
    /\ UNCHANGED <<start_port, max_buffer_length, fails, port, threads, entered, mail, workers,
                   unallocated_workers>>

\* The five receives from the next worker, ...
RegisterWorker ==
    LET w == Len(unallocated_workers) + 1
        m == mail[w]
    IN  /\ at[Driver] = "register_workers" /\ w <= NumWorkers /\ Len(m) >= 5
        /\ workers' = Append(workers, [ID |-> w, hostname |-> StringOf(m[1], m[2]),
                                       address |-> StringOf(m[3], m[4]), port |-> m[5]])
        /\ unallocated_workers' = Append(unallocated_workers, w)
        /\ mail' = [mail EXCEPT ![w] = SubSeq(m, 6, Len(m))]
        /\ UNCHANGED <<start_port, max_buffer_length, fails, at, port, commands, threads, entered>>

\* ... the barrier behind the last of them, ...
AllRegistered ==
    /\ at[Driver] = "register_workers" /\ Len(unallocated_workers) = NumWorkers
    /\ Enter(Driver)
    /\ at' = [at EXCEPT ![Driver] = "registered"]
    /\ UNCHANGED <<start_port, max_buffer_length, fails, port, commands, threads, mail, workers,
                   unallocated_workers>>

\* ... and the thread that accepts connections.
Serve ==
    /\ at[Driver] = "registered" /\ Met(entered[Driver])
    /\ at' = [at EXCEPT ![Driver] = "accept_connection"]
    /\ UNCHANGED <<start_port, max_buffer_length, fails, port, commands, threads, entered, mail,
                   workers, unallocated_workers>>

-----------------------------------------------------------------------------
(* A worker.                                                                 *)

\* wait_for_command: a thread for each broadcast.
WaitForCommand(w) ==
    /\ at[w] = "wait_for_command" /\ commands[w] # <<>>
    /\ threads' = [threads EXCEPT ![w] = Append(@, [c |-> Head(commands[w]), barrier |-> 0])]
    /\ commands' = [commands EXCEPT ![w] = Tail(@)]
    /\ UNCHANGED <<start_port, max_buffer_length, fails, at, port, entered, mail, workers,
                   unallocated_workers>>

\* start and send_info, up to their barriers.
HandleCommand(w, t) ==
    /\ threads[w][t].barrier = 0
    /\ mail' = [mail EXCEPT ![w] =
                   IF threads[w][t].c = "SEND_INFO"
                   THEN @ \o Text(Hostname[w]) \o Text(AnyAddress) \o <<port[w]>> ELSE @]
    /\ Enter(w)
    /\ threads' = [threads EXCEPT ![w][t].barrier = entered'[w]]
    /\ UNCHANGED <<start_port, max_buffer_length, fails, at, port, commands, workers,
                   unallocated_workers>>

\* A thread returns from its barrier and ends.
EndCommand(w, t) ==
    /\ threads[w][t].barrier > 0 /\ Met(threads[w][t].barrier)
    /\ threads' = [threads EXCEPT ![w] = RemoveAt(@, t)]
    /\ UNCHANGED <<start_port, max_buffer_length, fails, at, port, commands, entered, mail,
                   workers, unallocated_workers>>

DriverStep ==
    StartWorkers \/ RegisterWorkers \/ RegisterWorker \/ AllRegistered \/ Serve

ThreadStep(w) == \E t \in DOMAIN threads[w] : HandleCommand(w, t) \/ EndCommand(w, t)

Next ==
    \/ \E p \in Processes : Main(p) \/ Finalize(p)
    \/ DriverStep
    \/ \E w \in Workers : WaitForCommand(w) \/ ThreadStep(w)

\* Processes and threads are scheduled.
Fairness ==
    /\ \A p \in Processes : WF_vars(Main(p)) /\ WF_vars(Finalize(p))
    /\ WF_vars(DriverStep)
    /\ \A w \in Workers : WF_vars(WaitForCommand(w)) /\ WF_vars(ThreadStep(w))

Spec == Init /\ [][Next]_vars /\ Fairness

-----------------------------------------------------------------------------
(* Properties.                                                               *)

\* The driver serves and knows each worker as it is: by the name of its host, its own
\* port and no other process's, and as free; and every worker waits for commands with
\* no message of the start on its way.
Ready ==
    /\ at[Driver] = "accept_connection"
    /\ unallocated_workers = [w \in Workers |-> w]
    /\ workers = [w \in Workers |-> [ID |-> w, hostname |-> Hostname[w],
                                     address |-> AnyAddress, port |-> start_port + w]]
    /\ \A p, q \in Processes : p # q => port[p] # port[q]
    /\ \A w \in Workers : /\ at[w] = "wait_for_command"
                          /\ threads[w] = <<>> /\ commands[w] = <<>> /\ mail[w] = <<>>

\* A job whose processes all start gets ready, for every port that is allowed: the
\* threads of a worker that overlap, its loop and the driver meet in the barriers of
\* the world in one order.  A job none of whose processes can start ends.  Only if
\* some can and some cannot, the others wait for these for ever.
ServesOrEnds ==
    <>[](\/ Ready
         \/ \A p \in Processes : at[p] = "ended"
         \/ PortInRange /\ BufferInRange /\ fails # {} /\ fails # Processes)

=============================================================================
