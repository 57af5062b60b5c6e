---------------------------- MODULE GroupCommands ----------------------------
(***************************************************************************)
(* What a client does with the workers it has: make a matrix, load a       *)
(* library, run a task of one (GroupDriver.cpp, GroupWorker.cpp).  For     *)
(* each command the driver's thread broadcasts a command code, which every *)
(* worker's command loop takes and gives to a handler thread of its own,   *)
(* and driver and handlers go through a sequence of broadcasts, barriers   *)
(* and messages that both sides spell out separately.                      *)
(*                                                                         *)
(* The group's workers are 1..size (WorkerPool!OneActiveGroup), rank r is  *)
(* worker r, worker 1 is the primary (GroupLifecycle!OnePrimary).  A       *)
(* worker's GroupWorker, with its matrices and libraries, outlives its     *)
(* groups and their clients; a client's GroupDriver starts with none.      *)
(* Consecutive broadcasts from the driver are one here.                    *)
(***************************************************************************)
EXTENDS Sequences, FiniteSets, Integers

CONSTANTS NumWorkers,    \* MPI world size - 1
          LibraryIDSpan, \* values of LibraryID (2^8 in the code)
          NotLoadable,   \* the sets of processes on which dlopen can fail
          MaxResults,    \* matrices a task returns, at most (a bound)
          MaxMade,       \* matrices and libraries ever asked for (a bound)
          MaxRuns,       \* tasks run (a bound)
          MaxChanges     \* times the group changes, at most (a bound)

Workers    == 1 .. NumWorkers
Ranks      == 0 .. NumWorkers
LibraryIDs == 0 .. LibraryIDSpan - 1
MatrixIDs  == 1 .. MaxMade + 1
Things     == 1 .. MaxMade          \* everything made, in order; 0 is no thing

ASSUME CommandsAssumption ==
    /\ NumWorkers \in Nat \ {0} /\ LibraryIDSpan \in Nat /\ LibraryIDSpan > 3
    /\ NotLoadable \subseteq SUBSET Ranks
    /\ MaxResults \in Nat /\ MaxMade \in Nat /\ MaxRuns \in Nat /\ MaxChanges \in Nat

VARIABLES
    size,            \* workers of the group
    joined,          \* joined[w]: things made before w joined the group last
    formed,          \* things made before the group changed last
    base,            \* things made before the client came
    astray,          \* history: libraries that some worker loaded and the driver did not
    changes, runs,   \* group changes and tasks so far
    made,            \* things asked for so far
    loads,           \* libraries the client has asked for
    next_matrixID, next_libraryID,   \* of the client's GroupDriver
    matrices,        \* matrices[p][id]: the matrix p has under id
    libraries,       \* libraries[p][id], alike
    assigned,        \* assigned[id]: workers of a matrix the client was told of
    known,           \* the libraries, with their IDs, the client was told of
    driver,          \* what the driver's thread is doing
    ibcast,          \* ibcast[w]: command codes w's loop has not taken
    bcast,           \* bcast[w]: broadcasts w's handlers have not taken
    barriers,        \* barriers[p]: the barriers process p has entered
    sends,           \* messages of the primary worker to the driver
    handlers,        \* handler threads
    current_matrixID,\* of every GroupWorker
    job              \* running, or why, in which process and with which matrix it ended

groupVars  == <<size, joined, formed, base, astray, changes>>
clientVars == <<loads, next_matrixID, next_libraryID, assigned, known>>
mpiVars    == <<ibcast, bcast, barriers, sends>>
vars == <<groupVars, runs, made, clientVars, matrices, libraries, driver, mpiVars,
          handlers, current_matrixID, job>>

Members == 1 .. size
Primary == 1

-----------------------------------------------------------------------------
\* What a command is about: its code, the library or matrix ID it broadcasts, the
\* thing that ID stands for, the processes on which the library does not load, the
\* matrix that a task takes and the number of matrices it returns; or, with code IDS,
\* the matrices it returned.
NoCommand == [op |-> "NONE", id |-> 0, thing |-> 0, fails |-> {}, arg |-> 0, results |-> 0,
              ids |-> <<>>]

Ended(why, p, id) == [why |-> why, p |-> p, id |-> id]
Running == Ended("running", 0, 0)

Idle == [at |-> "IDLE", cmd |-> NoCommand, k |-> 0, ids |-> <<>>]

Init ==
    /\ size = 0 /\ joined = [w \in Workers |-> 0] /\ formed = 0 /\ base = 0
    /\ astray = {} /\ changes = 0
    /\ runs = 0 /\ made = 0 /\ loads = 0
    /\ next_matrixID = 1 /\ next_libraryID = 2
    /\ matrices = [p \in Ranks |-> [id \in MatrixIDs |-> 0]]
    /\ libraries = [p \in Ranks |-> [id \in LibraryIDs |-> 0]]
    /\ assigned = [id \in MatrixIDs |-> {}]
    /\ known = {}
    /\ driver = Idle
    /\ ibcast = [w \in Workers |-> <<>>] /\ bcast = [w \in Workers |-> <<>>]
    /\ barriers = [p \in Ranks |-> <<>>] /\ sends = <<>>
    /\ handlers = {}
    /\ current_matrixID = [w \in Workers |-> 0]
    /\ job = Running

Crash(why, p, id) ==
    /\ job' = Ended(why, p, id)
    /\ UNCHANGED <<groupVars, runs, made, clientVars, matrices, libraries, driver,
                   mpiVars, handlers, current_matrixID>>

\* map::insert leaves an entry that is there alone.
Insert(map, p, id, thing) == [map EXCEPT ![p][id] = IF @ = 0 THEN thing ELSE @]

ToMembers(queues, x) == [w \in Workers |-> IF w \in Members THEN Append(queues[w], x)
                                                             ELSE queues[w]]

\* MPI_Barrier: the k-th that a process enters lets go when all have entered k.
Barrier(p, name) == barriers' = [barriers EXCEPT ![p] = Append(@, name)]
Met(k) == \A p \in Members \cup {0} : Len(barriers[p]) >= k

-----------------------------------------------------------------------------
(* The driver's thread, inside the session's handle_message.                  *)

\* MPI_Ibcast of the command code, then the broadcasts of what it is about.
Broadcast(cmd) ==
    /\ ibcast' = ToMembers(ibcast, cmd.op)
    /\ bcast' = ToMembers(bcast, cmd)

\* The driver goes on to `at` and enters the barrier there.
Enters(at, name) ==
    /\ Barrier(0, name)
    /\ driver' = [driver EXCEPT !.at = at, !.k = Len(barriers[0]) + 1]

Starts(cmd) == job = Running /\ driver = Idle /\ size > 0 /\ Broadcast(cmd)

Through(at) == job = Running /\ driver.at = at /\ Met(driver.k)

\* Mutated forms of driver steps below, each a slip this code could have had; the
\* properties are tested against them.
\* LibraryID does not wrap.
LoadLibraryNoWrap(fails) ==
    LET id  == next_libraryID + 1
        cmd == [NoCommand EXCEPT !.op = "LOAD", !.id = id, !.thing = made + 1, !.fails = fails]
    IN  /\ made < MaxMade /\ Starts(cmd)
        /\ made' = made + 1 /\ loads' = loads + 1
        /\ next_libraryID' = id
        /\ Barrier(0, "LOAD")
        /\ driver' = [Idle EXCEPT !.at = "LOAD", !.cmd = cmd, !.k = Len(barriers[0]) + 1]
        /\ UNCHANGED <<groupVars, runs, next_matrixID, assigned, known, matrices, libraries,
                       sends, handlers, current_matrixID, job>>

\* next_libraryID++ is forgotten.
LoadLibraryNoIncrement(fails) ==
    LET cmd == [NoCommand EXCEPT !.op = "LOAD", !.id = next_libraryID, !.thing = made + 1,
                                 !.fails = fails]
    IN  /\ made < MaxMade /\ Starts(cmd)
        /\ made' = made + 1 /\ loads' = loads + 1
        /\ Barrier(0, "LOAD")
        /\ driver' = [Idle EXCEPT !.at = "LOAD", !.cmd = cmd, !.k = Len(barriers[0]) + 1]
        /\ UNCHANGED <<groupVars, runs, next_matrixID, next_libraryID, assigned, known,
                       matrices, libraries, sends, handlers, current_matrixID, job>>

\* load_library answers without its second barrier.
OpenLibraryAtOnce ==
    /\ Through("LOAD")
    /\ driver' = Idle
    /\ libraries' = IF 0 \in driver.cmd.fails THEN libraries
                    ELSE Insert(libraries, 0, driver.cmd.id, driver.cmd.thing)
    /\ UNCHANGED <<groupVars, runs, made, clientVars, matrices, mpiVars, handlers,
                   current_matrixID, job>>

\* new_matrix answers without its barrier.
AnswerMatrixAtOnce ==
    /\ job = Running /\ driver.at = "MADE"
    /\ assigned' = [assigned EXCEPT ![driver.cmd.id] = Members]
    /\ driver' = Idle
    /\ UNCHANGED <<groupVars, runs, made, loads, next_matrixID, next_libraryID, known,
                   matrices, libraries, mpiVars, handlers, current_matrixID, job>>

\* GroupDriver::new_matrix, from SEND_MATRIX_INFO: broadcast the matrix ...
NewMatrix ==
    LET cmd == [NoCommand EXCEPT !.op = "NEW_MATRIX", !.id = next_matrixID, !.thing = made + 1]
    IN  /\ made < MaxMade
        /\ Starts(cmd)
        /\ made' = made + 1
        /\ next_matrixID' = next_matrixID + 1
        /\ driver' = [Idle EXCEPT !.at = "GRID", !.cmd = cmd]
        /\ UNCHANGED <<groupVars, runs, loads, next_libraryID, assigned, known, matrices,
                       libraries, barriers, sends, handlers, current_matrixID, job>>

\* ... receive the grid's size from the primary, and keep the matrix.
ReceiveGrid ==
    /\ job = Running /\ driver.at = "GRID" /\ sends # <<>>
    /\ sends' = Tail(sends)
    /\ matrices' = Insert(matrices, 0, driver.cmd.id, driver.cmd.thing)
    /\ Enters("MADE", "NEW_MATRIX")
    /\ UNCHANGED <<groupVars, runs, made, clientVars, libraries, ibcast, bcast, handlers,
                   current_matrixID, job>>

AnswerMatrix ==
    /\ Through("MADE")
    /\ assigned' = [assigned EXCEPT ![driver.cmd.id] = Members]
    /\ driver' = Idle
    /\ UNCHANGED <<groupVars, runs, made, loads, next_matrixID, next_libraryID, known,
                   matrices, libraries, mpiVars, handlers, current_matrixID, job>>

\* GroupDriver::load_library: broadcast the library, meet the workers ...
LoadLibrary(fails) ==
    LET id  == (next_libraryID + 1) % LibraryIDSpan
        cmd == [NoCommand EXCEPT !.op = "LOAD", !.id = id, !.thing = made + 1, !.fails = fails]
    IN  /\ made < MaxMade
        /\ Starts(cmd)
        /\ made' = made + 1 /\ loads' = loads + 1
        /\ next_libraryID' = id
        /\ Barrier(0, "LOAD")
        /\ driver' = [Idle EXCEPT !.at = "LOAD", !.cmd = cmd, !.k = Len(barriers[0]) + 1]
        /\ UNCHANGED <<groupVars, runs, next_matrixID, assigned, known, matrices, libraries,
                       sends, handlers, current_matrixID, job>>

\* ... answer 0 at once if it does not load here, else keep it and meet again.
OpenLibrary ==
    /\ Through("LOAD")
    /\ IF 0 \in driver.cmd.fails
       THEN /\ driver' = Idle
            /\ astray' = IF Members \subseteq driver.cmd.fails THEN astray
                         ELSE astray \cup {driver.cmd.thing}
            /\ UNCHANGED <<libraries, barriers>>
       ELSE /\ libraries' = Insert(libraries, 0, driver.cmd.id, driver.cmd.thing)
            /\ Enters("LOADED", "LOADED")
            /\ UNCHANGED astray
    /\ UNCHANGED <<size, joined, formed, base, changes, runs, made, clientVars, matrices,
                   ibcast, bcast, sends, handlers, current_matrixID, job>>

AnswerLibrary ==
    /\ Through("LOADED")
    /\ known' = known \cup {[id |-> next_libraryID, thing |-> driver.cmd.thing]}
    /\ driver' = Idle
    /\ UNCHANGED <<groupVars, runs, made, loads, next_matrixID, next_libraryID, assigned,
                   matrices, libraries, mpiVars, handlers, current_matrixID, job>>

\* GroupDriver::run_task for a library the client was told of: broadcast the
\* message and meet the workers, twice ...
RunTask(lib, arg, results) ==
    LET cmd == [NoCommand EXCEPT !.op = "RUN", !.id = lib.id, !.thing = lib.thing,
                                 !.arg = arg, !.results = results]
    IN  /\ runs < MaxRuns /\ made + results <= MaxMade
        /\ lib \in known /\ arg \in {0} \cup {id \in MatrixIDs : assigned[id] # {}}
        /\ Starts(cmd)
        /\ runs' = runs + 1
        /\ Barrier(0, "TASK")
        /\ driver' = [Idle EXCEPT !.at = "TASK", !.cmd = cmd, !.k = Len(barriers[0]) + 1]
        /\ UNCHANGED <<groupVars, made, clientVars, matrices, libraries, sends, handlers,
                       current_matrixID, job>>

TaskSent ==
    /\ Through("TASK")
    /\ Enters("SENT", "SENT")
    /\ UNCHANGED <<groupVars, runs, made, clientVars, matrices, libraries, ibcast, bcast,
                   sends, handlers, current_matrixID, job>>

\* ... run it, and meet the workers when it is done; libraries[id] of an unknown
\* library is a null pointer ...
RunHere ==
    /\ Through("SENT")
    /\ IF libraries[0][driver.cmd.id] = 0 THEN Crash("null_library", 0, 0)
       ELSE /\ Enters("RAN", "RAN")
            /\ UNCHANGED <<groupVars, runs, made, clientVars, matrices, libraries, ibcast,
                           bcast, sends, handlers, current_matrixID, job>>

\* The matrices the task returns are all there: send the workers their IDs, if
\* there are any, and meet for the last time.
Finish(ids) ==
    /\ bcast' = IF ids = <<>> THEN bcast
                ELSE ToMembers(bcast, [NoCommand EXCEPT !.op = "IDS", !.ids = ids])
    /\ Barrier(0, "DONE")
    /\ driver' = [driver EXCEPT !.at = "DONE", !.ids = ids, !.k = Len(barriers[0]) + 1]

\* ... receive the number of matrices it returns from the primary ...
ReceiveCount ==
    /\ Through("RAN") /\ sends # <<>>
    /\ sends' = Tail(sends)
    /\ IF Head(sends) = 0 THEN Finish(<<>>)
       ELSE driver' = [driver EXCEPT !.at = "INFO"] /\ UNCHANGED <<bcast, barriers>>
    /\ UNCHANGED <<groupVars, runs, made, clientVars, matrices, libraries, ibcast, handlers,
                   current_matrixID, job>>

\* ... and, for each, what it is.
ReceiveResult ==
    /\ job = Running /\ driver.at = "INFO" /\ sends # <<>>
    /\ sends' = Tail(sends)
    /\ Enters("RESULT", "RESULT")
    /\ UNCHANGED <<groupVars, runs, made, clientVars, matrices, libraries, ibcast, bcast,
                   handlers, current_matrixID, job>>

KeepResult ==
    LET ids == Append(driver.ids, [id |-> next_matrixID, thing |-> made + 1])
    IN  /\ Through("RESULT")
        /\ made' = made + 1
        /\ next_matrixID' = next_matrixID + 1
        /\ matrices' = Insert(matrices, 0, next_matrixID, made + 1)
        /\ IF Len(ids) = driver.cmd.results THEN Finish(ids)
           ELSE driver' = [driver EXCEPT !.at = "INFO", !.ids = ids] /\ UNCHANGED <<bcast, barriers>>
        /\ UNCHANGED <<groupVars, runs, loads, next_libraryID, assigned, known, libraries,
                       ibcast, sends, handlers, current_matrixID, job>>

AnswerTask ==
    /\ Through("DONE")
    /\ assigned' = [id \in MatrixIDs |->
                       IF \E i \in DOMAIN driver.ids : driver.ids[i].id = id THEN Members
                                                                             ELSE assigned[id]]
    /\ driver' = Idle
    /\ UNCHANGED <<groupVars, runs, made, loads, next_matrixID, next_libraryID, known,
                   matrices, libraries, mpiVars, handlers, current_matrixID, job>>

DriverStep ==
    \/ ReceiveGrid \/ AnswerMatrix \/ OpenLibrary \/ AnswerLibrary \/ TaskSent \/ RunHere
    \/ ReceiveCount \/ ReceiveResult \/ KeepResult \/ AnswerTask

-----------------------------------------------------------------------------
(* A worker's command loop and handler threads.                              *)

\* Numbers for a new thread of w, which tell it from the others that have not yet come to
\* a barrier, to be known by that; there are never more threads than commands.
Unused(w) ==
    (0 .. MaxMade + MaxRuns) \
        {h.k : h \in {t \in handlers : t.w = w /\ t.at \in {"START", "MAKE"}}}

\* GroupWorker::wait_for_command.
GroupCommand(w) ==
    /\ job = Running /\ ibcast[w] # <<>> /\ Unused(w) # {}
    /\ ibcast' = [ibcast EXCEPT ![w] = Tail(@)]
    /\ handlers' = handlers \cup
           {[w |-> w, op |-> Head(ibcast[w]), at |-> "START", cmd |-> NoCommand,
             k |-> CHOOSE k \in Unused(w) : TRUE, i |-> 0]}
    /\ UNCHANGED <<groupVars, runs, made, clientVars, matrices, libraries, driver, bcast,
                   barriers, sends, current_matrixID, job>>

Becomes(h, t) == handlers' = (handlers \ {h}) \cup {t}
Done(h) == handlers' = handlers \ {h}

\* Handler h goes on to `at` and enters the barrier there; the last one of a
\* handler ends it, since nothing happens after.
Meets(h, at, name) ==
    /\ Barrier(h.w, name)
    /\ Becomes(h, [h EXCEPT !.at = at, !.k = Len(barriers[h.w]) + 1])
MeetsLast(h, name) == Barrier(h.w, name) /\ Done(h)

\* The primary tells the driver something.
Tells(h, x) == sends' = IF h.w = Primary THEN Append(sends, x) ELSE sends

Takes(h) ==
    /\ bcast[h.w] # <<>>
    /\ bcast' = [bcast EXCEPT ![h.w] = Tail(@)]

Arrived(h, at) == h.at = at /\ Met(h.k)

\* Mutated forms of worker steps below.
\* A worker numbers matrices by itself.
TakeMatrixOwnCount(h) ==
    /\ h.op = "NEW_MATRIX" /\ h.at = "START" /\ Takes(h)
    /\ current_matrixID' = [current_matrixID EXCEPT ![h.w] = @ + 1]
    /\ Tells(h, 0)
    /\ Becomes(h, [h EXCEPT !.at = "MAKE", !.cmd = Head(bcast[h.w])])
    /\ UNCHANGED <<matrices, libraries, barriers, job>>

\* The second of run_task's barriers is missing.
CopyTaskOnce(h) ==
    /\ h.op = "RUN" /\ Arrived(h, "TASK")
    /\ Becomes(h, [h EXCEPT !.at = "SENT"])
    /\ UNCHANGED <<matrices, libraries, bcast, barriers, sends, current_matrixID, job>>

\* The number of matrices is sent only if there are any.
CountResultsIfAny(h) ==
    /\ h.op = "RUN" /\ Arrived(h, "RAN")
    /\ IF h.cmd.results = 0 THEN MeetsLast(h, "DONE") /\ UNCHANGED sends
       ELSE Tells(h, h.cmd.results) /\ Becomes(h, [h EXCEPT !.at = "INFO"]) /\ UNCHANGED barriers
    /\ UNCHANGED <<matrices, libraries, bcast, current_matrixID, job>>

\* GroupWorker::new_matrix: the matrix's ID goes to a field of the GroupWorker,
\* and the matrix under the ID found there.
TakeMatrix(h) ==
    LET cmd == Head(bcast[h.w])
    IN  /\ h.op = "NEW_MATRIX" /\ h.at = "START"
        /\ Takes(h)
        /\ current_matrixID' = [current_matrixID EXCEPT ![h.w] = cmd.id]
        /\ Tells(h, 0)
        /\ Becomes(h, [h EXCEPT !.at = "MAKE", !.cmd = cmd])
        /\ UNCHANGED <<matrices, libraries, barriers, job>>

MakeMatrix(h) ==
    /\ h.op = "NEW_MATRIX" /\ h.at = "MAKE"
    /\ matrices' = Insert(matrices, h.w, current_matrixID[h.w], h.cmd.thing)
    /\ MeetsLast(h, "NEW_MATRIX")
    /\ UNCHANGED <<libraries, bcast, sends, current_matrixID, job>>

\* GroupWorker::load_library.
TakeLibrary(h) ==
    /\ h.op = "LOAD" /\ h.at = "START"
    /\ Takes(h)
    /\ Barrier(h.w, "LOAD")
    /\ Becomes(h, [h EXCEPT !.at = "OPEN", !.cmd = Head(bcast[h.w]),
                            !.k = Len(barriers[h.w]) + 1])
    /\ UNCHANGED <<matrices, libraries, sends, current_matrixID, job>>

KeepLibrary(h) ==
    /\ h.op = "LOAD" /\ Arrived(h, "OPEN")
    /\ IF h.w \in h.cmd.fails THEN Done(h) /\ UNCHANGED <<libraries, barriers>>
       ELSE /\ libraries' = Insert(libraries, h.w, h.cmd.id, h.cmd.thing)
            /\ MeetsLast(h, "LOADED")
    /\ UNCHANGED <<matrices, bcast, sends, current_matrixID, job>>

\* GroupWorker::run_task.
TakeTask(h) ==
    /\ h.op = "RUN" /\ h.at = "START"
    /\ Takes(h)
    /\ Barrier(h.w, "TASK")
    /\ Becomes(h, [h EXCEPT !.at = "TASK", !.cmd = Head(bcast[h.w]),
                            !.k = Len(barriers[h.w]) + 1])
    /\ UNCHANGED <<matrices, libraries, sends, current_matrixID, job>>

CopyTask(h) ==
    /\ h.op = "RUN" /\ Arrived(h, "TASK")
    /\ Meets(h, "SENT", "SENT")
    /\ UNCHANGED <<matrices, libraries, bcast, sends, current_matrixID, job>>

\* What may end worker w when it uses its matrix under id: it has none; or the grid
\* that the matrix points to went with the group it was made in, which may go well.
Trouble(w, id) ==
    IF matrices[w][id] = 0 THEN {"null_matrix"}
    ELSE IF matrices[w][id] <= formed THEN {"freed_grid", "none"} ELSE {"none"}

\* The library runs, on the matrix it is given, if any.
RunTaskHere(h) ==
    /\ h.op = "RUN" /\ Arrived(h, "SENT")
    /\ \E why \in IF libraries[h.w][h.cmd.id] = 0 THEN {"null_library"}
                  ELSE IF h.cmd.arg = 0 THEN {"none"} ELSE Trouble(h.w, h.cmd.arg) :
          IF why = "none" THEN Meets(h, "RAN", "RAN") /\ UNCHANGED job
          ELSE job' = Ended(why, h.w, h.cmd.arg) /\ UNCHANGED <<handlers, barriers>>
    /\ UNCHANGED <<matrices, libraries, bcast, sends, current_matrixID>>

\* read_matrix_parameters: the primary sends the number of matrices, ...
CountResults(h) ==
    /\ h.op = "RUN" /\ Arrived(h, "RAN")
    /\ Tells(h, h.cmd.results)
    /\ IF h.cmd.results = 0 THEN MeetsLast(h, "DONE")
       ELSE Becomes(h, [h EXCEPT !.at = "INFO"]) /\ UNCHANGED barriers
    /\ UNCHANGED <<matrices, libraries, bcast, current_matrixID, job>>

\* ... then what each of them is, and all meet, ...
SendResult(h) ==
    /\ h.op = "RUN"
    /\ h.at = "INFO" \/ (h.i < h.cmd.results /\ Arrived(h, "RESULT"))
    /\ Tells(h, 0)
    /\ Barrier(h.w, "RESULT")
    /\ Becomes(h, [h EXCEPT !.at = "RESULT", !.i = @ + 1, !.k = Len(barriers[h.w]) + 1])
    /\ UNCHANGED <<matrices, libraries, bcast, current_matrixID, job>>

\* ... and at last the driver broadcasts their IDs.
KeepResults(h) ==
    LET ids == Head(bcast[h.w]).ids
        got(id) == {ids[i].thing : i \in {j \in DOMAIN ids : ids[j].id = id}}
    IN  /\ h.op = "RUN" /\ h.i = h.cmd.results /\ Arrived(h, "RESULT")
        /\ Takes(h)
        /\ matrices' = [matrices EXCEPT ![h.w] =
               [id \in MatrixIDs |->
                   IF @[id] = 0 /\ got(id) # {} THEN CHOOSE t \in got(id) : TRUE ELSE @[id]]]
        /\ MeetsLast(h, "DONE")
        /\ UNCHANGED <<libraries, sends, current_matrixID, job>>

HandlerStep(w) ==
    /\ job = Running
    /\ \E h \in {t \in handlers : t.w = w} :
           \/ TakeMatrix(h) \/ MakeMatrix(h) \/ TakeLibrary(h) \/ KeepLibrary(h)
           \/ TakeTask(h) \/ CopyTask(h) \/ RunTaskHere(h)
           \/ CountResults(h) \/ SendResult(h) \/ KeepResults(h)
    /\ UNCHANGED <<groupVars, runs, made, clientVars, driver, ibcast>>

\* GroupWorker::set_value or get_value for a client that sends or asks for rows of
\* a matrix it was told of, in the worker's place in the grid the matrix has.
AccessMatrix(w, id) ==
    /\ job = Running
    /\ w \in assigned[id]
    /\ \E why \in Trouble(w, id) :
          IF why = "none" THEN UNCHANGED vars ELSE Crash(why, w, id)

-----------------------------------------------------------------------------
\* Driver and workers have done all of the commands: no worker still has a command code,
\* a broadcast or a message, nor a thread but one that has still to find that the
\* library does not load, and they have entered the same barriers.
Even ==
    /\ sends = <<>>
    /\ \A h \in handlers : h.at = "OPEN" /\ h.w \in h.cmd.fails
    /\ \A w \in Workers : ibcast[w] = <<>> /\ bcast[w] = <<>>
    /\ \A w \in Members : barriers[w] = barriers[0]

\* The group is made anew with n workers, for its client or for another one whose
\* GroupDriver is new; GroupLifecycle shows that it is whole again, on a
\* communicator and a grid of its own, before the client is answered.  (A group that
\* is out of step by a library that went astray is not changed here.)
ChangeGroup(n, newClient) ==
    /\ job = Running /\ driver = Idle
    /\ changes < MaxChanges
    /\ Even
    /\ n # size \/ newClient
    /\ changes' = changes + 1
    /\ size' = n /\ formed' = made
    /\ joined' = [w \in Workers |-> IF w <= size /\ ~ newClient THEN joined[w] ELSE made]
    /\ barriers' = [p \in Ranks |-> <<>>]
    /\ handlers' = {[h EXCEPT !.k = 0] : h \in handlers}
    /\ IF newClient
       THEN /\ base' = made /\ loads' = 0
            /\ next_matrixID' = 1 /\ next_libraryID' = 2
            /\ matrices' = [matrices EXCEPT ![0] = [id \in MatrixIDs |-> 0]]
            /\ libraries' = [libraries EXCEPT ![0] = [id \in LibraryIDs |-> 0]]
            /\ assigned' = [id \in MatrixIDs |-> {}]
            /\ known' = {}
       ELSE UNCHANGED <<base, clientVars, matrices, libraries>>
    /\ UNCHANGED <<astray, runs, made, driver, ibcast, bcast, sends, current_matrixID, job>>

Next ==
    \/ NewMatrix
    \/ \E fails \in NotLoadable : LoadLibrary(fails)
    \/ \E lib \in known, arg \in 0 .. MaxMade + 1, n \in 0 .. MaxResults : RunTask(lib, arg, n)
    \/ DriverStep
    \/ \E w \in Workers : GroupCommand(w) \/ HandlerStep(w)
    \/ \E w \in Workers, id \in MatrixIDs : AccessMatrix(w, id)
    \/ \E n \in 0 .. NumWorkers, newClient \in BOOLEAN : ChangeGroup(n, newClient)

Fairness ==
    /\ WF_vars(DriverStep)
    /\ \A w \in Workers : WF_vars(GroupCommand(w)) /\ WF_vars(HandlerStep(w))

Spec == Init /\ [][Next]_vars /\ Fairness

-----------------------------------------------------------------------------
Answered == job = Running /\ driver = Idle

(* Every variable has its type. *)
TypeOK ==
    /\ size \in 0 .. NumWorkers /\ joined \in [Workers -> 0 .. MaxMade]
    /\ base \in 0 .. MaxMade /\ formed \in base .. MaxMade /\ astray \subseteq Things
    /\ changes \in 0 .. MaxChanges /\ runs \in 0 .. MaxRuns
    /\ made \in 0 .. MaxMade /\ loads \in 0 .. MaxMade
    /\ next_matrixID \in MatrixIDs /\ next_libraryID \in LibraryIDs
    /\ matrices \in [Ranks -> [MatrixIDs -> 0 .. MaxMade]]
    /\ libraries \in [Ranks -> [LibraryIDs -> 0 .. MaxMade]]
    /\ assigned \in [MatrixIDs -> SUBSET Workers]
    /\ known \subseteq [id: LibraryIDs, thing: Things]
    /\ driver.at \in {"IDLE", "GRID", "MADE", "LOAD", "LOADED", "TASK", "SENT", "RAN",
                      "INFO", "RESULT", "DONE"}
    /\ ibcast \in [Workers -> Seq({"NEW_MATRIX", "LOAD", "RUN"})]
    /\ sends \in Seq(0 .. MaxResults)
    /\ \A h \in handlers : h.w \in Workers
    /\ current_matrixID \in [Workers -> 0 .. MaxMade + 1]
    /\ job \in [why: {"running", "null_library", "null_matrix", "freed_grid"}, p: Ranks,
                id: {0} \cup MatrixIDs]

(* When a client is answered, its command is over, in every worker, so the   *)
(* next one starts even.                                                     *)
CommandOver == Answered => Even

(* What the driver has under an ID, every worker that was in the group when  *)
(* it was made has under the same ID; unless map::insert found there what    *)
(* the worker keeps of a client before this one.                             *)
SameThings ==
    Answered =>
        \A w \in Members :
            /\ \A id \in MatrixIDs : matrices[0][id] > joined[w] =>
                   matrices[w][id] = matrices[0][id] \/ matrices[w][id] \in 1 .. base
            /\ \A id \in LibraryIDs : libraries[0][id] > joined[w] =>
                   libraries[w][id] = libraries[0][id] \/ libraries[w][id] \in 1 .. base

(* A library ID that a client was told of stands for the library it asked    *)
(* for, as long as the ID's 8 bits have not come round; no two are the same. *)
LibraryKept ==
    loads <= LibraryIDSpan - 3 =>
        /\ \A lib \in known : libraries[0][lib.id] = lib.thing /\ lib.id # 0
        /\ \A a, b \in known : a.id = b.id => a = b

(* A client that uses what it was told of, where it was told that it is,     *)
(* ends the job only by something older than its group's last change: it has *)
(* a library run, or a library take a matrix, on a worker that joined the    *)
(* group later; or it uses a matrix that points to the grid of a group that  *)
(* is gone, one of its own or, under the same ID, one that the worker keeps  *)
(* of a client before.  Or a library has gone astray: the driver then        *)
(* answers before the workers are done, and handlers of two commands overlap.*)
OnlyOldThingsFail ==
    job # Running =>
        \/ job.why = "null_library" /\ joined[job.p] >= driver.cmd.thing
        \/ job.why = "null_matrix" /\ joined[job.p] >= matrices[0][job.id]
        \/ /\ job.why = "freed_grid"
           /\ matrices[0][job.id] <= formed \/ matrices[job.p][job.id] <= base
        \/ astray # {}

(* A process's k-th barrier on the group is the same in the program as       *)
(* everybody else's k-th, until a library loads in a worker and not in the   *)
(* driver: the worker's second barrier is then the driver's next one.        *)
BarriersAgree ==
    astray = {} =>
        \A p, q \in Members \cup {0} : \A k \in DOMAIN barriers[p] \cap DOMAIN barriers[q] :
            barriers[p][k] = barriers[q][k]

(* When a client is answered its workers have come as far as the driver: just *)
(* as far, until a library goes astray; from then on the driver's answers run *)
(* ahead of what the workers have done, for good, though never by more than   *)
(* one barrier for each library that the client asked for and did not get.    *)
AheadByAstray ==
    Answered =>
        \A w \in Members :
            /\ Len(barriers[w]) - Len(barriers[0]) \in 0 .. loads - Cardinality(known)
            /\ astray = {} => barriers[w] = barriers[0]

(* The client is answered, whatever its task returns and whether its library *)
(* loads or not, with two exceptions that leave the driver, and with it      *)
(* every client, waiting: the library loads in the driver and not in some    *)
(* worker, which does not come to the driver's barrier; or one has loaded in *)
(* the workers alone, and the next task's workers wait in the last barrier   *)
(* before they tell what it returns, for a driver that waits to be told.     *)
CommandAnswered ==
    driver # Idle ~> \/ driver = Idle \/ job # Running
                     \/ driver.at = "LOADED" /\ driver.cmd.fails # {}
                     \/ driver.at = "RAN" /\ astray # {} /\ sends = <<>>
=============================================================================
