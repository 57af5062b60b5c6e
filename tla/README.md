# Alchemist in TLA+

TLA+ models of the Alchemist server (`src/src/main`), the TLC configurations
that check them on small instances, and proofs that TLAPS checks for every
value of the constants. This file says what the system's parts are, which
module models which of them, what is checked and proved, and what is left.

Run a model with `tlc -config <file>.cfg <module>.tla`, a proof with
`tlapm <module>Proofs.tla`. `PROJECT.json` lists the runs, the properties of
each, the theorems, the lines of code behind every definition, and the hazards
of the code.

## 1. The system

Alchemist is one MPI job. Rank 0 is the **driver**, ranks 1..N are **workers**
(`main.cpp`). A client (Spark, for instance) opens a TCP connection to the
driver, asks for workers, opens a connection to each of them, sends matrices
row by row or block by block, loads a library, runs a task of it, and fetches
the matrices the task has returned. Commands travel from the driver to the
workers by MPI, matrix entries between client and workers by TCP.

| Component | State | Operations | Works with |
|---|---|---|---|
| Worker allocation (`Driver.cpp`, `DriverSession.cpp`) | `unallocated_workers`, `workers[w]->groupID`, `groups[g]->workers`, `next_groupID` | `new_group`, `allocate_workers`, `deallocate_workers`, the `list_*` functions | every change ends in `set_group_communicator` |
| Group communicators (`Driver.cpp`, `GroupDriver.cpp`, `Worker.cpp`, `GroupWorker.cpp`) | `GroupDriver::group`; in a worker `group`, `group_peers`, `grid`, `connection_open`, `primary_group_worker` | `set_group_communicator`, `free_group`, `ready_group`; `handle_new_group`, `wait_for_command`, `handle_free_group`, `handle_group_open_connections`, ... | broadcasts, sends and barriers on the world's and the groups' communicators |
| Client commands (`GroupDriver.cpp`, `GroupWorker.cpp`) | `matrices`, `libraries`, `next_matrixID`, `next_libraryID`, `current_matrixID` | `new_matrix`, `load_library`, `run_task`, `set_value`, `get_value` | broadcasts, barriers and messages on the group's communicator |
| Workers' connections (`GroupWorker.cpp`, `WorkerSession.cpp`, `Session.cpp`) | the acceptor, one `io_context`, `sessions`, `next_sessionID`, a read and a write message per session | `accept_connection`, `new_session`, `read_header`, `read_body`, `handle_message`, `flush` | clients by TCP; matrices of the GroupWorker |
| Driver's sessions (`DriverSession.cpp`, `Session.cpp`) | `sessionID`, `clientID`, the two messages | handshake, dispatch of client commands | worker allocation and client commands, by calls |
| Message codec (`Message.hpp`, `datatype.hpp`, `endian.hpp`) | the buffer, `read_pos`, `write_pos`, `body_length` | `put_*`, `get_*`, `write_*`, `read_*` | every session, `run_task` |
| Matrix blocks (`Alchemist.hpp`) | row and column ranges, data | `write_next`, `read_next` | codec, worker sessions |
| Start-up (`main.cpp`, `Driver.cpp`, `Worker.cpp`) | `workers` | `start_workers`, `register_workers`; `start`, `send_info` | the world's communicator |
| Logging (`utility/logging.hpp`) | sinks of a process's logger | `start_log`, `info` | every thread of a process |

**What is hard in it.** The driver is single-threaded: `accept_connection` runs
the `io_context` inside its own accept handler, so all sessions share one
thread, and a handler that blocks in MPI blocks every client. The workers are
the opposite: the world's command loop spawns a thread for each broadcast, the
thread of a `NEW_GROUP` becomes a second command loop on the group's
communicator, that loop spawns a thread for each command of the group, the
thread of an `OPEN` spawns one more that serves clients - and all of them share
the fields of one `GroupWorker`, which is made for the worker's first group and
never replaced, without a lock. Order between them comes only from barriers,
from polling intervals (200 ms, 500 ms) and from one ten-second `usleep`.

**What makes it correct.** A worker belongs to one group at a time, and the
three places that say so agree. When a client has its answer, its group is
whole: the right workers, on the right communicator, listening, open to
clients. Workers that were given back are detached. Driver and workers agree on
which matrix or library an ID stands for, and each command's exchange of
broadcasts, barriers and messages is over when the client is told so. A client
that asks is answered; a client that connects to an open worker is accepted.

## 2. Modules

| Module | Models | Checked by | Proved |
|---|---|---|---|
| `WorkerLease` | what the driver promises about workers: grants of the lowest free ones, returns of a group's own (abstract) | - | - |
| `WorkerPool` | the driver's three records of who owns a worker | `MCWorkerPool` | `WorkerPoolProofs` |
| `GroupService` | what a client gets of its group's communicator: a change in which all workers stop and then just the right ones start (abstract) | with `GroupLifecycle` | `GroupServiceProofs` |
| `GroupLifecycle` | making, changing and freeing a group's communicator, all threads of all processes | `MCGroupLifecycle` | `GroupLifecycleProofs`, `GroupServingProofs` |
| `GroupCommands` | matrices, libraries and tasks of a group | `MCGroupCommands` | `GroupCommandsProofs` |
| `WorkerConnections` | a worker's acceptor, `io_context` and sessions | `MCWorkerConnections` | `WorkerConnectionsProofs` |
| `DriverSessions` | the sessions of the driver's clients on its one thread, and the one buffer of each | `MCDriverSessions` | `DriverSessionsProofs` |
| `MessageCodec` | what `put_*`, `write_*`, `get_*`, `read_*` and `MatrixBlock` do to a message (operators) | with `MatrixTransfer` | - |
| `MatrixTransfer` | a client's handshake, matrix, entries and task parameters through the server | `MCMatrixTransfer` | - |
| `WorkerStartup` | `main`, start and registration of the workers | `MCWorkerStartup` | `WorkerStartupProofs` |
| `LogSink` | the sinks of a process's logger | itself | - |

How they fit together: `WorkerPool` treats `set_group_communicator` by its
outcome for the driver; `GroupLifecycle` models that function and what the
workers do, and takes the changes of membership from `WorkerLease`, which
`WorkerPool` is proved to implement; in turn it is checked, and for its safety
proved, to implement `GroupService`, whose members are `WorkerLease`'s. `GroupCommands` starts where
`GroupLifecycle!GroupReady` ends, with a whole group whose workers are 1..k
(`WorkerPool!OneActiveGroup`) and whose first worker is the primary
(`GroupLifecycle!OnePrimary`). `WorkerConnections` is one worker under the OPEN
and CLOSE commands that `GroupLifecycle` shows to alternate. `WorkerStartup`
ends in the states in which `WorkerPool` and `GroupLifecycle` begin.
`DriverSessions` has the commands of all clients by when they are answered;
what they do is in `WorkerPool`, `GroupCommands` and `MatrixTransfer`, which
EXTENDS `MessageCodec`.

### WorkerPool

One action per handler, since handlers of the driver run to their end one
after another: `NewGroup` (`accept_connection`, `new_group`), `RequestWorkers`
(`handle_request_workers`, `allocate_workers`), `YieldWorkers`
(`handle_yield_workers`, `deallocate_workers`). `get_process_grid`, at the end
of `set_group_communicator`, receives from rank *workerID* of the group's
communicator; for a group whose workers are not 1..k that rank does not exist,
and MPI ends the job. `Outcome` says so, and `driver` is then "aborted". With
group ID 0, which the 16-bit counter reaches after 65,535 connections, the
workers believe they are no members and the driver waits for ever ("blocked").
The message of a yield lists each ID once.

### GroupLifecycle

An *epoch* is a call of `set_group_communicator`, and the communicator it
makes. The driver is one thread that goes from collective to collective
(`driver.at`). A worker has its world loop (`worldIn`), threads about to receive the
details of a group (`newGroup`, `sends`), the threads that became command
loops (`loop`), and handler threads (`handlers`). Blocking collectives are
counted: `entered[e][p]` lists what process p has entered on e, and the k-th
lets go when everybody has entered k (`Met`). MPI_Ibcast has a queue per
worker. What the code reads from a shared field, the action reads from `gw`
when the thread gets there.

The workers' own communicator has two handles in a GroupWorker: `group_peers`,
and `El_group_peers`, a copy of it that is made after the peers have met twice
(line 48), for the grid. `handle_free_group` frees it by the copy (line 151),
sleeps ten seconds, and frees what `group_peers` holds by then (line 156): in a
worker that has left the group, the same communicator again; in one that has
stayed and joined its next group, the new one. `gw.freed` says which of them MPI
has freed for a worker, and `Misuse` what it does with such a handle: with a null
one the job ends ("null_comm"), and a freed one has no defined outcome, so the job
ends ("freed_comm") or the thread goes on as if the communicator was there. The
threads that make a group's communicator take the same handles, step by step
(`CreatePeers` to `MakeGrid`), and may meet freed ones as well (`PeersMisuse`).

`Prompt` names five races of the code that this model contains and a run may
decide the usual way: a loop posts its next broadcast before the handler it
spawned resets `group` ("repost"); a FREE handler is done with `group` and has
looked at `group_peers` before its worker, which polls, joins a new group
("release"), and so is every handler of that group with its meeting and with
`El_group_peers` ("meet"); the next group forms during the ten-second sleep
("sleep"); clients leave ten seconds between two changes ("pause"). Left undecided,
each can end the job or strand a thread: without "repost" a loop broadcasts
on MPI_COMM_NULL; without "release" a FREE handler meets or frees the new group;
without "meet" it frees the copy that the new group's grid is about to be built on; without
"sleep" a grid is built on a communicator that was just freed; without "pause" a
second sleeper frees MPI_COMM_NULL. These are real hazards, listed with their
lines. Of the five, what the proofs need is "repost" and "release" alone, and the
run `lifecycle_hasty` has no others; `lifecycle` has all five, under which the double free is the
one thing left that can end the job after a change. Even then, the sleeper frees the *new*
group's peers communicator on a worker that stays - which is why `GroupReady` says
`group_peers \in {e, 0}` - and the FREE thread of a worker that joined later can
wait for good in a barrier of that communicator; `WorkerReleased` states exactly
that exception.

### GroupService

What remains of all that for the client: `Begin` (members granted or given
back), `Stop(w)` and `Start(w)`, `AllStopped` between them, `Complete` when just
the members serve; `Fail`, the end of the job, which needs a worker whose ID
is above the group's size; and `Break`, its end by a handle that was freed, which
needs a group that was served to have been changed (`worn`). Its specification also says that each change comes
to its end. `GroupLifecycle!ServiceSpec` implements it: `serving[g]` are the
workers whose `connection_open` is set and whose command loop listens on g's
communicator, `change` is where the driver's thread is, `worn` is that the driver
has entered the CLOSE of some group, `up` is that no process
has ended the job. So a worker cannot stop, start or crash at a time the
abstract one does not: until a group that was served is changed it does not
crash but for the driver's mistake about ranks, and no barrier, broadcast or
thread ever keeps a client waiting for good.

### GroupCommands

The driver's thread goes through `new_matrix`, `load_library` and `run_task`
barrier by barrier, each worker's handler through its own copy of the
sequence. A *thing* is a matrix or library in the order in which they were
asked for, and `matrices[p][id]`, `libraries[p][id]` say which thing process p
has under an ID. Libraries fail to load on a set of processes that the
configuration allows: none, all, one of the workers, or the driver alone. In the
last case the library goes *astray*: the driver
answers 0 without its second barrier, the workers enter theirs, and it is met
by the driver's next one, whatever that is for (`OpenLibrary`, `astray`).
The group grows, shrinks or changes hands in
`ChangeGroup`; a new client's GroupDriver starts its counters anew while the
workers keep what they have, and `insert` leaves an entry that is there alone.
A group that is out of step is not changed (`Even`): FREE_GROUP's barriers would
meet those of commands, of which `GroupLifecycle` knows nothing. Out of step, a
worker can have two threads that are alike in everything but that they are two;
`handlers` is a set, so a thread gets a number of its own (`Unused`) until it comes
to its first barrier, by whose place it is known from then on.

`formed` is what had been made when the group changed last: a worker's matrices
point to the El::Grid of the group they were made in, FREE_GROUP drops it
(`handle_free_group`), and the matrices stay. Using one of them later - by a
task that takes it (`RunTask`'s `arg`) or by a client that sends or fetches its
entries (`AccessMatrix`) - reads an object that is gone, so `Trouble` lets it
end the job ("freed_grid") or go well.

### WorkerConnections

The `io_context` is modelled as the code uses it: pending operations, a queue
of handlers, and threads that run it, also from inside an accept handler
(`depth`). It stops when its work runs out, and nothing restarts it. Clients
connect at any time (the listening socket exists from the start), send a
request only after the last one was answered, and leave at any time. A reply
is "full" unless `write_msg` was cleared between filling and flushing.
An accept can fail (`FailAccept`: no descriptors, no buffers): its handler makes no
session and goes on to `accept_connection` as the others do, so after a CLOSE it
gives up the accept that was left, and with it maybe the last work. Session IDs
have `NumSessionIDs` values, 2^16 in the code, and come round, while `sessions` never
loses an entry: an ID that is there already has its old session started again
(`fault` "restarted"). The constructor of a session asks the socket for the
client's address, and throws if the client has reset the connection by then
("no_endpoint"). After a fault the model claims nothing more (`Sound`).
A client whose `Sends` has "NOT_ROWS" may send as rows what is none: `handle_send_indexed_rows`
catches the exception inside its loop, whose position has not moved, so the
thread stays in it ("ROWS") and is lost (`Looping`: all that are left are).

### LogSink

Which sinks lock: `start_log` gives every logger a console sink of an `_mt`
type and a file sink of an `_st` type.

### DriverSessions

`HandleMessage` is `DriverSession::handle_message` with every command sorted by
what it does to the chain of reads and writes: answered at once, answered after
the group's workers have met the driver (`WorkersDone`; the thread does nothing
else until then), or not answered. The body of a request comes with its header.
asio sends an answer in parts of at most 64 KB, so an answer is one or two
parts, each read from the session's one buffer when it is sent, and a part goes
out when the socket has `Room`. A *patient* client begins with a handshake and
waits for each answer; an *eager* one does not wait, and may leave while the
driver is busy with its request or has a write waiting (at any other time
leaving is the same to the driver as asking nothing more).

### MessageCodec and MatrixTransfer

A body is a sequence of fields with kind, length and value; a reader that
expects another kind or length than is there has failed, and so has all that
follows. Integers have their width over bytes of `Byte` values, doubles are a
number and a byte order. `MatrixTransfer` takes one client, group and matrix
through everything: `ShakeHands` (with the header of both messages, and with
handshakes that fail on a word, a double or the block), `RequestWorkers`,
`CreateMatrix`, `ReceiveBlocks`, `SendBlocks`, `ReceiveRows`, `SendRows` and
`RunTask`. The client is not in the repository: it reads and writes as the
server does with its own settings, and computes its blocks from the MatrixInfo
it was sent. Elemental's distributions are modelled by their shift and stride.

### WorkerStartup

`Main` is what a process does until it is a driver, a worker or on its way to
`MPI_Finalize`; `fails` are the processes whose constructors throw. The driver
goes from `start_workers` to `register_workers` to `accept_connection`; a worker
has its loop and a thread for each broadcast. Barriers on the world are counted
as in `GroupLifecycle`.

## 3. What is checked

Every property of a passing run was also tested against a mutated form of the
model, named next to the code it mutates, under which TLC finds it violated.

| Run | Instance | Shows |
|---|---|---|
| `pool` | 4 workers, 4 group IDs, 5 connections, requests up to 5 | `WorkersPartitioned`, `ListingsAgree`, `HonestReply`; `OneActiveGroup`: only one client at a time can hold workers; `LoneClientServed`: the sort in `deallocate_workers` keeps a lone client safe; `FreshGroup` until the counter wraps; `LeaseSpec`: refinement of `WorkerLease` |
| `lifecycle` | 2 workers, 2 clients, 4 epochs, all of `Prompt` | `GroupReady`, `Detached`, `OnePrimary`, `ClosedBeforeFreed`, `WorkerReleased` |
| `lifecycle_hasty` | 2 workers, 2 clients, 3 epochs, "repost" and "release" alone | `CollectivesAgree`, `DetailsAreLast`; `ServiceSpec`: implements `GroupService`, with its liveness, however the changes' threads overlap |
| `commands` | 2 workers, 3 things, 1 task, 2 group changes | `CommandOver`, `SameThings`; `OnlyOldThingsFail`: what a client uses ends the job only if it is older than its group's last change |
| `commands_wrap` | 1 worker, 6 library IDs, 6 loads | `LibraryKept` until the 8-bit counter comes round |
| `commands_partial` | 2 workers, 3 things, 1 task, 1 group change; libraries that load everywhere, nowhere, not in one worker, or not in the driver alone | `BarriersAgree` until a library goes astray, `AheadByAstray` after it, `CommandAnswered`: the two ways to wait for ever |
| `connections` | 3 clients, one with 2 requests, 2 OPENs, 1 failed accept, 2 session IDs | `OneThreadIsSafe`, `LateBounded`, `WhyStopped` |
| `connections_live` | 2 clients with a request each, one of which may be rows that are none, 2 OPENs, 1 failed accept | `ClientAccepted`, `RequestAnswered` |
| `sessions` | a patient and an eager client, 3 requests each | `AnswersWhole`, `NeverRefused`, `RequestAnswered` |
| `transfer` | 13 groups and matrices in 9 layouts, 6 kinds of client, 1 failed handshake | `ReadAsWritten`, `SettingsAgree`, `EntriesArrive`, `FetchedIsSent`, `ParametersAgree` |
| `startup` | 3 workers, 4 ports, 3 buffer lengths, no process failing, each kind alone, or all | `ServesOrEnds` |
| `log_sink` | 2 threads, 1 message each | a violation: `readme.md` line 23 names spdlog "for thread-safe logging", and two threads meet in the file sink |

**Bounds.** `MaxRequest`, `MaxConnections`, `MaxEpochs`, `MaxMade`, `MaxRuns`,
`MaxChanges`, `MaxResults`, `MaxOpens`, `MaxRequests`, `MaxFailures`, `MaxInvalid` and
`MaxMessages` stop a behaviour; each is a constant and stands in a guard. They are large enough for
what they are about: four workers let a yield leave a gap below, inside and
above another client's workers; five connections on four group IDs pass the
null group and re-use a live one; three epochs are a group made, changed and
changed again (the fourth of `lifecycle` lets the other client do so or come in
between), which is what it takes for two FREE handlers to overlap, for
one of them to free a later group's communicator, and for a worker to leave and
come back, the primary too; three connections are one more than there are session
IDs in `connections`, and one failed accept is enough to take the last one left; six loads
go once round the IDs a span of six has; two OPENs are two threads in
the `io_context`, and every later one adds a thread of the same kind. The
library counter is six values wide instead of 256 and the group counter four
instead of 65,536: their wrap is the same at any width, and for the group
counter, and for session IDs, which have two values instead of 65,536, the proofs
are for every width. `next_matrixID` has 16 bits as well: `MaxMade` and
`MaxResults` keep the model's below the end, where the run's and the theorems'
matrices are told apart by their IDs as the code's are.

In `sessions`, three requests are a handshake, a task whose answer has two parts
(`Long`) and one that overtakes its second part; `Room` of one part is what makes
a write wait. In `transfer`, `Shapes` has grids of one to four workers, matrices
with more and with fewer rows and columns than the grid, and layouts with each
kind of distribution; `Clients` has a language with unsigned integers, Scala,
whose blocks are turned, and one with signed integers whose blocks are not, in
both byte orders. `Byte` is 14 instead of 256 so that eight bytes fit TLC's
integers; what is done to an integer depends on its width in bytes and its sign
alone, and the largest value of each width is among the parameters. One failed
handshake is enough for its settings to be there at the next. In `startup`, the
ports are the two limits and one beyond each, and the same for the buffer.

**Deadlock** is not checked: a bound that is reached stops the system, clients
owe it nothing, and the driver or a worker's thread may really wait for ever
(the cases are those that `RequestAnswered`, `WorkerReleased` and
`CommandAnswered` except by name).

**Fairness.** Every thread that can take a step does so in the end: weak
fairness of the driver's steps, of each worker's loops and handlers, in
`WorkerConnections` of each thread and of each connection's completions, and in
`DriverSessions` of the thread and of each socket. These
are threads of an operating system's scheduler, MPI's progress and a reactor
that reports every ready descriptor, and no lock is contended for, so weak
fairness is enough. (In `DriverSessions` the thread looks at its sockets only
when no handler holds it; it is held as often as there are requests, a bounded
number of times.) Nothing is assumed of clients - they need not ask, answer or
leave - but that a patient one of `DriverSessions` takes the answer it waits for.

**Findings.** `log_sink`. The runs also show, without a document to
contradict: only one client at a time can hold workers (`OneActiveGroup`); a
library run by a worker that joined after it was loaded is a null pointer, and a
matrix used after its group has changed points to a grid that is gone
(`OnlyOldThingsFail`); a library that does not load in one worker blocks the
driver, and one that loads in the workers alone makes the driver's next answers
run ahead of the workers for good, which blocks the next task (`CommandAnswered`, `AheadByAstray`); rows that are none
take a worker's thread, and with one group its only one, from all clients
(`ClientAccepted`); a worker that is opened for a second group has two
threads in its sessions, which can cut a reply or start a session twice, and a
client that comes to a closed worker and leaves, or an accept that fails there,
makes that worker deaf (`OneThreadIsSafe` and `WhyStopped` say when these cannot happen); a client that
sends its next request before it has taken the whole answer gets parts of other
answers (`AnswersWhole`); the entries of a client whose blocks have the other
byte order are stored turned unless it is a Scala client (`EntriesArrive`,
`Understood`); a worker that is given back frees the communicator of its peers twice, which an
MPI that checks its arguments ends the job for (`ServiceSpec`, `WorkerReleased`, and
`EndsAreExplained` below); and a job one of whose processes cannot start never ends
(`ServesOrEnds`).

## 4. What is proved

`WorkerPoolProofs` proves every property of the `pool` run as a theorem of
`WorkerPool!Spec`, for any `NumWorkers`, any `GroupIDSpan` of at least 2, any
`MaxRequest` and `MaxConnections`; these are the only assumptions
(`PoolAssumption`).

None of the properties is inductive alone. The inductive invariant `Inv`
conjoins the types and the partition with what links the other records to it:
`OwnersAgree` (`info_groupID` is g exactly for the members of g, for every g but
the null group's), `GroupsServed` (while the driver
serves, each non-empty group's IDs are ranks and group 0 is empty) and
`GroupsCounted` (which groups exist, given the number of connections), with
`HonestReply`. It is kept by each handler: `AllocateFacts` and
`DeallocateFacts` say what the handler does to vector and maps, from
`SortedOnce`, `OrderOnce` and `AppendOnce` (sorting, listing and appending
keep each worker once); `NewGroupStep`, `AllocateStep`, `DeallocateStep` and
`AnswerStep` carry `Inv` over them; `Invariant` combines the steps.

`OneGroupAtATime` needs one idea more, `RanksArePrefix`: a finite set of
positive numbers none of which exceeds its size is 1..k. Two such sets of
different groups would share worker 1, against the partition. `LoneClient` is
the converse: a set with no gap below any member has a rank for each
(`NoGapHasRanks`), and what a lone client does not hold is the ascending
vector, so a grant from its front leaves no gap.
`Refinement` maps `held` to `members`: a grant takes a prefix of the ascending
vector, which is `WorkerLease!Grant`; a yield is `Return`; the rest stutters.

`GroupServiceProofs` proves what the abstract service promises, with no
assumption on workers and groups: `WholeGroups` (a client whose group is not
changing is served by just the workers it holds), `OneClientEach` (no worker
serves two groups, nor one while another already holds it), and
`ServiceIsLease`, that it implements `WorkerLease`. The invariant adds to
`Whole` that no worker is held twice (`Disjoint`) and where a change is
(`Changing`): the workers that still have to stop are held by nobody else, since
nothing is granted during a change, and none but its own start.

**`WorkerConnectionsProofs`** proves the four safety properties of the
`connections` run, for any clients, any number of requests, of OPENs and of failed
accepts, and any number of session IDs. Its
invariant, `Good`, follows a connection through the `io_context`: its read is in
one place (`OneRead`: waiting, completed, or in a handler), so is its request
(`OneRequest`: with the client, unread, in a handler, or in the reply on its way
back), and `Stage` relates both to the client's end. `LateBounded` needs
counts that no single place shows: each OPEN brings one accept, which is armed,
completed, failed, in a handler, or has found the worker closed (`Tokens`), and every
accept handler that did not has run the `io_context` once more (`Nested`, `Deep`),
from which `WhyStopped` follows.
`OneThreadIsSafe` is proved from `Single`, that with one thread a handler's two
steps are not parted, and from `Numbered`, that it gives out the IDs in turn: one
that is met again is met when all have been used. `Inv` says that `Good` lasts until a fault: two threads in
one session can break it, which is what the property excludes.

**`DriverSessionsProofs`** proves the two safety properties of the `sessions` run,
for any clients, commands, requests and room. The invariant has five parts for
each client. `ChainOf`: its session is in one place of the chain of handlers.
`OneWriteOf`: as long as the client is promised whole answers, at most one write
is open for it, waiting for room or with a part's completion in the queue, and what
is due to the client is what is on the wire and what that write has yet to send,
*read from the buffer as it is now* - so nobody may write into the buffer before.
`InOrderOf` is why nobody does for an eager client: the completion of a part is
ahead of the next request in the queue, and the thread waits for no workers in
between. `PatienceOf` is why nobody does for a patient one: what it asked is on its
way, held up, or being answered, and only requests without an answer come before
it; it also ties the ID the client knows to the session's, directly or through the
parts that are due. `KeptOf` is the conclusion. A step for one client leaves the
invariant of the others alone (`Elsewhere`) wherever their completions move in the
queue (`Passed`).

**The group's life.** Two modules prove the safety properties of the two
`lifecycle` runs for any workers, groups, epochs and membership changes, by one
invariant that grows:

* `GroupLifecycleProofs` supposes nothing of `Prompt`: `TypeCorrect`,
  `LastDetails` and `PrimaryIsLowest`. The invariant says where the driver is in
  its work (`AtWork`), that an epoch not yet announced has no trace in any
  process (`Fresh`), that a thread in a communicator is a member's (`Joined`), how
  far the details sent to a worker are ahead of it (`Details`), and that the
  members of a group are the lowest workers as long as the job is up (`Ranked`),
  which the driver's receiving from rank *workerID* enforces.
* `GroupServingProofs` supposes `Orderly`: "repost" and "release" are in `Prompt`.
  A communicator goes through one `Script`, CREATE FORM PRINT OPEN GRID CLOSE
  FREE, and `Steps[e][p]` says how many of them p has entered. `Driving` ties the
  driver's number to `driver.at`; in `Following`, `Stage` ties each worker's to
  its loop's place, its broadcasts and its handlers, and no worker is more than
  a step from the driver's. `Held`, `Works` and `Released` tie the fields of the
  shared GroupWorker to the number: which of its communicator, grid and
  `connection_open` a thread finds when it reads them. `CollectivesMatch` follows,
  since whoever enters the k-th collective enters the script's k-th.
* Its second part draws the consequences. From `Orderly` alone:
  `AnsweredIsReady` (`GroupReady`), `FreeIsDetached`, `FreedWhenClosed`, and
  `ServesOneGroup`, what `GroupServiceProofs` shows of the abstract service, said
  of the threads. `ImplementsService` is the refinement, from `Orderly` too: under
  the mapping of `ServiceSpec`, the initial states are the service's, and each step
  is one of the service's or a stutter - a worker's entry into the barriers of OPEN
  and of CLOSE, the fourth and the sixth of the script, are `Start` and `Stop`
  (`BarrierImplements`); `Begin`, `AllStopped`, `Complete` and `Fail` are the
  driver's (`DriverImplements`, `RegroupImplements`); a misused handle is `Break`, and
  nothing else is seen (`LoopImplements`, `ThreadImplements`). That `Break` comes
  only when the service is worn is `Young`: as long as the driver has closed no
  group, no worker has freed a handle, and each thread that makes a group's
  communicator finds its own in both. `EndsAreExplained` is what is left of how the
  job can end: the driver's mistake about ranks, or a handle of the peers' that is
  null or freed, once a group has been changed; it says nothing of which of
  these two a worker meets, since "meet", "sleep" and "pause" are open.

The hypothesis `Orderly` is not an assumption about the constants: each name in
`Prompt` is a race that the code leaves open (section 2), and the theorems say
what holds of a run in which these two go as the timing intends. Without them the
properties are false of this code: a loop broadcasts on MPI_COMM_NULL, or a thread
frees the next group.

**`GroupCommandsProofs`** proves that driver and workers go through a client's
commands evenly, for any number of workers, libraries, matrices and tasks and any
sets of processes on which a library fails to load. `Nth`, `WorkerEntered`, `Said`,
`DriverEntered` and `Heard` are the script of a command: its k-th barrier, and how
many barriers and messages either side is past at each place of its code. The
invariant `InTime` says, as long as no library has gone astray, where the driver is
(`Driving`) and that each member has a `Place`: what it still has to take and which
thread has taken it (`Stands`), that it is level with the driver or one barrier of
the script from it (`Level`), and which of the primary's messages are under way
(`Told`). That a thread may not be two barriers ahead comes from `Met` alone
(`MetWorker`, `MetDriver`). It gives `BarriersAlwaysAgree` (each process's list is
a beginning of one list, `OneList`) and `CommandsEndWhole`. The hypothesis that
`astray` is empty is needed: the run `commands_partial` shows what follows without,
answers that run ahead of the workers. `LibrariesAreKept` needs none of this, but that the IDs below
`next_libraryID` are taken and those above are not (`LibrariesHeld`).

`ThingsAreTheSame`, `OnlyOldThings` and `TypeCorrect` are about the data: the IDs
are given out by the driver, sent to the workers one way for a new matrix, another
way for the results of a task and not at all for a library, and each process inserts
what it has under them at a time of its own. `SameThings` speaks of the time when the
client is answered and is far from inductive. The invariant `Keeping` says what
holds in between: what a worker has under an ID is the driver's, or an earlier
client's, or the one matrix whose grid (library whose barrier) the driver has
still to hear of (`MatricesSame`, `LibrariesSame`); a member has what was made
since it joined, but for what the command is making (`Due`), and this too as soon as
the command is over for it (`Over`, `MatricesThere`, `LibrariesThere`); and a client
is told of a matrix only when the workers have it (`MatricesTold`). That a member is
over when the driver says so is `InTime`'s part. A step of a command leaves the other
processes' maps alone, so each action has one lemma for the driver's and one for a
member's step. For `OnlyOldThingsFail`, `Sound` adds that a job that
has ended did so by something old (`ByOldThings`): a null library is met by
`LibrariesThere` only where the worker joined after it was made, a null matrix by
`MatricesTold` and `MatricesThere` likewise. All three are about the time until a
library has gone astray: after that, workers lack what the driver has (`SameThings` is
false in the instance of `commands_partial`), and `OnlyOldThingsFail` excepts it itself.
Of the types nothing is claimed after it either: a thread may then take another
command's broadcast, a library's ID for its matrix's.

`WorkersNeverBehind` needs no such hypothesis. Between its barriers the driver
waits in the last one it has entered, and when it waits for nothing, or for what
the workers send, all members have entered that one (`Waited`); so a library that
goes astray can only make the workers the ones who are ahead.

**`WorkerStartupProofs`** proves, for any number of workers, any hosts and
arguments and whichever constructors throw, the safety half of what the `startup`
run checks (`ServesOrEnds`). `ServesWhenReady`: when the driver serves, its list
is the workers as they are, each free and on a port that no other process has,
every worker waits for commands with no broadcast or message of the start left, and
what threads of the start there still are have been let go of their barriers;
`EndsReady`: once these have ended, the job is `Ready`. The worker's threads of START
and SEND_INFO overlap, and both they and the driver meet in unnamed barriers of
one communicator. The invariant counts what the driver has broadcast (`Calls`) and
entered (`Barriers`) and gives each worker one of five places
between its loop and its threads (`Place`); the step that needs it is
`RegisterWorkers`, where `Met(1)` shows that no worker can still be before START's
barrier when SEND_INFO is broadcast, so that no thread of SEND_INFO enters the
first barrier for START's. `Mail` relates the messages under way to the worker's
barriers and the driver's list, and `Listening` the ports to the range that `main`
checks, within which 16 bits do not wrap. The one assumption on the arguments is
that ports are integers (`StartupAssumption`).

Model-checked only: `MatrixTransfer`, and the other half of `GroupCommands`'
`AheadByAstray`, how far the workers can be ahead, which is about the time when
threads of several commands overlap. Liveness under fairness stays with TLC, being beyond the prover: `WorkerReleased`, `RequestAnswered`,
`ClientAccepted`, `CommandAnswered`, `ServesOrEnds`, and that each change of a
group comes to its end (the fairness in `ServiceSpec`).

## 5. What is not modelled

* The array types of the codec (ARRAY_INFO, ARRAY_BLOCK), which nothing sends;
  `to_string`, whose calls are commented out.
* A body longer than the buffer of its message, which nothing checks: what is
  behind the buffer has no defined content.
* What MPI does with a freed handle beyond that it ends the job or goes on as if
  nothing was freed: it could, for one, have given it to a newer communicator.
* `next_matrixID` at the end of its 16 bits, after 65,535 matrices.
* The names of logs, among them that `Worker.cpp` line 25 puts the worker's ID
  into 8 bits for its own.
* What a task computes, and Elemental beyond which entries a process has.
* What MPI does when it provides fewer threads than are asked for; `main` looks
  at the level (`threads_ok`) and does not use it.
* Concurrent access to a `std::map` by threads that insert and threads that
  read: it has no defined outcome; accesses are atomic here.
* What MPI makes of two threads of a process in collectives on one communicator,
  as after a library that went astray: they are matched in the order in which
  they are entered. Nor the change of a group that is out of step in this way.
* Messages outside a client's protocol (an ID twice in a yield, a task before
  any worker was requested).
* `Executor`, `data_stream` and the layout tables: nothing in the program
  reaches them. `Server` and `command.hpp` hold texts.

## 6. Plan

1. Done: `WorkerLease`, `WorkerPool`, `WorkerPoolProofs`.
2. Done: `GroupLifecycle`, and `GroupService`, which it implements, with the
   proofs of every safety property and of the refinement's safety half.
3. Done: `GroupCommands`, with the proofs of its safety properties but
   half of `AheadByAstray`.
4. Done: `WorkerConnections` and `WorkerConnectionsProofs`.
5. Done: `DriverSessions` and `DriverSessionsProofs`.
6. Done: `MessageCodec` and `MatrixTransfer`. To be proved: that `PutInt` and
   `GetInts` are inverse for every width, and that `Size` is the number of
   `Visits` of a block.
7. Done: `WorkerStartup` and `WorkerStartupProofs`.
8. To come: `LogSink` as part of the threads of `GroupLifecycle`, and a refused
   yield that lists an ID twice, if a precondition for it can be found in the
   clients of the repository.
