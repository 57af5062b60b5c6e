--------------------------- MODULE GroupLifecycle ----------------------------
(***************************************************************************)
(* How the workers of a group come together and part again: the driver's   *)
(* set_group_communicator (Driver.cpp, GroupDriver.cpp), every worker's    *)
(* command loop on the world communicator (Worker.cpp), and its command    *)
(* loops and handler threads on the group's communicator (GroupWorker.cpp).*)
(*                                                                         *)
(* A call of set_group_communicator is an epoch; epoch e's communicator is *)
(* e, MPI_COMM_NULL is 0.  The driver's MPI_Ibcast completes at once and   *)
(* each worker takes it from its own queue; blocking collectives on a      *)
(* communicator (barriers, and the synchronisation inside                  *)
(* MPI_Comm_create_group) are matched in the order each process enters     *)
(* them, apart from the nonblocking ones.  Which workers a group gains or  *)
(* loses is decided by the bookkeeping of WorkerPool, here its abstract    *)
(* specification WorkerLease.                                              *)
(***************************************************************************)
EXTENDS Sequences, FiniteSets, Integers

CONSTANTS NumWorkers,   \* MPI world size - 1
          Groups,       \* group IDs of the connected clients
          MaxEpochs,    \* calls of set_group_communicator (a bound)
          Prompt        \* which of the code's races are decided the usual way:
                        \* "repost"  a command loop posts its next MPI_Ibcast before
                        \*           the handler it spawned resets `group`
                        \* "release" that handler is done with `group`, and has
                        \*           looked at `group_peers`, before the worker,
                        \*           which polls every 200 ms, joins a new group
                        \* "meet"    so is every handler of that group with its peers,
                        \*           if they come, and with El_group_peers
                        \* "sleep"   the next group forms within the 10 s that the
                        \*           handler then sleeps
                        \* "pause"   clients leave those 10 s between two changes

ASSUME LifecycleAssumption ==
    /\ NumWorkers \in Nat \ {0}
    /\ Groups \subseteq Nat \ {0}
    /\ MaxEpochs \in Nat \ {0}
    /\ Prompt \subseteq {"repost", "release", "meet", "sleep", "pause"}

Workers  == 1 .. NumWorkers
Epochs   == 1 .. MaxEpochs
Ranks    == 0 .. NumWorkers            \* of the world; 0 is the driver
Commands == {"CLOSE", "FREE", "PRINT", "OPEN", "GRID"}

VARIABLES
    members,       \* members[g]: keys of GroupDriver::workers
    groupComm,     \* groupComm[g]: GroupDriver::group
    epoch,         \* calls of set_group_communicator so far
    comm,          \* comm[e]: the workers of communicator e
    driver,        \* where the driver thread is, and for which group
    entered,       \* entered[e][p]: blocking collectives process p has entered on e
    peersEntered,  \* the same for the communicator of the workers of e alone
    bcast,         \* bcast[e][w]: commands broadcast on e that w has not taken
    worldIn,       \* worldIn[w]: NEW_GROUP broadcasts that w has not taken
    sends,         \* sends[w]: NEW_GROUP details sent to w and not received
    gridMsg,       \* gridMsg[e]: workers whose grid position is on its way
    newGroup,      \* newGroup[w]: threads of w at the first MPI_Recv of handle_new_group
    loop,          \* loop[w][e]: the thread of w that joined group e
    handlers,      \* handler threads
    gw,            \* gw[w]: fields of w's GroupWorker, which outlives its groups, and
                   \* `freed`, the peers' communicators that MPI has freed for it
    job            \* "running", or the error that ended every process

driverVars == <<members, groupComm, epoch, comm, driver>>
worldVars  == <<worldIn, sends, newGroup>>
vars == <<driverVars, entered, peersEntered, bcast, worldVars, gridMsg, loop,
          handlers, gw, job>>

\* A worker set grows by the lowest free workers and shrinks by any of its own.
Lease == INSTANCE WorkerLease WITH held <- members, GroupIDs <- Groups

-----------------------------------------------------------------------------
\* A blocking collective: process p enters it on e; the k-th one lets go once
\* every process of e has entered its k-th.
Enter(e, p, what) == entered' = [entered EXCEPT ![e][p] = Append(@, what)]
Met(e, k) == \A p \in comm[e] \cup {0} : Len(entered[e][p]) >= k

EnterPeers(e, w, what) == peersEntered' = [peersEntered EXCEPT ![e][w] = Append(@, what)]
PeersMet(e, k) == \A w \in comm[e] : Len(peersEntered[e][w]) >= k

\* Handler thread h is in its peers' barrier, which some of them have not entered:
\* with all the others past it or done, nobody is left to enter it.
Stranded(h) == h.at = "MEET" /\ ~ PeersMet(h.on, h.k)

Crash(error) ==
    /\ job' = error
    /\ UNCHANGED <<driverVars, entered, peersEntered, bcast, worldVars, gridMsg,
                   loop, handlers, gw>>

\* Worker w hands MPI a handle c of its own that is MPI_COMM_NULL, which ends the job, or
\* that of a communicator it has freed: this has no defined outcome.  An MPI that checks
\* its arguments ends the job, others go on as if it was there.
Misuse(w, c) ==
    \/ c = 0 /\ Crash("null_comm")
    \/ c \in gw[w].freed /\ Crash("freed_comm")

\* Handler thread h comes to its end.
Done(h) == handlers' = handlers \ {h}

\* h goes on to stage `at`, the next collective it enters on communicator e,
\* where its process has entered n before, being what it will wait for.
Blocks(h, at, e, n) ==
    handlers' = (handlers \ {h}) \cup {[h EXCEPT !.at = at, !.on = e, !.k = n + 1]}

\* MPI_Ibcast of command c on e and the MPI_Barrier after it.
Command(e, c) ==
    /\ bcast' = [bcast EXCEPT ![e] =
                    [w \in Workers |-> IF w \in comm[e] THEN Append(@[w], c) ELSE @[w]]]
    /\ Enter(e, 0, c)

\* The driver goes on to the collective named `at`.
Goto(at) == driver' = [driver EXCEPT !.at = at]

Idle == [at |-> "IDLE", g |-> 0]

Init ==
    /\ members = [g \in Groups |-> {}]
    /\ groupComm = [g \in Groups |-> 0]
    /\ epoch = 0
    /\ comm = [e \in Epochs |-> {}]
    /\ driver = Idle
    /\ entered = [e \in Epochs |-> [p \in Ranks |-> <<>>]]
    /\ peersEntered = [e \in Epochs |-> [w \in Workers |-> <<>>]]
    /\ bcast = [e \in Epochs |-> [w \in Workers |-> <<>>]]
    /\ worldIn = [w \in Workers |-> 0]
    /\ sends = [w \in Workers |-> <<>>]
    /\ gridMsg = [e \in Epochs |-> {}]
    /\ newGroup = [w \in Workers |-> 0]
    /\ loop = [w \in Workers |-> [e \in Epochs |-> [at |-> "NONE", on |-> 0]]]
    /\ handlers = {}
    /\ gw = [w \in Workers |->
                [group |-> 0, group_peers |-> 0, El_group_peers |-> 0, freed |-> {},
                 grid |-> 0, primary |-> "UNSET", connection_open |-> FALSE]]
    /\ job = "running"

-----------------------------------------------------------------------------
(* Mutated forms of actions below, each a slip this code could have had; the *)
(* properties are tested against them.                                       *)

\* The client is answered once the workers have been told, before the driver has
\* joined the new group and made it ready.
AnnounceAndAnswer ==
    /\ job = "running" /\ driver.at = "NEW"
    /\ worldIn' = [w \in Workers |-> worldIn[w] + 1]
    /\ sends' = [w \in Workers |->
                    Append(sends[w], IF w \in comm[epoch] THEN epoch ELSE 0)]
    /\ driver' = Idle
    /\ UNCHANGED <<members, groupComm, epoch, comm, entered, peersEntered, bcast, newGroup,
                   gridMsg, loop, handlers, gw, job>>

\* free_group forgets close_workers.
RegroupNotClosing(g, S) ==
    /\ job = "running" /\ driver.at = "IDLE" /\ epoch < MaxEpochs
    /\ "pause" \in Prompt => \A h \in handlers : h.cmd = "FREE" => Stranded(h)
    /\ Lease!Grant(g, S) \/ Lease!Return(g, S)
    /\ epoch' = epoch + 1
    /\ comm' = [comm EXCEPT ![epoch'] = members'[g]]
    /\ driver' = [at |-> IF groupComm[g] = 0 THEN "NEW" ELSE "FREE", g |-> g]
    /\ IF groupComm[g] = 0 THEN UNCHANGED <<bcast, entered>>
                           ELSE Command(groupComm[g], "FREE")
    /\ UNCHANGED <<groupComm, peersEntered, worldVars, gridMsg, loop, handlers, gw, job>>

\* The barrier of close_workers is missing.
SendFreeEarly ==
    /\ job = "running" /\ driver.at = "CLOSE"
    /\ Command(groupComm[driver.g], "FREE")
    /\ Goto("FREE")
    /\ UNCHANGED <<members, groupComm, epoch, comm, peersEntered, worldVars,
                   gridMsg, loop, handlers, gw, job>>

\* free_group frees the driver's communicator and does not tell the workers.
SendFreeForgotten ==
    /\ job = "running" /\ driver.at = "CLOSE"
    /\ Met(groupComm[driver.g], Len(entered[groupComm[driver.g]][0]))
    /\ groupComm' = [groupComm EXCEPT ![driver.g] = 0]
    /\ Goto("NEW")
    /\ UNCHANGED <<members, epoch, comm, entered, peersEntered, bcast, worldVars,
                   gridMsg, loop, handlers, gw, job>>

\* ready_group forgets open_workers.
ReadyGroupNotOpening ==
    /\ job = "running" /\ driver.at \in {"FORM", "PRINT"}
    /\ Met(epoch, Len(entered[epoch][0]))
    /\ LET c == IF driver.at = "FORM" THEN "PRINT" ELSE "GRID"
       IN  Command(epoch, c) /\ Goto(c)
    /\ UNCHANGED <<members, groupComm, epoch, comm, peersEntered, worldVars, gridMsg,
                   loop, handlers, gw, job>>

\* The loop does not reset `flag` and takes the next broadcast for there already.
WorldCommandStaleFlag(w) ==
    /\ job = "running"
    /\ worldIn' = [worldIn EXCEPT ![w] = @ - 1]
    /\ newGroup' = [newGroup EXCEPT ![w] = @ + 1]
    /\ UNCHANGED <<driverVars, entered, peersEntered, bcast, sends, gridMsg, loop,
                   handlers, gw, job>>

\* The last worker told about the group is its primary.
JoinGroupLastPrimary(w) ==
    LET e == Head(sends[w])
        last == \A v \in comm[e] : v <= w
    IN  /\ job = "running"
        /\ newGroup[w] > 0 /\ sends[w] # <<>>
        /\ newGroup' = [newGroup EXCEPT ![w] = @ - 1]
        /\ sends' = [sends EXCEPT ![w] = Tail(@)]
        /\ IF e = 0 THEN UNCHANGED <<entered, loop, gw>>
           ELSE /\ gw' = [gw EXCEPT ![w].primary =
                             IF @ = "UNSET" THEN (IF last THEN "YES" ELSE "NO") ELSE @]
                /\ Enter(e, w, "CREATE")
                /\ loop' = [loop EXCEPT ![w][e].at = "CREATE"]
        /\ UNCHANGED <<driverVars, peersEntered, bcast, worldIn, gridMsg, handlers, job>>

\* CLOSE leaves connection_open as it is.
EnterGroupBarrierStillOpen(h) ==
    LET e == gw[h.w].group
    IN  /\ h.at = "START" /\ h.cmd \in {"CLOSE", "PRINT", "OPEN", "GRID"} /\ e # 0
        /\ Enter(e, h.w, h.cmd)
        /\ gw' = [gw EXCEPT ![h.w].connection_open = @ \/ h.cmd = "OPEN"]
        /\ IF h.cmd = "GRID" THEN Blocks(h, "ENTERED", e, Len(entered[e][h.w]))
                             ELSE Done(h)
        /\ UNCHANGED <<driverVars, peersEntered, bcast, worldVars, gridMsg, loop, job>>

\* handle_group_close_connections without its barrier.
EnterGroupBarrierNotOnClose(h) ==
    LET e == gw[h.w].group
    IN  /\ h.at = "START" /\ h.cmd \in {"CLOSE", "PRINT", "OPEN", "GRID"} /\ e # 0
        /\ IF h.cmd = "CLOSE" THEN UNCHANGED entered ELSE Enter(e, h.w, h.cmd)
        /\ gw' = [gw EXCEPT ![h.w].connection_open =
                      (@ \/ h.cmd = "OPEN") /\ h.cmd # "CLOSE"]
        /\ IF h.cmd = "GRID" THEN Blocks(h, "ENTERED", e, Len(entered[e][h.w]))
                             ELSE Done(h)
        /\ UNCHANGED <<driverVars, peersEntered, bcast, worldVars, gridMsg, loop, job>>

-----------------------------------------------------------------------------
(* The driver.  driver.at names the collective its thread is blocked in.     *)

\* The driver's thread is let go by the collective it is blocked in on e.
Through(at, e) ==
    /\ job = "running"
    /\ driver.at = at
    /\ Met(e, Len(entered[e][0]))

\* allocate_workers or deallocate_workers has changed members[g] and calls
\* set_group_communicator(g): free_group closes the old group's connections
\* first, if there is one.
Regroup(g, S) ==
    /\ job = "running"
    /\ driver.at = "IDLE"
    /\ epoch < MaxEpochs
    /\ "pause" \in Prompt => \A h \in handlers : h.cmd = "FREE" => Stranded(h)
    /\ Lease!Grant(g, S) \/ Lease!Return(g, S)
    /\ epoch' = epoch + 1
    /\ comm' = [comm EXCEPT ![epoch'] = members'[g]]
    /\ driver' = [at |-> IF groupComm[g] = 0 THEN "NEW" ELSE "CLOSE", g |-> g]
    /\ IF groupComm[g] = 0 THEN UNCHANGED <<bcast, entered>>
                           ELSE Command(groupComm[g], "CLOSE")
    /\ UNCHANGED <<groupComm, peersEntered, worldVars, gridMsg, loop, handlers, gw, job>>

\* GroupDriver::free_group: once the connections are closed, free the group.
SendFree ==
    LET e == groupComm[driver.g]
    IN  /\ driver.at = "CLOSE" /\ Through("CLOSE", e)
        /\ Command(e, "FREE")
        /\ Goto("FREE")
        /\ UNCHANGED <<members, groupComm, epoch, comm, peersEntered, worldVars,
                       gridMsg, loop, handlers, gw, job>>

DropComm ==
    /\ driver.at = "FREE" /\ Through("FREE", groupComm[driver.g])
    /\ groupComm' = [groupComm EXCEPT ![driver.g] = 0]
    /\ Goto("NEW")
    /\ UNCHANGED <<members, epoch, comm, entered, peersEntered, bcast, worldVars,
                   gridMsg, loop, handlers, gw, job>>

\* Announce the new group to every worker: its members get the details, the
\* others the null group; then call MPI_Comm_create_group.
Announce ==
    /\ job = "running" /\ driver.at = "NEW"
    /\ worldIn' = [w \in Workers |-> worldIn[w] + 1]
    /\ sends' = [w \in Workers |->
                    Append(sends[w], IF w \in comm[epoch] THEN epoch ELSE 0)]
    /\ Enter(epoch, 0, "CREATE")
    /\ Goto("CREATE")
    /\ UNCHANGED <<members, groupComm, epoch, comm, peersEntered, bcast, newGroup,
                   gridMsg, loop, handlers, gw, job>>

\* GroupDriver::set_group_comm.
SetDriverComm ==
    /\ Through("CREATE", epoch)
    /\ groupComm' = [groupComm EXCEPT ![driver.g] = epoch]
    /\ Enter(epoch, 0, "FORM")
    /\ Goto("FORM")
    /\ UNCHANGED <<members, epoch, comm, peersEntered, bcast, worldVars, gridMsg,
                   loop, handlers, gw, job>>

\* GroupDriver::ready_group: print_info, open_workers, get_process_grid.
ReadyStep(at, c) ==
    /\ Through(at, epoch)
    /\ Command(epoch, c)
    /\ Goto(c)
    /\ UNCHANGED <<members, groupComm, epoch, comm, peersEntered, worldVars, gridMsg,
                   loop, handlers, gw, job>>

ReadyGroup == ReadyStep("FORM", "PRINT") \/ ReadyStep("PRINT", "OPEN") \/ ReadyStep("OPEN", "GRID")

\* The worker that has rank r in e: ranks follow the order of the world's.
RankHolder(e, r) == CHOOSE w \in comm[e] : Cardinality({v \in comm[e] : v <= w}) = r

\* The MPI_Recvs of get_process_grid take a worker's ID for its rank.  The
\* client is answered when they are done.
ReceiveGrid ==
    LET M == comm[epoch]
        ranks == {id \in M : id <= Cardinality(M)}
    IN  /\ Through("GRID", epoch)
        /\ \A id \in ranks : RankHolder(epoch, id) \in gridMsg[epoch]
        /\ IF ranks # M THEN Crash("bad_rank")
           ELSE /\ driver' = Idle
                /\ gridMsg' = [gridMsg EXCEPT ![epoch] = @ \ ranks]
                /\ UNCHANGED <<members, groupComm, epoch, comm, entered, peersEntered,
                               bcast, worldVars, loop, handlers, gw, job>>

DriverStep == \/ SendFree \/ DropComm \/ Announce \/ SetDriverComm
              \/ ReadyGroup \/ ReceiveGrid

-----------------------------------------------------------------------------
(* A worker's threads on the world communicator.                             *)

\* Worker::wait_for_command: take a NEW_GROUP broadcast, spawn its handler.
WorldCommand(w) ==
    /\ job = "running"
    /\ worldIn[w] > 0
    /\ worldIn' = [worldIn EXCEPT ![w] = @ - 1]
    /\ newGroup' = [newGroup EXCEPT ![w] = @ + 1]
    /\ UNCHANGED <<driverVars, entered, peersEntered, bcast, sends, gridMsg, loop,
                   handlers, gw, job>>

\* Worker::handle_new_group up to MPI_Comm_create_group.  The GroupWorker is
\* made the first time only; what it was told then, it keeps.
JoinGroup(w) ==
    LET e == Head(sends[w])
        first == \A v \in comm[e] : w <= v
    IN  /\ job = "running"
        /\ newGroup[w] > 0 /\ sends[w] # <<>>
        /\ newGroup' = [newGroup EXCEPT ![w] = @ - 1]
        /\ sends' = [sends EXCEPT ![w] = Tail(@)]
        /\ IF e = 0 THEN UNCHANGED <<entered, loop, gw>>
           ELSE /\ gw' = [gw EXCEPT ![w].primary =
                             IF @ = "UNSET" THEN (IF first THEN "YES" ELSE "NO") ELSE @]
                /\ Enter(e, w, "CREATE")
                /\ loop' = [loop EXCEPT ![w][e].at = "CREATE"]
        /\ UNCHANGED <<driverVars, peersEntered, bcast, worldIn, gridMsg, handlers, job>>

\* GroupWorker::set_group_comm.
SetGroupComm(w, e) ==
    /\ job = "running"
    /\ loop[w][e].at = "CREATE" /\ Met(e, 1)
    /\ "release" \in Prompt =>
           \A h \in handlers : h.w = w /\ h.cmd = "FREE" => h.at \in {"MEET", "SLEEP"}
    /\ "meet" \in Prompt =>
           \A h, t \in handlers :
               h.w = w /\ h.cmd = "FREE" /\ t.cmd = "FREE" /\ t.via = h.via =>
                   t.at = "SLEEP" \/ Stranded(t)
    /\ gw' = [gw EXCEPT ![w].group = e]
    /\ Enter(e, w, "FORM")
    /\ loop' = [loop EXCEPT ![w][e].at = "FORM"]
    /\ UNCHANGED <<driverVars, peersEntered, bcast, worldVars, gridMsg, handlers, job>>

\* GroupWorker::set_group_peers_comm: create the communicator, meet the peers
\* twice, copy the handle, make the grid of it, meet them again.
CreatePeers(w, e) ==
    /\ loop[w][e].at = "FORM" /\ Met(e, 2)
    /\ EnterPeers(e, w, "CREATE")
    /\ loop' = [loop EXCEPT ![w][e].at = "PEERS"]
    /\ UNCHANGED <<gw, job>>

SetPeers(w, e) ==
    /\ loop[w][e].at = "PEERS" /\ PeersMet(e, 1)
    /\ gw' = [gw EXCEPT ![w].group_peers = e]
    /\ EnterPeers(e, w, "PEERS")
    /\ loop' = [loop EXCEPT ![w][e].at = "AGAIN"]
    /\ UNCHANGED job

MeetAgain(w, e) ==
    /\ loop[w][e].at = "AGAIN" /\ PeersMet(e, 2) /\ gw[w].group_peers # 0
    /\ EnterPeers(gw[w].group_peers, w, "AGAIN")
    /\ loop' = [loop EXCEPT ![w][e].at = "COPY"]
    /\ UNCHANGED <<gw, job>>

CopyPeers(w, e) ==
    /\ loop[w][e].at = "COPY" /\ PeersMet(e, 3) /\ gw[w].group_peers # 0
    /\ gw' = [gw EXCEPT ![w].El_group_peers = gw[w].group_peers]
    /\ loop' = [loop EXCEPT ![w][e].at = "GRID"]
    /\ UNCHANGED <<peersEntered, job>>

MakeGrid(w, e) ==
    /\ loop[w][e].at = "GRID" /\ gw[w].El_group_peers # 0 /\ gw[w].group_peers # 0
    /\ gw' = [gw EXCEPT ![w].grid = gw[w].El_group_peers]
    /\ EnterPeers(gw[w].group_peers, w, "GRID")
    /\ loop' = [loop EXCEPT ![w][e].at = "READY"]
    /\ UNCHANGED job

\* The handles that are used where the thread is now, once it is let go.
PeersMisuse(w, e) ==
    /\ \/ loop[w][e].at = "AGAIN" /\ PeersMet(e, 2)
       \/ loop[w][e].at = "COPY" /\ PeersMet(e, 3)
       \/ loop[w][e].at = "GRID"
    /\ \/ Misuse(w, gw[w].group_peers)
       \/ loop[w][e].at = "GRID" /\ Misuse(w, gw[w].El_group_peers)

PeersStep(w, e) ==
    /\ job = "running"
    /\ \/ /\ \/ CreatePeers(w, e) \/ SetPeers(w, e) \/ MeetAgain(w, e)
             \/ CopyPeers(w, e) \/ MakeGrid(w, e)
          /\ UNCHANGED <<driverVars, entered, bcast, worldVars, gridMsg, handlers>>
       \/ PeersMisuse(w, e)

-----------------------------------------------------------------------------
(* A worker's command loops on a group's communicator.  They never exit.     *)

\* MPI_Ibcast on whatever communicator `group` holds now, the first one once the
\* peers have met.
Post(w, e) ==
    /\ job = "running"
    /\ loop[w][e].at = "POST" \/ (loop[w][e].at = "READY" /\ PeersMet(e, 4))
    /\ IF gw[w].group = 0 THEN Crash("null_comm")
       ELSE /\ loop' = [loop EXCEPT ![w][e] = [at |-> "WAIT", on |-> gw[w].group]]
            /\ UNCHANGED <<driverVars, entered, peersEntered, bcast, worldVars, gridMsg,
                           handlers, gw, job>>

\* The broadcast has arrived: spawn a handler thread and go round.
GroupCommand(w, e) ==
    LET on == loop[w][e].on
    IN  /\ job = "running"
        /\ loop[w][e].at = "WAIT" /\ bcast[on][w] # <<>>
        /\ bcast' = [bcast EXCEPT ![on][w] = Tail(@)]
        /\ handlers' = handlers \cup
               {[w |-> w, cmd |-> Head(bcast[on][w]), via |-> on, at |-> "START",
                 on |-> 0, k |-> 0]}
        /\ loop' = [loop EXCEPT ![w][e] = [at |-> "POST", on |-> 0]]
        /\ UNCHANGED <<driverVars, entered, peersEntered, worldVars, gridMsg, gw, job>>

-----------------------------------------------------------------------------
(* Handler threads.                                                          *)

\* MPI_Barrier(group), for CLOSE and OPEN after setting connection_open.  Only
\* GRID has something to do for the group once it returns: the thread of an OPEN
\* goes on to serve clients and nothing here waits for it.
EnterGroupBarrier(h) ==
    LET w == h.w
        e == gw[w].group
    IN  /\ h.at = "START"
        /\ h.cmd \in {"CLOSE", "PRINT", "OPEN", "GRID"}
        /\ IF e = 0 THEN Crash("null_comm")
           ELSE /\ Enter(e, w, h.cmd)
                /\ gw' = [gw EXCEPT ![w].connection_open =
                             IF h.cmd = "CLOSE" THEN FALSE
                             ELSE IF h.cmd = "OPEN" THEN TRUE ELSE @]
                /\ IF h.cmd = "GRID" THEN Blocks(h, "ENTERED", e, Len(entered[e][w]))
                   ELSE Done(h)
                /\ UNCHANGED <<driverVars, peersEntered, bcast, worldVars, gridMsg, loop, job>>

\* handle_get_process_grid, after the barrier: read the grid, send it to rank 0.
SendGrid(h) ==
    /\ h.cmd = "GRID" /\ h.at = "ENTERED" /\ Met(h.on, h.k)
    /\ IF gw[h.w].grid = 0 THEN Crash("null_grid")
       ELSE IF gw[h.w].group = 0 THEN Crash("null_comm")
       ELSE /\ gridMsg' = [gridMsg EXCEPT ![gw[h.w].group] = @ \cup {h.w}]
            /\ Done(h)
            /\ UNCHANGED <<driverVars, entered, peersEntered, bcast, worldVars, loop, gw, job>>

\* handle_free_group: drop the grid; meet on the group if there is one.
DropGrid(h) ==
    LET w == h.w
        e == gw[w].group
    IN  /\ h.cmd = "FREE" /\ h.at = "START"
        /\ gw' = [gw EXCEPT ![w].grid = 0]
        /\ IF e = 0 THEN Blocks(h, "PEERS", 0, 0) /\ UNCHANGED entered
           ELSE Enter(e, w, "FREE") /\ Blocks(h, "ENTERED", e, Len(entered[e][w]))
        /\ UNCHANGED <<driverVars, peersEntered, bcast, worldVars, gridMsg, loop, job>>

\* ... MPI_Comm_free(&group); group = MPI_COMM_NULL.
FreeComm(h) ==
    LET w == h.w
    IN  /\ h.cmd = "FREE" /\ h.at = "ENTERED" /\ Met(h.on, h.k)
        /\ "repost" \in Prompt => \A e \in Epochs : loop[w][e].at # "POST"
        /\ IF gw[w].group = 0 THEN Crash("null_comm")
           ELSE /\ gw' = [gw EXCEPT ![w].group = 0]
                /\ Blocks(h, "PEERS", 0, 0)
                /\ UNCHANGED <<driverVars, entered, peersEntered, bcast, worldVars, gridMsg,
                               loop, job>>

\* ... meet the peers, if there is a peers' communicator.
MeetPeers(h) ==
    LET w == h.w
        e == gw[w].group_peers
    IN  /\ h.cmd = "FREE" /\ h.at = "PEERS"
        /\ \/ /\ IF e = 0 THEN Done(h) /\ UNCHANGED peersEntered
                 ELSE EnterPeers(e, w, "FREE") /\ Blocks(h, "MEET", e, Len(peersEntered[e][w]))
              /\ UNCHANGED <<driverVars, entered, bcast, worldVars, gridMsg, loop, gw, job>>
           \/ e # 0 /\ Misuse(w, e)

\* ... El::mpi::Free(El_group_peers): a copy of the handle that group_peers had when
\* the grid was made.
FreeElPeers(h) ==
    LET w == h.w
        e == gw[w].El_group_peers
    IN  /\ h.cmd = "FREE" /\ h.at = "MEET" /\ PeersMet(h.on, h.k)
        /\ \/ /\ e # 0
              /\ gw' = [gw EXCEPT ![w].El_group_peers = 0, ![w].freed = @ \cup {e}]
              /\ Blocks(h, "SLEEP", 0, 0)
              /\ UNCHANGED <<driverVars, entered, peersEntered, bcast, worldVars, gridMsg,
                             loop, job>>
           \/ Misuse(w, e)

\* ... and, 10 seconds later, MPI_Comm_free what `group_peers` holds by then.
FreePeers(h) ==
    LET w == h.w
        e == gw[w].group_peers
    IN  /\ h.cmd = "FREE" /\ h.at = "SLEEP"
        /\ "sleep" \in Prompt => driver = Idle
        /\ \/ /\ e # 0
              /\ gw' = [gw EXCEPT ![w].group_peers = 0, ![w].freed = @ \cup {e}]
              /\ Done(h)
              /\ UNCHANGED <<driverVars, entered, peersEntered, bcast, worldVars, gridMsg,
                             loop, job>>
           \/ Misuse(w, e)

HandlerStep(w) ==
    /\ job = "running"
    /\ \E h \in {t \in handlers : t.w = w} :
           \/ EnterGroupBarrier(h) \/ SendGrid(h) \/ DropGrid(h)
           \/ FreeComm(h) \/ MeetPeers(h) \/ FreeElPeers(h) \/ FreePeers(h)

-----------------------------------------------------------------------------
LoopStep(w) ==
    \E e \in Epochs : SetGroupComm(w, e) \/ PeersStep(w, e) \/ Post(w, e) \/ GroupCommand(w, e)

Next ==
    \/ \E g \in Groups, S \in SUBSET Workers : Regroup(g, S)
    \/ DriverStep
    \/ \E w \in Workers : \/ WorldCommand(w) \/ JoinGroup(w)
                          \/ LoopStep(w) \/ HandlerStep(w)

\* Every thread of every process is scheduled again and again; clients ask for
\* nothing by themselves.
Fairness ==
    /\ WF_vars(DriverStep)
    /\ \A w \in Workers :
           /\ WF_vars(WorldCommand(w)) /\ WF_vars(JoinGroup(w))
           /\ WF_vars(LoopStep(w)) /\ WF_vars(HandlerStep(w))

Spec == Init /\ [][Next]_vars /\ Fairness

-----------------------------------------------------------------------------
Labels == {"CREATE", "FORM", "PEERS", "AGAIN"} \cup Commands

Threads ==
    [w: Workers, cmd: Commands, via: Epochs,
     at: {"START", "ENTERED", "PEERS", "MEET", "SLEEP"}, on: 0 .. MaxEpochs, k: Nat]

(* Every variable has its type. *)
TypeOK ==
    /\ members \in [Groups -> SUBSET Workers]
    /\ groupComm \in [Groups -> 0 .. MaxEpochs]
    /\ epoch \in 0 .. MaxEpochs
    /\ comm \in [Epochs -> SUBSET Workers]
    /\ driver \in [at: {"IDLE", "NEW", "CREATE", "FORM"} \cup Commands, g: Groups \cup {0}]
    /\ entered \in [Epochs -> [Ranks -> Seq(Labels)]]
    /\ peersEntered \in [Epochs -> [Workers -> Seq(Labels)]]
    /\ bcast \in [Epochs -> [Workers -> Seq(Commands)]]
    /\ worldIn \in [Workers -> Nat] /\ newGroup \in [Workers -> Nat]
    /\ sends \in [Workers -> Seq(0 .. MaxEpochs)]
    /\ gridMsg \in [Epochs -> SUBSET Workers]
    /\ loop \in [Workers -> [Epochs ->
          [at: {"NONE", "CREATE", "FORM", "PEERS", "AGAIN", "COPY", "GRID", "READY", "POST",
                "WAIT"},
           on: 0 .. MaxEpochs]]]
    /\ handlers \subseteq Threads
    /\ gw \in [Workers -> [group: 0 .. MaxEpochs, group_peers: 0 .. MaxEpochs,
                           El_group_peers: 0 .. MaxEpochs, freed: SUBSET Epochs,
                           grid: 0 .. MaxEpochs, primary: {"UNSET", "YES", "NO"},
                           connection_open: BOOLEAN]]
    /\ job \in {"running", "bad_rank", "null_comm", "freed_comm", "null_grid"}

Answered == job = "running" /\ driver = Idle
InUse    == UNION {members[g] : g \in Groups}

(* The command loops of w that a broadcast on e will reach. *)
Listeners(w, e) ==
    {l \in Epochs : \/ loop[w][l].on = e
                    \/ loop[w][l].at \in {"READY", "POST"} /\ gw[w].group = e}

(* When a client is answered, its group is whole: the driver's communicator  *)
(* joins exactly the group's workers, whose IDs are their ranks; each of     *)
(* them holds that communicator and a grid of it, accepts connections, has   *)
(* one command loop that the driver's next command will reach, and none of   *)
(* the commands or grid positions so far is still on its way.  group_peers   *)
(* holds the communicator under the grid or, since the handler that wakes up *)
(* 10 s after a change frees whatever is there by then, none.                *)
GroupReady ==
    Answered =>
        \A g \in Groups :
            LET e == groupComm[g]
            IN  /\ members[g] # {} => e # 0
                /\ e # 0 => /\ comm[e] = members[g] /\ gridMsg[e] = {}
                            /\ members[g] = 1 .. Cardinality(members[g])
                            /\ \A w \in members[g] :
                                   /\ gw[w].group = e /\ gw[w].grid = e
                                   /\ gw[w].group_peers \in {e, 0}
                                   /\ gw[w].connection_open
                                   /\ Cardinality(Listeners(w, e)) = 1
                                   /\ bcast[e][w] = <<>>

(* A worker that no group holds accepts no connections and is not on the     *)
(* communicator of any group, however many other groups come and go and      *)
(* however far its own threads lag behind the driver's.                      *)
Detached ==
    Answered =>
        \A w \in Workers \ InUse :
            /\ ~ gw[w].connection_open
            /\ \A g \in Groups : groupComm[g] # 0 => gw[w].group # groupComm[g]

(* The GroupWorker keeps the primary flag it was made with, for all its      *)
(* groups: yet in every group that serves, just the lowest worker, from      *)
(* whose rank the driver takes its answers, believes it is the primary.      *)
OnePrimary ==
    Answered =>
        \A g \in Groups :
            {w \in members[g] : gw[w].primary = "YES"}
                = {w \in members[g] : \A v \in members[g] : w <= v}

(* Blocking collectives meet their own kind: no process is ever let go of a  *)
(* barrier by another process's entering a different one.                    *)
CollectivesAgree ==
    \A e \in Epochs :
        /\ \A p, q \in comm[e] \cup {0} : \A k \in DOMAIN entered[e][p] \cap DOMAIN entered[e][q] :
               entered[e][p][k] = entered[e][q][k]
        /\ \A p, q \in comm[e] : \A k \in DOMAIN peersEntered[e][p] \cap DOMAIN peersEntered[e][q] :
               peersEntered[e][p][k] = peersEntered[e][q][k]

(* The parts of a NEW_GROUP message are received by one thread: a worker     *)
(* that lags has several threads in handle_new_group, all receiving from the *)
(* driver with one tag, and only the last message for it has more than one   *)
(* part.                                                                     *)
DetailsAreLast ==
    \A w \in Workers : \A i \in DOMAIN sends[w] : sends[w][i] # 0 => i = Len(sends[w])

(* The driver lets a communicator go only when its workers have closed their *)
(* connections and dropped the grid that was built on it.                    *)
ClosedBeforeFreed ==
    [][ \A g \in Groups : groupComm[g] # 0 /\ groupComm'[g] = 0 =>
            \A w \in comm[groupComm[g]] :
                ~ gw[w].connection_open /\ gw[w].grid # groupComm[g] ]_vars

(* The whole is an implementation of GroupService: seen through the workers  *)
(* that hold the driver's communicator and accept connections, a change of a *)
(* group stops all, then starts all, disturbs no other group, and is always  *)
(* answered unless the job ends, which it can for workers that are not 1..k  *)
(* or when a group has been changed or given back, for what its threads do   *)
(* with handles that were freed.  The driver's close_workers and free_group  *)
(* are the first phase.                                                      *)
Serving(g) == {w \in comm[groupComm[g]] :
                   gw[w].group = groupComm[g] /\ gw[w].connection_open}

ServedBy == [g \in Groups |-> IF groupComm[g] = 0 THEN {} ELSE Serving(g)]
Change   == [g |-> driver.g,
             phase |-> CASE driver.at = "IDLE"              -> "none"
                         [] driver.at \in {"CLOSE", "FREE"} -> "stop"
                         [] OTHER                           -> "start"]
Worn     == \E e \in Epochs : Len(entered[e][0]) > 5
Up       == job = "running"

Service == INSTANCE GroupService
           WITH serving <- ServedBy, change <- Change, worn <- Worn, up <- Up

ServiceSpec == Service!Spec

(* A worker that was given back leaves the communicator it was on.  Every    *)
(* thread that frees a group comes to its end, or is left in a barrier with  *)
(* a peer whose group_peers an earlier such thread has freed under it.       *)
WorkerReleased ==
    \A w \in Workers :
        /\ (w \notin InUse /\ gw[w].group # 0) ~>
               (gw[w].group = 0 \/ w \in InUse \/ job # "running")
        /\ (\E h \in handlers : h.w = w /\ h.cmd = "FREE") ~>
               \/ job # "running"
               \/ \A h \in handlers : h.w = w /\ h.cmd = "FREE" =>
                      h.at = "MEET" /\ \E v \in comm[h.on] : gw[v].group_peers # h.on
=============================================================================
