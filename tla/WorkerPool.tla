----------------------------- MODULE WorkerPool ------------------------------
(***************************************************************************)
(* The driver's worker bookkeeping (Driver.cpp, the worker requests of     *)
(* DriverSession.cpp and the maps of GroupDriver.cpp).  A worker's owner   *)
(* is stored three times: in the vector Driver::unallocated_workers, in    *)
(* WorkerInfo::groupID, and in the map GroupDriver::workers.  All handlers *)
(* of the driver run on the one thread inside ic.run(), each to its end,   *)
(* so a handler is one action here; what set_group_communicator does with  *)
(* the workers is the subject of GroupLifecycle, and only its outcome for  *)
(* the driver appears here.                                                *)
(***************************************************************************)
EXTENDS Sequences, Functions, FiniteSets, Integers

CONSTANTS NumWorkers,      \* MPI world size - 1
          GroupIDSpan,     \* number of values of GroupID (2^16 in the code)
          MaxRequest,      \* largest worker count a client asks for (a bound)
          MaxConnections   \* connections the driver ever accepts (a bound)

ASSUME PoolAssumption ==
    /\ NumWorkers \in Nat
    /\ GroupIDSpan \in Nat \ {0, 1}
    /\ MaxRequest \in Nat
    /\ MaxConnections \in Nat

Workers  == 1 .. NumWorkers
GroupIDs == 0 .. GroupIDSpan - 1   \* 0 is the null group

VARIABLES
    next_groupID,         \* Driver::next_groupID
    connections,          \* how many connections were accepted
    groups,               \* keys of Driver::groups
    unallocated_workers,  \* Driver::unallocated_workers
    info_groupID,         \* workers[w]->groupID
    members,              \* members[g]: keys of groups[g]->workers
    driver,               \* what set_group_communicator left the driver in
    reply                 \* last answer to a worker request

vars == <<next_groupID, connections, groups, unallocated_workers, info_groupID,
          members, driver, reply>>

Answers ==
    [to: GroupIDs, cmd: {"NONE", "REQUEST_WORKERS", "YIELD_WORKERS"},
     workers: SUBSET Workers,
     error: {"NONE", "ERR_NO_WORKERS", "ERR_NONPOS_WORKER_REQUEST"}]

Answer(g, cmd, S, err) == [to |-> g, cmd |-> cmd, workers |-> S, error |-> err]

-----------------------------------------------------------------------------
(* Mutated forms of the definitions below, each a slip this code could have  *)
(* had; the properties are tested against them.                              *)
RanksExistOffByOne(M) == \A id \in M : id <= Cardinality(M) + 1
NoSort(s) == {s}
NewGroupNoWrap ==
    /\ driver = "serving" /\ connections < MaxConnections
    /\ connections' = connections + 1
    /\ next_groupID' = next_groupID + 1
    /\ groups' = groups \cup {next_groupID'}
    /\ UNCHANGED <<unallocated_workers, info_groupID, members, driver, reply>>
NewGroupNoIncrement ==
    /\ driver = "serving" /\ connections < MaxConnections
    /\ connections' = connections + 1
    /\ next_groupID' = 1
    /\ groups' = groups \cup {1}
    /\ UNCHANGED <<unallocated_workers, info_groupID, members, driver, reply>>
RemainingOffByOne(num) ==
    SubSeq(unallocated_workers, num, Len(unallocated_workers))
UnownedForgotten(y) == info_groupID
YieldedUnfiltered(g, S) == S
RefuseShortage(g, n) ==
    /\ n = 0 \/ Len(unallocated_workers) < n
    /\ reply' = Answer(g, "REQUEST_WORKERS", {},
                       IF n = 0 THEN "ERR_NONPOS_WORKER_REQUEST" ELSE "ERR_NO_WORKERS")
    /\ UNCHANGED <<info_groupID, members, unallocated_workers, driver>>

-----------------------------------------------------------------------------
\* GroupDriver::get_process_grid receives worker id's row and column from RANK
\* id of the group's communicator, whose ranks are 0 (driver) .. size.
RanksExist(M) == \A id \in M : id <= Cardinality(M)

\* What set_group_communicator(g) does to the driver when g's workers are M:
\* members told group 0 take the "not a member" branch and never call
\* MPI_Comm_create_group, so the driver waits there; a rank that does not
\* exist is an MPI error, which aborts the job.
Outcome(g, M) ==
    IF M # {} /\ g = 0 THEN "blocked"
    ELSE IF RanksExist(M) THEN "serving" ELSE "aborted"

Ascending(s) == \A i, j \in DOMAIN s : i <= j => s[i] <= s[j]

\* std::sort: an ascending permutation.
Sortings(s) ==
    {t \in {[i \in DOMAIN s |-> s[p[i]]] : p \in Bijection(DOMAIN s, DOMAIN s)} :
        Ascending(t)}

\* The orders in which a message can list the IDs of S.
Orders(S) == Bijection(1 .. Cardinality(S), S)

LesserOf(a, b) == IF a <= b THEN a ELSE b

\* The first num unallocated workers, and the vector once they are erased.
Taken(num)     == {unallocated_workers[i] : i \in 1 .. num}
Remaining(num) == SubSeq(unallocated_workers, num + 1, Len(unallocated_workers))

-----------------------------------------------------------------------------
Init ==
    /\ next_groupID = 0
    /\ connections = 0
    /\ groups = {}
    /\ unallocated_workers = [i \in Workers |-> i]
    /\ info_groupID = [w \in Workers |-> 0]
    /\ members = [g \in GroupIDs |-> {}]
    /\ driver = "serving"
    /\ reply = Answer(0, "NONE", {}, "NONE")

\* Driver::new_group.  map::insert leaves an existing group alone, so after
\* 2^16 connections a client is handed the GroupDriver of an older one.
NewGroup ==
    /\ driver = "serving"
    /\ connections < MaxConnections
    /\ connections' = connections + 1
    /\ next_groupID' = (next_groupID + 1) % GroupIDSpan
    /\ groups' = groups \cup {next_groupID'}
    /\ UNCHANGED <<unallocated_workers, info_groupID, members, driver, reply>>

\* The answer to a request is sent only if set_group_communicator came back.
ReplyUnlessDown(r) == reply' = IF driver' = "serving" THEN r ELSE reply

\* Driver::allocate_workers, and the answer of handle_request_workers.
AllocateWorkers(g, n) ==
    LET num   == LesserOf(n, Len(unallocated_workers))
        taken == Taken(num)
    IN  /\ num > 0
        /\ info_groupID' =
               [w \in Workers |-> IF w \in taken THEN g ELSE info_groupID[w]]
        /\ members' = [members EXCEPT ![g] = @ \cup taken]
        /\ unallocated_workers' = Remaining(num)
        /\ driver' = Outcome(g, members'[g])
        /\ ReplyUnlessDown(Answer(g, "REQUEST_WORKERS", taken, "NONE"))

\* handle_request_workers when no worker changes hands.
RefuseWorkers(g, n) ==
    /\ n = 0 \/ unallocated_workers = <<>>
    /\ reply' = Answer(g, "REQUEST_WORKERS", {},
                       IF n = 0 THEN "ERR_NONPOS_WORKER_REQUEST" ELSE "ERR_NO_WORKERS")
    /\ UNCHANGED <<info_groupID, members, unallocated_workers, driver>>

\* DriverSession::handle_request_workers.
RequestWorkers(g, n) ==
    /\ driver = "serving"
    /\ g \in groups
    /\ AllocateWorkers(g, n) \/ RefuseWorkers(g, n)
    /\ UNCHANGED <<next_groupID, connections, groups>>

\* WorkerInfo::groupID once the workers of y are given back.
Unowned(y) == [w \in Workers |-> IF w \in Range(y) THEN 0 ELSE info_groupID[w]]

\* Driver::deallocate_workers of the IDs listed in y: append each, then sort.
DeallocateWorkers(g, y) ==
    /\ unallocated_workers' \in Sortings(unallocated_workers \o y)
    /\ info_groupID' = Unowned(y)
    /\ members' = [members EXCEPT ![g] = @ \ Range(y)]
    /\ driver' = Outcome(g, members'[g])
    /\ ReplyUnlessDown(Answer(g, "YIELD_WORKERS", Range(y), "NONE"))

\* Of the IDs S a client lists, those its group holds.
Yielded(g, S) == S \cap members[g]

\* DriverSession::handle_yield_workers for a message that lists the IDs of S,
\* each once; IDs the group does not hold are dropped.  A count of zero walks
\* the session's own map `workers`, which nothing fills, and so yields nothing.
YieldWorkers(g, S) ==
    /\ driver = "serving"
    /\ g \in groups
    /\ \/ /\ Yielded(g, S) # {}
          /\ \E y \in Orders(Yielded(g, S)) : DeallocateWorkers(g, y)
       \/ /\ Yielded(g, S) = {}
          /\ reply' = Answer(g, "YIELD_WORKERS", {}, "NONE")
          /\ UNCHANGED <<unallocated_workers, info_groupID, members, driver>>
    /\ UNCHANGED <<next_groupID, connections, groups>>

Next ==
    \/ NewGroup
    \/ \E g \in GroupIDs, n \in 0 .. MaxRequest : RequestWorkers(g, n)
    \/ \E g \in GroupIDs, S \in SUBSET Workers : YieldWorkers(g, S)

Spec == Init /\ [][Next]_vars

-----------------------------------------------------------------------------
(* What LIST_ACTIVE, LIST_INACTIVE and LIST_ASSIGNED_WORKERS answer: the      *)
(* driver reads WorkerInfo::groupID, never the vector or the groups' maps.    *)
ActiveWorkers      == {w \in Workers : info_groupID[w] > 0}
InactiveWorkers    == {w \in Workers : info_groupID[w] = 0}
AssignedWorkers(g) == {w \in Workers : info_groupID[w] = g}

(* Every variable has its type. *)
TypeOK ==
    /\ next_groupID \in GroupIDs
    /\ connections \in 0 .. MaxConnections
    /\ groups \subseteq GroupIDs
    /\ unallocated_workers \in Seq(Workers)
    /\ info_groupID \in [Workers -> GroupIDs]
    /\ members \in [GroupIDs -> SUBSET Workers]
    /\ driver \in {"serving", "blocked", "aborted"}
    /\ reply \in Answers

(* Every worker is in exactly one place, the unallocated vector or one       *)
(* group's map, once; and the vector stays in ascending order, over any      *)
(* interleaving of the requests and yields of several clients.               *)
WorkersPartitioned ==
    /\ \A i, j \in DOMAIN unallocated_workers :
           i < j => unallocated_workers[i] < unallocated_workers[j]
    /\ \A w \in Workers :
           w \in Range(unallocated_workers) <=> \A g \in GroupIDs : w \notin members[g]
    /\ \A g, h \in GroupIDs : g # h => members[g] \cap members[h] = {}

(* The lists a client can ask for, read from WorkerInfo::groupID, agree with *)
(* the vector and the maps that allocation works on, and the count in the    *)
(* heading of list_active_workers is the number of workers it then lists.    *)
ListingsAgree ==
    driver = "serving" =>
        /\ InactiveWorkers = Range(unallocated_workers)
        /\ \A g \in GroupIDs \ {0} : AssignedWorkers(g) = members[g]
        /\ Cardinality(ActiveWorkers) = NumWorkers - Len(unallocated_workers)

(* get_process_grid takes worker IDs for ranks, so the driver survives only  *)
(* while the workers in use are 1..k, all of one group: however many clients *)
(* are connected, one of them at a time can hold workers.                    *)
OneActiveGroup ==
    driver = "serving" =>
        \A g, h \in GroupIDs :
            members[g] # {} /\ members[h] # {} =>
                g = h /\ members[g] = 1 .. Cardinality(members[g])

(* A client that is alone in holding workers is never brought down by asking *)
(* for more: because deallocate_workers sorts, the workers it is given next  *)
(* continue the ones it has.                                                 *)
LoneClientServed ==
    [][ \A g \in GroupIDs \ {0} :
            /\ driver = "serving"
            /\ \A h \in GroupIDs \ {g} : members[h] = {} /\ members'[h] = {}
            /\ members[g] \subseteq members'[g]
            => driver' = "serving" ]_vars

(* Until the group counter wraps, a new connection gets a group nobody had   *)
(* before it, with no worker in it and an ID that is not the null group's.   *)
FreshGroup ==
    [][ connections' # connections /\ connections' < GroupIDSpan =>
            /\ next_groupID' \notin groups \cup {0}
            /\ members'[next_groupID'] = {} ]_vars

(* The last answer is true while the driver serves: workers granted belong   *)
(* to the client's group, a yield's workers are unallocated, and a client is *)
(* told ERR_NO_WORKERS only when every worker is in use.                     *)
HonestReply ==
    driver = "serving" =>
        /\ reply.cmd = "REQUEST_WORKERS" => reply.workers \subseteq members[reply.to]
        /\ reply.cmd = "YIELD_WORKERS" =>
               reply.workers \subseteq Range(unallocated_workers)
        /\ reply.error = "ERR_NO_WORKERS" => unallocated_workers = <<>>

(* The bookkeeping implements the abstract lease: only free workers are      *)
(* granted, lowest IDs first, and only a group's own workers are taken back. *)
Lease == INSTANCE WorkerLease WITH held <- members
LeaseSpec == Lease!Spec
=============================================================================
