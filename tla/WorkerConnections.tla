-------------------------- MODULE WorkerConnections --------------------------
(***************************************************************************)
(* A worker's connections to clients: how OPEN and CLOSE of its groups     *)
(* (GroupWorker.cpp) make it accept connections or not, and how a session  *)
(* (WorkerSession.cpp, Session.cpp) reads requests and writes replies.     *)
(*                                                                         *)
(* Everything runs on one io_context.  Each OPEN spawns a thread that arms *)
(* one async_accept and stays in ic.run(); a thread whose accept handler   *)
(* arms the next one runs the io_context again inside that handler, which  *)
(* therefore does not end.  CLOSE only resets a flag.  When no operation   *)
(* is pending and no handler unfinished the io_context stops, and since    *)
(* nothing restarts it every later ic.run() returns at once.               *)
(*                                                                         *)
(* Clients send a request and wait for the reply.  Requests are those that *)
(* have a reply; a reply has what was written to it, or has lost it.       *)
(***************************************************************************)
EXTENDS Sequences, FiniteSets, Integers

CONSTANTS Clients,       \* connections of clients
          MaxOpens,      \* times the worker is told to open (a bound)
          MaxRequests,   \* requests a client sends (a bound)
          Sends,         \* what a client's requests may be: "NOT_ROWS" has rows that
                         \* are no INDEXED_ROWs, "REQUEST" is any other
          MaxFailures,   \* accepts that fail (a bound)
          NumSessionIDs  \* values of a SessionID: 2^16 in the code

Threads    == 1 .. MaxOpens
SessionIDs == 0 .. NumSessionIDs - 1
NoClient   == "none"

ASSUME ConnectionsAssumption ==
    /\ IsFiniteSet(Clients) /\ NoClient \notin Clients
    /\ MaxOpens \in Nat /\ MaxRequests \in [Clients -> Nat] /\ MaxFailures \in Nat
    /\ NumSessionIDs \in Nat \ {0}
    /\ Sends \in [Clients -> SUBSET {"REQUEST", "NOT_ROWS"}]

VARIABLES
    connection_open,   \* GroupWorker::connection_open
    opens,             \* OPENs handled; the k-th spawned thread k
    accepts,           \* async_accept operations pending
    ready,             \* completed operations whose handlers have not run, in order
    stopped,           \* the io_context has stopped
    thread,            \* thread[t]: what it is doing, for which connection, and
                       \* how many ic.run()s it is inside of
    next_sessionID,    \* GroupWorker::next_sessionID
    sessions,          \* sessions[id]: the connection of the session under id
    client,            \* client[c]: the client's side of connection c
    conn,              \* conn[c]: the worker's side of it
    late,              \* accepts, failed ones too, whose handlers found the worker closed
    failures,          \* accepts that have failed
    fault              \* what went wrong with a session: "none", or that an old one was
                       \* "restarted", or made for a client that had "no_endpoint"

vars == <<connection_open, opens, accepts, ready, stopped, thread, next_sessionID,
          sessions, client, conn, late, failures, fault>>

Init ==
    /\ connection_open = FALSE /\ opens = 0
    /\ accepts = 0 /\ ready = <<>> /\ stopped = FALSE
    /\ thread = [t \in Threads |-> [at |-> "NONE", c |-> NoClient, depth |-> 0]]
    /\ next_sessionID = 0
    /\ sessions = [id \in SessionIDs |-> NoClient]
    /\ client = [c \in Clients |->
                    [at |-> "NEW", sent |-> 0, waiting |-> FALSE, cut |-> FALSE]]
    /\ conn = [c \in Clients |->
                  [at |-> "NONE", unread |-> "nothing", reading |-> FALSE,
                   write_msg |-> "empty", writing |-> "nothing"]]
    /\ late = 0 /\ failures = 0 /\ fault = "none"

-----------------------------------------------------------------------------
(* The io_context.                                                           *)

InHandler(t) == thread[t].at \in {"COUNT", "INSERT", "REARM", "FLUSH", "CLEAR", "ROWS"}

\* No operation pending, no handler ready or running, and no accept handler that
\* runs the io_context again: nothing keeps it from stopping.
OutOfWork ==
    /\ accepts = 0 /\ ready = <<>>
    /\ \A c \in Clients : ~ conn[c].reading /\ conn[c].writing = "nothing"
    /\ \A t \in Threads : ~ InHandler(t) /\ thread[t].depth < 2

\* Some thread waits in ic.run() and with it runs the reactor.
Polling == ~ stopped /\ \E t \in Threads : thread[t].at = "RUN"

\* A header and body have come, or the client has gone.
HasCome(c) == conn[c].unread # "nothing" \/ client[c].at = "LEFT"

Completed(kind, c) == ready' = Append(ready, [kind |-> kind, c |-> c])

\* Thread t goes on to `at` in the handler of connection c ...
Goes(t, at, c) == thread' = [thread EXCEPT ![t].at = at, ![t].c = c]

\* ... which ends, and the io_context stops if that was its last work.
Ends(t) == Goes(t, "RUN", NoClient)
MayStop == stopped' = OutOfWork'

-----------------------------------------------------------------------------
(* Mutated forms of actions below, each a slip this code could have had; the *)
(* properties are tested against them.                                       *)

\* next_sessionID++ is forgotten.
CountSessionNot(t) ==
    /\ thread[t].at = "COUNT"
    /\ Goes(t, "INSERT", thread[t].c)
    /\ UNCHANGED <<connection_open, opens, accepts, ready, stopped, next_sessionID, sessions,
                   client, conn, late, failures, fault>>

\* The accept handler arms the next accept whether the worker is open or not.
AcceptAlways(t) ==
    /\ thread[t].at = "REARM"
    /\ accepts' = accepts + 1
    /\ thread' = [thread EXCEPT ![t] = [at |-> "RUN", c |-> NoClient, depth |-> @.depth + 1]]
    /\ late' = IF connection_open THEN late ELSE late + 1
    /\ UNCHANGED <<connection_open, opens, ready, stopped, next_sessionID, sessions, client,
                   conn, failures, fault>>

\* The accept handler arms the next accept and returns to the one ic.run().
AcceptOnOneRun(t) ==
    /\ thread[t].at = "REARM"
    /\ accepts' = IF connection_open THEN accepts + 1 ELSE accepts
    /\ late' = IF connection_open THEN late ELSE late + 1
    /\ Ends(t)
    /\ UNCHANGED <<connection_open, opens, ready, next_sessionID, sessions, client, conn, failures,
                   fault>>
    /\ MayStop

\* The accept handler does not arm another accept.
AcceptOnce(t) ==
    /\ thread[t].at = "REARM"
    /\ late' = IF connection_open THEN late ELSE late + 1
    /\ Ends(t)
    /\ UNCHANGED <<connection_open, opens, accepts, ready, next_sessionID, sessions, client,
                   conn, failures, fault>>
    /\ MayStop

\* flush() is forgotten, as for a command whose answer is commented out.
FlushNot(t) ==
    LET c == thread[t].c
    IN  /\ thread[t].at = "FLUSH"
        /\ conn' = [conn EXCEPT ![c].reading = TRUE]
        /\ Ends(t)
        /\ UNCHANGED <<connection_open, opens, accepts, ready, next_sessionID, sessions,
                       client, late, failures, fault>>
        /\ MayStop

\* A read that fails is tried again for ever.
CompleteReadAgain(c) ==
    /\ Polling /\ conn[c].reading
    /\ HasCome(c)
    /\ Completed(IF conn[c].unread = "nothing" THEN "FAILED" ELSE conn[c].unread, c)
    /\ conn' = [conn EXCEPT ![c].reading = client[c].at = "LEFT", ![c].unread = "nothing"]
    /\ UNCHANGED <<connection_open, opens, accepts, stopped, thread, next_sessionID, sessions,
                   client, late, failures, fault>>

-----------------------------------------------------------------------------
(* The group's commands, one at a time; a group closes before the next one   *)
(* opens (GroupLifecycle).                                                   *)

\* handle_group_open_connections: spawn a thread that runs accept_connection.
OpenConnections ==
    /\ ~ connection_open /\ opens < MaxOpens
    /\ connection_open' = TRUE
    /\ opens' = opens + 1
    /\ thread' = [thread EXCEPT ![opens + 1].at = "ACCEPT"]
    /\ UNCHANGED <<accepts, ready, stopped, next_sessionID, sessions, client, conn, late,
                   failures, fault>>

\* handle_group_close_connections.
CloseConnections ==
    /\ connection_open
    /\ connection_open' = FALSE
    /\ UNCHANGED <<opens, accepts, ready, stopped, thread, next_sessionID, sessions, client,
                   conn, late, failures, fault>>

-----------------------------------------------------------------------------
(* The operating system and the reactor.                                     *)

CompleteAccept(c) ==
    /\ Polling /\ accepts > 0 /\ conn[c].at = "BACKLOG"
    /\ accepts' = accepts - 1
    /\ Completed("ACCEPTED", c)
    /\ conn' = [conn EXCEPT ![c].at = "ACCEPTED"]
    /\ UNCHANGED <<connection_open, opens, stopped, thread, next_sessionID, sessions, client,
                   late, failures, fault>>

\* An accept that fails takes no client; the process may be out of descriptors or buffers.
FailAccept ==
    /\ Polling /\ accepts > 0 /\ failures < MaxFailures
    /\ accepts' = accepts - 1
    /\ failures' = failures + 1
    /\ Completed("NOT_ACCEPTED", NoClient)
    /\ UNCHANGED <<connection_open, opens, stopped, thread, next_sessionID, sessions, client,
                   conn, late, fault>>

CompleteRead(c) ==
    /\ Polling /\ conn[c].reading
    /\ HasCome(c)
    /\ Completed(IF conn[c].unread = "nothing" THEN "FAILED" ELSE conn[c].unread, c)
    /\ conn' = [conn EXCEPT ![c].reading = FALSE, ![c].unread = "nothing"]
    /\ UNCHANGED <<connection_open, opens, accepts, stopped, thread, next_sessionID, sessions,
                   client, late, failures, fault>>

\* The reply is sent, and received if the client is there.
CompleteWrite(c) ==
    /\ Polling /\ conn[c].writing # "nothing"
    /\ Completed("WROTE", c)
    /\ conn' = [conn EXCEPT ![c].writing = "nothing"]
    /\ client' = [client EXCEPT ![c].waiting = FALSE,
                                ![c].cut = @ \/ conn[c].writing = "empty"]
    /\ UNCHANGED <<connection_open, opens, accepts, stopped, thread, next_sessionID, sessions,
                   late, failures, fault>>

\* A client connects to the listening socket, whether the worker accepts or not.
Connect(c) ==
    /\ client[c].at = "NEW"
    /\ client' = [client EXCEPT ![c].at = "CONNECTED"]
    /\ conn' = [conn EXCEPT ![c].at = "BACKLOG"]
    /\ UNCHANGED <<connection_open, opens, accepts, ready, stopped, thread, next_sessionID,
                   sessions, late, failures, fault>>

Request(c, what) ==
    /\ client[c].at = "CONNECTED" /\ ~ client[c].waiting /\ client[c].sent < MaxRequests[c]
    /\ client' = [client EXCEPT ![c].waiting = TRUE, ![c].sent = @ + 1]
    /\ conn' = [conn EXCEPT ![c].unread = what]
    /\ UNCHANGED <<connection_open, opens, accepts, ready, stopped, thread, next_sessionID,
                   sessions, late, failures, fault>>

Leave(c) ==
    /\ client[c].at = "CONNECTED"
    /\ client' = [client EXCEPT ![c].at = "LEFT", ![c].waiting = FALSE]
    /\ UNCHANGED <<connection_open, opens, accepts, ready, stopped, thread, next_sessionID,
                   sessions, conn, late, failures, fault>>

-----------------------------------------------------------------------------
(* The threads of the worker.                                                *)

\* accept_connection, called by the spawned thread.
AcceptConnection(t) ==
    /\ thread[t].at = "ACCEPT"
    /\ IF connection_open
       THEN /\ accepts' = accepts + 1
            /\ thread' = [thread EXCEPT ![t].at = "RUN", ![t].depth = 1]
       ELSE Goes(t, "ENDED", NoClient) /\ UNCHANGED accepts
    /\ UNCHANGED <<connection_open, opens, ready, stopped, next_sessionID, sessions, client,
                   conn, late, failures, fault>>

\* ic.run() takes the next handler; that of a failed read or write does nothing, and that
\* of a failed accept makes no session.  In
\* handle_send_indexed_rows a wrong datatype is caught inside the loop over the rows,
\* which does not move on: the thread stays at ROWS.
RunHandler(t) ==
    LET h == Head(ready)
    IN  /\ thread[t].at = "RUN" /\ ~ stopped /\ ready # <<>>
        /\ ready' = Tail(ready)
        /\ conn' = IF h.kind = "REQUEST" THEN [conn EXCEPT ![h.c].write_msg = "full"] ELSE conn
        /\ CASE h.kind = "ACCEPTED" -> Goes(t, "COUNT", h.c)
             [] h.kind = "REQUEST"  -> Goes(t, "FLUSH", h.c)
             [] h.kind = "NOT_ROWS" -> Goes(t, "ROWS", h.c)
             [] h.kind = "WROTE"    -> Goes(t, "CLEAR", h.c)
             [] h.kind = "FAILED"   -> Ends(t)
             [] h.kind = "NOT_ACCEPTED" -> Goes(t, "REARM", NoClient)
        /\ UNCHANGED <<connection_open, opens, accepts, next_sessionID, sessions, client, late,
                       failures, fault>>
        /\ MayStop

\* ic.run() returns once the io_context has stopped.
LeaveRun(t) ==
    /\ thread[t].at = "RUN" /\ stopped
    /\ thread' = [thread EXCEPT ![t].at = "ENDED", ![t].depth = 0]
    /\ UNCHANGED <<connection_open, opens, accepts, ready, stopped, next_sessionID, sessions,
                   client, conn, late, failures, fault>>

\* new_session: count it, ...
CountSession(t) ==
    /\ thread[t].at = "COUNT"
    /\ next_sessionID' = (next_sessionID + 1) % NumSessionIDs
    /\ Goes(t, "INSERT", thread[t].c)
    /\ UNCHANGED <<connection_open, opens, accepts, ready, stopped, sessions, client, conn,
                   late, failures, fault>>

\* ... make the session, which asks the socket for the address of its client, and throws
\* if that has reset the connection; insert it under the number found there by now, and
\* start the one that is there.
InsertSession(t) ==
    LET c == thread[t].c
    IN  /\ thread[t].at = "INSERT"
        /\ \/ /\ sessions[next_sessionID] = NoClient
              /\ sessions' = [sessions EXCEPT ![next_sessionID] = c]
              /\ conn' = [conn EXCEPT ![c].at = "SESSION", ![c].reading = TRUE]
              /\ UNCHANGED fault
           \/ /\ sessions[next_sessionID] # NoClient
              /\ fault' = "restarted" /\ UNCHANGED <<sessions, conn>>
           \/ /\ client[c].at = "LEFT"
              /\ fault' = "no_endpoint" /\ UNCHANGED <<sessions, conn>>
        /\ Goes(t, "REARM", c)
        /\ UNCHANGED <<connection_open, opens, accepts, ready, stopped, next_sessionID, client,
                       late, failures>>

\* accept_connection, called by the accept handler.
AcceptNext(t) ==
    /\ thread[t].at = "REARM"
    /\ IF connection_open
       THEN /\ accepts' = accepts + 1
            /\ thread' = [thread EXCEPT ![t] =
                             [at |-> "RUN", c |-> NoClient, depth |-> @.depth + 1]]
            /\ UNCHANGED late
       ELSE /\ late' = late + 1
            /\ UNCHANGED accepts
            /\ Ends(t)
    /\ UNCHANGED <<connection_open, opens, ready, next_sessionID, sessions, client, conn, failures,
                   fault>>
    /\ MayStop

\* handle_message, the reply written to write_msg: flush, then read_header.
Flush(t) ==
    LET c == thread[t].c
    IN  /\ thread[t].at = "FLUSH"
        /\ conn' = [conn EXCEPT ![c].writing = conn[c].write_msg, ![c].reading = TRUE]
        /\ Ends(t)
        /\ UNCHANGED <<connection_open, opens, accepts, ready, next_sessionID, sessions,
                       client, late, failures, fault>>
        /\ MayStop

\* The handler of the write clears write_msg.
ClearMessage(t) ==
    /\ thread[t].at = "CLEAR"
    /\ conn' = [conn EXCEPT ![thread[t].c].write_msg = "empty"]
    /\ Ends(t)
    /\ UNCHANGED <<connection_open, opens, accepts, ready, next_sessionID, sessions, client,
                   late, failures, fault>>
    /\ MayStop

\* After a fault nothing of this is certain any more.
Sound == fault = "none"

ThreadStep(t) ==
    /\ Sound
    /\ \/ AcceptConnection(t) \/ RunHandler(t) \/ LeaveRun(t) \/ CountSession(t)
       \/ InsertSession(t) \/ AcceptNext(t) \/ Flush(t) \/ ClearMessage(t)

Complete(c) == Sound /\ (CompleteAccept(c) \/ CompleteRead(c) \/ CompleteWrite(c))

Next ==
    \/ Sound /\ (OpenConnections \/ CloseConnections \/ FailAccept)
    \/ \E t \in Threads : ThreadStep(t)
    \/ \E c \in Clients : Complete(c) \/ (Sound /\ (Connect(c) \/ Leave(c)))
    \/ \E c \in Clients : \E what \in Sends[c] : Sound /\ Request(c, what)

\* Threads are scheduled again and again and the reactor reports what the operating
\* system has completed; clients and the driver owe nothing.
Fairness ==
    /\ \A t \in Threads : WF_vars(ThreadStep(t))
    /\ \A c \in Clients : WF_vars(Complete(c))

Spec == Init /\ [][Next]_vars /\ Fairness

-----------------------------------------------------------------------------
Accepted == {c \in Clients : conn[c].at \in {"ACCEPTED", "SESSION"}}

(* Every variable has its type, and of each connection no more than one      *)
(* completion of a kind is waiting for a thread at a time.                   *)
TypeOK ==
    /\ connection_open \in BOOLEAN /\ stopped \in BOOLEAN
    /\ fault \in {"none", "restarted", "no_endpoint"}
    /\ opens \in 0 .. MaxOpens /\ accepts \in 0 .. MaxOpens /\ late \in 0 .. MaxOpens
    /\ failures \in 0 .. MaxFailures
    /\ ready \in Seq([kind: {"ACCEPTED", "REQUEST", "NOT_ROWS", "WROTE", "FAILED"}, c: Clients]
                       \cup [kind: {"NOT_ACCEPTED"}, c: {NoClient}])
    /\ \A i, j \in DOMAIN ready : ready[i] = ready[j] => i = j \/ ready[i].c = NoClient
    /\ thread \in [Threads ->
          [at: {"NONE", "ACCEPT", "RUN", "COUNT", "INSERT", "REARM", "FLUSH", "CLEAR", "ROWS",
               "ENDED"},
           c: Clients \cup {NoClient}, depth: 0 .. Cardinality(Clients) + MaxFailures + 1]]
    /\ next_sessionID \in SessionIDs
    /\ sessions \in [SessionIDs -> Clients \cup {NoClient}]
    /\ client \in [Clients -> [at: {"NEW", "CONNECTED", "LEFT"}, sent: Nat,
                               waiting: BOOLEAN, cut: BOOLEAN]]
    /\ conn \in [Clients -> [at: {"NONE", "BACKLOG", "ACCEPTED", "SESSION"},
                             unread: {"nothing", "REQUEST", "NOT_ROWS"},
                             reading: BOOLEAN, write_msg: {"empty", "full"},
                             writing: {"nothing", "empty", "full"}]]

(* In a worker's first group one thread runs all handlers, and the one       *)
(* message a session writes its replies to and the counter of sessions are   *)
(* enough: no reply loses its content, and every connection has a session of *)
(* its own as long as there are IDs, of which sessions give none back.       *)
(* (With the thread of a second OPEN neither holds any more.)                *)
OneThreadIsSafe ==
    opens <= 1 =>
        /\ fault = "restarted" => \A id \in SessionIDs : sessions[id] # NoClient
        /\ \A c \in Clients : ~ client[c].cut

(* CLOSE cancels no accept that is pending: a worker that was told to close  *)
(* lets in clients still, but no more of them, and of accepts that fail,     *)
(* than it has been told to open.                                            *)
LateBounded == late + accepts <= opens

(* The io_context never stops once an accept was completed, failed or not,   *)
(* while the worker was open, since its handler does not end.  It stops, and *)
(* the worker is deaf to every client of its later groups, only if each      *)
(* client so far was accepted after a CLOSE and has left, and each accept    *)
(* that failed did so after a CLOSE.                                         *)
WhyStopped ==
    stopped => /\ late > 0
               /\ \A c \in Accepted : client[c].at = "LEFT"
               /\ late = Cardinality({c \in Clients : conn[c].at = "SESSION"}) + failures

(* Every thread of the worker that is left goes round in a loop over rows.   *)
Looping == \A t \in Threads : thread[t].at \in {"NONE", "ROWS", "ENDED"}

(* A client that connects to an open worker is accepted, however many are    *)
(* before it, if the worker stays open and its io_context has not stopped,   *)
(* or all its threads been taken by clients that sent rows that are none.    *)
ClientAccepted ==
    \A c \in Clients :
        (conn[c].at = "BACKLOG" /\ connection_open) ~>
            (conn[c].at # "BACKLOG" \/ ~ connection_open \/ stopped \/ ~ Sound \/ Looping)

(* A client that has a session gets its answers until it leaves, whether the *)
(* worker is closed meanwhile or opened for another group, and whatever rows *)
(* others send: a loop over rows that are none keeps only its own client     *)
(* waiting, as long as there is another thread.                              *)
RequestAnswered ==
    \A c \in Clients :
        (conn[c].at = "SESSION" /\ client[c].waiting) ~>
            (~ client[c].waiting \/ ~ Sound \/ Looping
             \/ \E t \in Threads : thread[t].at = "ROWS" /\ thread[t].c = c)
=============================================================================
