---------------------------- MODULE DriverSessions ----------------------------
(***************************************************************************)
(* The sessions of the driver's clients (Session.cpp, DriverSession.cpp):  *)
(* the chain of handlers by which the driver's one thread reads a header,  *)
(* its body, and handles the message; the one buffer in which each session *)
(* writes its answers while asio still sends from it; the ID that counts   *)
(* up with each handshake; and the commands that hold the thread until the *)
(* group's workers have met it.                                            *)
(*                                                                         *)
(* asio::async_write sends an answer in parts, each as much as one call    *)
(* takes; a part is sent at once if the socket has room for it, and else   *)
(* when it gets it.  Every completion is put behind the ones before it.    *)
(*                                                                         *)
(* What the commands do is in WorkerPool, GroupCommands and                *)
(* MatrixTransfer.  Message::clear after a write resets positions that     *)
(* start() resets again: with one thread it changes nothing here.          *)
(***************************************************************************)
EXTENDS Integers, Sequences

CONSTANTS Clients,      \* connections, each with a session of its own
          Eager,        \* those that do not wait for answers, and may leave
          Commands,     \* Commands[c]: those that client c gives (a bound)
          Long,         \* those whose answer is sent in two parts, all others in one (a bound)
          MaxRequests,  \* requests of a client (a bound)
          Room,         \* parts of answers that a socket holds until the client takes them
          NoClient

ASSUME SessionsAssumption ==
    /\ Eager \subseteq Clients /\ NoClient \notin Clients
    /\ MaxRequests \in Nat /\ Room \in Nat \ {0}
    /\ DOMAIN Commands = Clients

\* The commands of DriverSession::handle_message; a handshake is valid or not.
Handshakes == {"HANDSHAKE", "INVALID HANDSHAKE"}
Blocking   == {"REQUEST WORKERS", "YIELD WORKERS", "LOAD LIBRARY", "SEND MATRIX INFO", "RUN TASK"}
Answering  == {"CLIENT INFO", "SEND TEST STRING", "REQUEST TEST STRING", "LIST ALL WORKERS",
               "LIST ACTIVE WORKERS", "LIST INACTIVE WORKERS", "LIST ASSIGNED WORKERS"}

\* The others are not answered: they have empty handlers, or none.
Silent(cmd) == cmd \notin Handshakes \cup Blocking \cup Answering

VARIABLES
    sessionID,  \* sessionID[c]: what the driver expects of c's commands
    reading,    \* reading[c]: an async_read waits for a header
    data,       \* data[c]: the buffer of write_msg: whose answer each part of it has
    writes,     \* writes[c]: the writes that wait for room
    queue,      \* completions that wait for the thread
    busy,       \* whose command the thread waits with for the workers
    inbox,      \* inbox[c]: requests on their way to the driver
    wire,       \* wire[c]: parts of answers on their way to c
    asked,      \* asked[c]: how many requests c has made, and the last of them
    known,      \* known[c]: the session ID that c has read last
    taken,      \* taken[c]: the last part of an answer that c has taken
    gone,       \* gone[c]: c has left
    due,        \* history: due[c], the parts of c's answers that it has not taken
    whole,      \* history: all parts that c has taken were due
    waited,     \* history: some part had to wait for room
    refused     \* history: a command of c had the wrong ID

driver == <<sessionID, reading, data, writes, queue, busy, waited, refused>>
client == <<asked, known, taken, gone, whole>>
vars   == <<driver, client, inbox, wire, due>>

Parts(cmd) == IF cmd \in Long THEN 2 ELSE 1

Unknown == -1
Blank   == [n |-> 0, sid |-> Unknown]
Nothing == [asked |-> [n |-> 0, cmd |-> "WAIT"], taken |-> [n |-> 0, part |-> 0]]

Init ==
    /\ sessionID = [c \in Clients |-> 0]
    /\ reading = [c \in Clients |-> TRUE]
    /\ data = [c \in Clients |-> <<Blank, Blank>>]
    /\ writes = [c \in Clients |-> <<>>]
    /\ queue = <<>> /\ busy = [c |-> NoClient]
    /\ inbox = [c \in Clients |-> <<>>] /\ wire = [c \in Clients |-> <<>>]
    /\ asked = [c \in Clients |-> Nothing.asked]
    /\ known = [c \in Clients |-> Unknown]
    /\ taken = [c \in Clients |-> Nothing.taken]
    /\ gone = [c \in Clients |-> FALSE]
    /\ due = [c \in Clients |-> <<>>]
    /\ whole = [c \in Clients |-> TRUE]
    /\ waited = [c \in Clients |-> FALSE]
    /\ refused = [c \in Clients |-> FALSE]

-----------------------------------------------------------------------------
(* Clients, which are not in the repository.                                 *)

Pending(c) == /\ ~ Silent(asked[c].cmd)
              /\ taken[c] # [n |-> asked[c].n, part |-> Parts(asked[c].cmd)]

\* A client that waits begins with a handshake, by whose answer it knows its IDs.
Ask(c, cmd) ==
    /\ ~ gone[c] /\ asked[c].n < MaxRequests /\ asked[c].cmd # "SHUTDOWN"
    /\ c \in Eager \/ (~ Pending(c) /\ (known[c] # Unknown \/ cmd \in Handshakes))
    /\ asked' = [asked EXCEPT ![c] = [n |-> @.n + 1, cmd |-> cmd]]
    /\ inbox' = [inbox EXCEPT ![c] = Append(@, [n |-> asked[c].n + 1, cmd |-> cmd, sid |-> known[c]])]
    /\ UNCHANGED <<driver, wire, known, taken, gone, whole, due>>

Take(c) ==
    /\ ~ gone[c] /\ wire[c] # <<>>
    /\ LET part == Head(wire[c])
       IN  /\ taken' = [taken EXCEPT ![c] = [n |-> part.n, part |-> part.part]]
           /\ known' = [known EXCEPT ![c] = IF part.part = 1 THEN part.sid ELSE @]
           /\ whole' = [whole EXCEPT ![c] = @ /\ part = Head(due[c])]
    /\ due' = [due EXCEPT ![c] = Tail(@)]
    /\ wire' = [wire EXCEPT ![c] = Tail(@)]
    /\ UNCHANGED <<driver, inbox, asked, gone>>

\* Reads and writes of the session end with an error, upon which remove_session
\* does nothing.  A client leaves while the driver is busy with its request; at other
\* times it makes no more requests, which is the same to the driver.
Leave(c) ==
    /\ c \in Eager /\ ~ gone[c]
    /\ busy.c = c \/ writes[c] # <<>>
    /\ gone' = [gone EXCEPT ![c] = TRUE]
    /\ wire' = [wire EXCEPT ![c] = <<>>]
    /\ writes' = [writes EXCEPT ![c] = <<>>]
    /\ due' = [due EXCEPT ![c] = <<>>]
    /\ asked' = [asked EXCEPT ![c] = Nothing.asked]
    /\ taken' = [taken EXCEPT ![c] = Nothing.taken]
    /\ known' = [known EXCEPT ![c] = Unknown]
    /\ UNCHANGED <<sessionID, reading, data, queue, busy, waited, refused, inbox, whole>>

-----------------------------------------------------------------------------
(* asio.                                                                     *)

\* A write sends from the buffer it was started with, which a later handshake frees:
\* no part of an answer is read from it then.
Part(c, op) ==
    LET d == IF op.sid = sessionID'[c] THEN data'[c][op.part] ELSE Blank
    IN  [n |-> d.n, sid |-> d.sid, part |-> op.part]

Completion(kind, c, op) == <<[kind |-> kind, c |-> c, op |-> op]>>

Send(c, op, q) ==
    /\ wire' = [wire EXCEPT ![c] = Append(@, Part(c, op))]
    /\ queue' = q \o Completion("write", c, [op EXCEPT !.part = @ + 1])

\* The next part of a write, behind the writes that wait; q is the queue before it.
StartWrite(c, op, q) ==
    IF gone[c] THEN queue' = q /\ UNCHANGED <<wire, writes, waited>>
    ELSE IF writes[c] = <<>> /\ Len(wire[c]) < Room
    THEN Send(c, op, q) /\ UNCHANGED <<writes, waited>>
    ELSE /\ writes' = [writes EXCEPT ![c] = Append(@, op)]
         /\ waited' = [waited EXCEPT ![c] = TRUE]
         /\ queue' = q /\ UNCHANGED wire

\* The thread, when it waits for nothing else, finds a socket ready: to write ...
SocketHasRoom(c) ==
    /\ busy.c = NoClient /\ writes[c] # <<>> /\ Len(wire[c]) < Room
    /\ UNCHANGED <<sessionID, data>>
    /\ Send(c, Head(writes[c]), queue)
    /\ writes' = [writes EXCEPT ![c] = Tail(@)]
    /\ UNCHANGED <<client, reading, busy, waited, refused, inbox, due>>

\* ... or to read.  After the last request of a client that has left comes an error.
SocketHasData(c) ==
    /\ busy.c = NoClient /\ reading[c] /\ (inbox[c] # <<>> \/ gone[c])
    /\ queue' = queue \o (IF inbox[c] # <<>> THEN Completion("header", c, <<>>) ELSE <<>>)
    /\ reading' = [reading EXCEPT ![c] = FALSE]
    /\ UNCHANGED <<client, sessionID, data, writes, busy, waited, refused, inbox, wire, due>>

-----------------------------------------------------------------------------
(* Mutated forms of operators below, each a slip this code could have had;   *)
(* the properties are tested against them.                                   *)

\* A write is over after its first part.
RestOnce(op) == FALSE

\* The answer to a handshake is started before the ID is counted up.
AnswerIDBefore(c, cmd) == sessionID[c]

\* Handlers that have nothing to answer return without reading on.
ListensIfAnswered(cmd) == cmd # "SHUTDOWN" /\ ~ Silent(cmd)

-----------------------------------------------------------------------------
(* The driver's thread.                                                      *)

\* The ID in an answer's header.
AnswerID(c, cmd) == IF cmd = "HANDSHAKE" THEN sessionID[c] + 1 ELSE sessionID[c]

\* start, the write_* and flush; a valid handshake has made a new buffer before.
Answer(c, r, q) ==
    LET d == [n |-> r.n, sid |-> AnswerID(c, r.cmd)]
    IN  /\ data' = [data EXCEPT ![c] =
                       <<d, IF Parts(r.cmd) = 2 THEN d
                            ELSE IF r.cmd = "HANDSHAKE" THEN Blank ELSE @[2]>>]
        /\ due' = [due EXCEPT ![c] = IF gone[c] THEN @ ELSE @ \o
                      [k \in 1 .. Parts(r.cmd) |-> [n |-> r.n, sid |-> d.sid, part |-> k]]]
        /\ StartWrite(c, [part |-> 1, of |-> Parts(r.cmd), sid |-> sessionID'[c]], q)

NoAnswer(q) == queue' = q /\ UNCHANGED <<data, due, wire, writes, waited>>

\* Commands after which read_header is called.
Listens(cmd) == cmd # "SHUTDOWN"

\* DriverSession::handle_message, up to where a command waits for the workers.
HandleMessage(c, r, q) ==
    LET handshake == r.cmd \in Handshakes
        right     == handshake \/ r.sid = sessionID[c]
    IN  /\ sessionID' = [sessionID EXCEPT ![c] = IF r.cmd = "HANDSHAKE" THEN @ + 1 ELSE @]
        /\ refused' = [refused EXCEPT ![c] = @ \/ ~ right]
        /\ IF right /\ r.cmd \in Blocking
           THEN busy' = [c |-> c, r |-> r] /\ UNCHANGED reading /\ NoAnswer(q)
           ELSE /\ UNCHANGED busy
                /\ reading' = [reading EXCEPT ![c] = right /\ Listens(r.cmd)]
                /\ IF right /\ ~ Silent(r.cmd) THEN Answer(c, r, q) ELSE NoAnswer(q)

\* decode_header and read_body: the client has sent the body with its header.
ReadBody ==
    /\ queue # <<>> /\ Head(queue).kind = "header" /\ busy.c = NoClient
    /\ queue' = Tail(queue) \o Completion("body", Head(queue).c, <<>>)
    /\ UNCHANGED <<client, sessionID, reading, data, writes, busy, waited, refused, inbox, wire,
                   due>>

RunHandleMessage ==
    /\ queue # <<>> /\ Head(queue).kind = "body" /\ busy.c = NoClient
    /\ LET c == Head(queue).c
       IN  /\ inbox' = [inbox EXCEPT ![c] = Tail(@)]
           /\ HandleMessage(c, Head(inbox[c]), Tail(queue))
    /\ UNCHANGED client

\* The workers have met the driver in the last barrier of the command.
WorkersDone ==
    /\ busy.c # NoClient
    /\ UNCHANGED <<sessionID, refused>>
    /\ Answer(busy.c, busy.r, queue)
    /\ reading' = [reading EXCEPT ![busy.c] = TRUE]
    /\ busy' = [c |-> NoClient]
    /\ UNCHANGED <<client, inbox>>

\* Whether a write goes on after a part.
Rest(op) == op.part <= op.of

\* asio's own handler between two parts, and flush's at the end.
ContinueWrite ==
    /\ queue # <<>> /\ Head(queue).kind = "write" /\ busy.c = NoClient
    /\ UNCHANGED <<sessionID, data>>
    /\ IF Rest(Head(queue).op)
       THEN StartWrite(Head(queue).c, Head(queue).op, Tail(queue))
       ELSE queue' = Tail(queue) /\ UNCHANGED <<wire, writes, waited>>
    /\ UNCHANGED <<client, reading, busy, refused, inbox, due>>

Thread == ReadBody \/ RunHandleMessage \/ WorkersDone \/ ContinueWrite

Next ==
    \/ \E c \in Clients : \E cmd \in Commands[c] : Ask(c, cmd)
    \/ \E c \in Clients : Take(c) \/ Leave(c) \/ SocketHasRoom(c) \/ SocketHasData(c)
    \/ Thread

\* The thread runs what is in its queue and looks at its sockets, workers come to
\* the barriers of a command, and a client that waits takes what comes.
Fairness ==
    /\ WF_vars(Thread)
    /\ \A c \in Clients : WF_vars(SocketHasRoom(c)) /\ WF_vars(SocketHasData(c))
    /\ \A c \in Clients \ Eager : WF_vars(Take(c))

Spec == Init /\ [][Next]_vars /\ Fairness

-----------------------------------------------------------------------------
(* Properties.                                                               *)

\* A client that waits for each answer takes the answers whole, in order, with the ID
\* of the session at the time; so does one that does not wait as long as its socket
\* has room for all of them.  Otherwise the next answer is written into the buffer
\* from which the last is still being sent, or a handshake frees it.
AnswersWhole ==
    \A c \in Clients : c \notin Eager \/ ~ waited[c] => whole[c]

\* A client that waits for each answer and uses the ID in it, whatever handshakes it
\* makes and whether they are valid, always has the ID that the driver expects: its
\* session is not given up, which is what the driver does with a wrong ID, in silence.
NeverRefused == \A c \in Clients \ Eager : ~ refused[c]

\* Its requests are answered: whatever it asked before and got no answer to, and also
\* while others hold the thread with tasks, leave, or do not take what they asked for.
RequestAnswered == \A c \in Clients \ Eager : Pending(c) ~> ~ Pending(c)

=============================================================================
