----------------------- MODULE WorkerConnectionsProofs -----------------------
(***************************************************************************)
(* Machine-checked proofs about WorkerConnections, for any connections and *)
(* requests of clients, any accepts that fail, any span of the session IDs *)
(* and however often the worker is opened.  The invariant follows each     *)
(* connection through the io_context (where its accept or its read is,     *)
(* where its request is, and where its write is), counts the accepts from  *)
(* OPEN to their handlers, and says which session IDs one thread has used. *)
(***************************************************************************)
EXTENDS WorkerConnections, FiniteSetTheorems, SequenceTheorems, TLAPS

Kinds  == {"ACCEPTED", "REQUEST", "NOT_ROWS", "WROTE", "FAILED"}

\* What waits for a thread: of a connection, or an accept that failed.
Completions == [kind: Kinds, c: Clients] \cup [kind: {"NOT_ACCEPTED"}, c: {NoClient}]
Busy   == {"COUNT", "INSERT", "REARM", "FLUSH", "CLEAR", "ROWS"}
Places == Busy \cup {"NONE", "ACCEPT", "RUN", "ENDED"}

\* Where no two threads are with one connection.
Alone == {"COUNT", "INSERT", "FLUSH", "ROWS"}

Threading   == [at: Places, c: Clients \cup {NoClient}, depth: Nat]
Peers       == [at: {"NEW", "CONNECTED", "LEFT"}, sent: Nat, waiting: BOOLEAN, cut: BOOLEAN]
Connections == [at: {"NONE", "BACKLOG", "ACCEPTED", "SESSION"},
                unread: {"nothing", "REQUEST", "NOT_ROWS"}, reading: BOOLEAN,
                write_msg: {"empty", "full"}, writing: {"nothing", "empty", "full"}]

\* The completions that wait for a thread, and what the threads are doing, each with
\* its connection.
Waiting == {<<ready[i].kind, ready[i].c>> : i \in DOMAIN ready}
Working == {<<thread[t].at, thread[t].c>> : t \in Threads}

Queued(c, kind) == <<kind, c>> \in Waiting
Held(c, at)     == <<at, c>> \in Working

\* Where the accept of c is once it is completed, and where a request read from c is.
Asked(c)       == Queued(c, "REQUEST") \/ Queued(c, "NOT_ROWS")
BeingOpened(c) == Held(c, "COUNT") \/ Held(c, "INSERT")
BeingServed(c) == Held(c, "FLUSH") \/ Held(c, "ROWS")

(* TypeOK without its bounds, which need the rest of the invariant.          *)
Types ==
    /\ connection_open \in BOOLEAN /\ stopped \in BOOLEAN
    /\ fault \in {"none", "restarted", "no_endpoint"}
    /\ opens \in 0 .. MaxOpens /\ accepts \in Nat /\ late \in Nat
    /\ failures \in 0 .. MaxFailures
    /\ ready \in Seq(Completions)
    /\ thread \in [Threads -> Threading]
    /\ next_sessionID \in SessionIDs
    /\ sessions \in [SessionIDs -> Clients \cup {NoClient}]
    /\ client \in [Clients -> Peers]
    /\ conn \in [Clients -> Connections]

(* Threads are spawned in order, and one that has a handler to run is inside *)
(* an ic.run(), for a connection unless its accept failed.                   *)
Spawned ==
    \A t \in Threads :
        /\ t > opens <=> thread[t].at = "NONE"
        /\ thread[t].at \in Busy \ {"REARM"} => thread[t].c \in Clients
        /\ thread[t].at \in Busy \cup {"RUN"} => thread[t].depth > 0
        /\ thread[t].at \in {"NONE", "ACCEPT"} => thread[t].depth = 0

(* A connection's accept or read, and its write, are completed once; and its *)
(* write before its next read.                                               *)
Queue ==
    \A i, j \in DOMAIN ready :
        ready[i].c = ready[j].c /\ ready[i].c \in Clients =>
            /\ (ready[i].kind = "WROTE" <=> ready[j].kind = "WROTE") => i = j
            /\ ready[i].kind = "WROTE" /\ ready[j].kind \in {"REQUEST", "NOT_ROWS"} => i < j

OneEach ==
    \A t, u \in Threads :
        thread[t].at \in Alone /\ thread[u].at \in Alone /\ thread[t].c = thread[u].c => t = u

(* A connection's accept or read is in one place at a time.                  *)
OneRead(c) ==
    /\ conn[c].reading => ~ Asked(c) /\ ~ Queued(c, "ACCEPTED") /\ ~ Queued(c, "FAILED")
    /\ conn[c].reading \/ Asked(c) \/ Queued(c, "ACCEPTED") \/ Queued(c, "FAILED") =>
           ~ BeingOpened(c) /\ ~ BeingServed(c)

(* How far a connection has come.                                            *)
Stage(c) ==
    /\ client[c].at = "NEW" => conn[c].at = "NONE"
    /\ Queued(c, "ACCEPTED") \/ BeingOpened(c) <=> conn[c].at = "ACCEPTED"
    /\ \/ conn[c].reading \/ conn[c].writing # "nothing"
       \/ Asked(c) \/ Queued(c, "WROTE") \/ Queued(c, "FAILED")
       \/ BeingServed(c) \/ Held(c, "REARM") \/ Held(c, "CLEAR")
       => conn[c].at = "SESSION"
    /\ conn[c].at = "SESSION" /\ client[c].at # "LEFT" =>
           conn[c].reading \/ Asked(c) \/ BeingServed(c)

(* A connection's request is in one place at a time: unread, read, handled,  *)
(* answered; and nowhere when its client waits for no answer.                *)
OneRequest(c) ==
    /\ conn[c].unread # "nothing" => ~ Asked(c) /\ ~ BeingServed(c)
    /\ conn[c].writing # "nothing" =>
           /\ conn[c].unread = "nothing"
           /\ ~ Asked(c) /\ ~ Queued(c, "WROTE") /\ ~ BeingServed(c)
    /\ client[c].at # "LEFT" /\ ~ client[c].waiting =>
           /\ conn[c].unread = "nothing" /\ conn[c].writing = "nothing"
           /\ ~ Asked(c) /\ ~ BeingServed(c)
    /\ Held(c, "FLUSH") => ~ Queued(c, "WROTE")
    /\ Queued(c, "FAILED") => client[c].at = "LEFT"

Connected == \A c \in Clients : OneRead(c) /\ Stage(c) /\ OneRequest(c)

Arming   == {t \in Threads : thread[t].at \in {"ACCEPT", "REARM"}}
Rearming == {t \in Threads : thread[t].at = "REARM"}
Coming   == {c \in Clients : conn[c].at = "ACCEPTED"}
Served   == {c \in Clients : conn[c].at = "SESSION"}
Failing  == {i \in DOMAIN ready : ready[i].kind = "NOT_ACCEPTED"}

\* The accepts whose handlers have begun, with a session made or not.
Handled == Cardinality(Served) + failures - Cardinality(Failing)

(* Each OPEN arms one accept, which stays one through all it accepts.        *)
Tokens ==
    /\ late + accepts + Cardinality(Arming) + Cardinality(Coming) + Cardinality(Failing) <= opens
    /\ Cardinality(Failing) <= failures

(* Every accept handler that does not end runs the io_context once more, and *)
(* every other one has found the worker closed.                              *)
Nested ==
    /\ \A t \in Rearming : thread[t].depth <= Handled
    /\ (\A t \in Threads : thread[t].depth < 2) => late + Cardinality(Rearming) = Handled

(* The one thread of a worker's first group is in one handler at a time.     *)
Single ==
    opens <= 1 =>
        \A c \in Clients :
            /\ Held(c, "FLUSH") => conn[c].write_msg = "full"
            /\ conn[c].writing # "empty" /\ ~ client[c].cut

(* Sessions are numbered 1, 2, ... and, when the counter has come round, 0.  *)
Turn(id)  == IF id = 0 THEN NumSessionIDs ELSE id
Inserting == \E t \in Threads : thread[t].at = "INSERT"
Full      == \A id \in SessionIDs : sessions[id] # NoClient

(* Its thread takes the numbers in turn, and finds one taken only when all   *)
(* are.                                                                      *)
Numbered ==
    opens <= 1 =>
        \/ Full
        \/ \A id \in SessionIDs :
               sessions[id] # NoClient
                   <=> IF Inserting THEN Turn(id) < Turn(next_sessionID)
                                    ELSE Turn(id) <= next_sessionID

(* An io_context that has stopped has no work, and gets none.                *)
Idle ==
    stopped =>
        /\ ready = <<>> /\ late > 0
        /\ \A c \in Clients : ~ conn[c].reading /\ conn[c].writing = "nothing"
        /\ \A t \in Threads : thread[t].at \notin Busy /\ thread[t].depth < 2

Deep == \A t \in Threads : thread[t].depth <= Handled + 1

Counts == Tokens /\ Nested /\ Deep

Good == Types /\ Spawned /\ Queue /\ OneEach /\ Connected /\ Counts /\ Single /\ Idle

(* After a fault nothing is said of what happens.                            *)
Inv ==
    IF Sound THEN Good /\ Numbered ELSE TypeOK /\ LateBounded /\ ~ stopped /\ OneThreadIsSafe

-----------------------------------------------------------------------------
(* What a completion adds to the queue, and what the thread that takes its   *)
(* head leaves.                                                              *)
LEMMA QueueKinds ==
    ASSUME Types
    PROVE  \A i \in DOMAIN ready :
               \/ ready[i].kind \in Kinds /\ ready[i].c \in Clients
               \/ ready[i].kind = "NOT_ACCEPTED" /\ ready[i].c = NoClient
  <1> DEFINE S == Completions
  <1>1. ready \in Seq(S)
    BY DEF Types
  <1>2. \A e \in S :
            \/ e.kind \in Kinds /\ e.c \in Clients
            \/ e.kind = "NOT_ACCEPTED" /\ e.c = NoClient
    BY DEF Completions
  <1> HIDE DEF S
  <1> QED
    BY <1>1, <1>2, ElementOfSeq, LenProperties

LEMMA QueueGrows ==
    ASSUME Types, NEW kind, NEW c, [kind |-> kind, c |-> c] \in Completions, Completed(kind, c)
    PROVE  /\ ready' \in Seq(Completions)
           /\ Len(ready) \in Nat /\ DOMAIN ready = 1 .. Len(ready)
           /\ DOMAIN ready' = 1 .. Len(ready) + 1
           /\ \A i \in DOMAIN ready : ready'[i] = ready[i]
           /\ ready'[Len(ready) + 1] = [kind |-> kind, c |-> c]
           /\ Waiting' = Waiting \cup {<<kind, c>>}
           /\ Failing' = IF kind = "NOT_ACCEPTED" THEN Failing \cup {Len(ready) + 1} ELSE Failing
  <1> DEFINE e == [kind |-> kind, c |-> c]
  <1>1. ready \in Seq(Completions) /\ e \in Completions
    BY DEF Types
  <1>2. ready' = Append(ready, e)
    BY DEF Completed
  <1> HIDE DEF e
  <1>3. /\ ready' \in Seq(Completions)
        /\ Len(ready) \in Nat /\ DOMAIN ready = 1 .. Len(ready)
        /\ Len(ready') = Len(ready) + 1
        /\ \A i \in 1 .. Len(ready) : ready'[i] = ready[i]
        /\ ready'[Len(ready) + 1] = e
    BY <1>1, <1>2, AppendProperties, LenProperties
  <1>4. DOMAIN ready' = 1 .. Len(ready) + 1
    BY <1>3, LenProperties
  <1>5. e.kind = kind /\ e.c = c
    BY DEF e
  <1>6. Waiting' = Waiting \cup {<<kind, c>>}
    BY <1>3, <1>4, <1>5 DEF Waiting
  <1>7. Failing' = IF kind = "NOT_ACCEPTED" THEN Failing \cup {Len(ready) + 1} ELSE Failing
    BY <1>3, <1>4, <1>5 DEF Failing
  <1> QED
    BY <1>3, <1>4, <1>6, <1>7 DEF e

LEMMA QueueShrinks ==
    ASSUME Types, ready # <<>>, ready' = Tail(ready)
    PROVE  /\ ready' \in Seq(Completions)
           /\ Len(ready) \in Nat \ {0} /\ DOMAIN ready = 1 .. Len(ready)
           /\ Head(ready) = ready[1] /\ Head(ready) \in Completions
           /\ DOMAIN ready' = 1 .. Len(ready) - 1
           /\ \A i \in DOMAIN ready' : ready'[i] = ready[i + 1] /\ i + 1 \in DOMAIN ready
           /\ Waiting = Waiting' \cup {<<Head(ready).kind, Head(ready).c>>}
  <1> DEFINE S == Completions
  <1>1. ready \in Seq(S)
    BY DEF Types
  <1> HIDE DEF S
  <1>2. /\ Len(ready) \in Nat \ {0} /\ DOMAIN ready = 1 .. Len(ready)
    BY <1>1, LenProperties, EmptySeq
  <1>3. /\ ready' \in Seq(S) /\ Head(ready) \in S
        /\ Len(ready') = Len(ready) - 1
        /\ \A i \in 1 .. Len(ready') : ready'[i] = ready[i + 1]
    BY <1>1, HeadTailProperties
  <1>4. Head(ready) = ready[1]
    OBVIOUS
  <1>5. DOMAIN ready' = 1 .. Len(ready) - 1
    BY <1>3, LenProperties
  <1>6. \A i \in DOMAIN ready' : ready'[i] = ready[i + 1] /\ i + 1 \in DOMAIN ready
    BY <1>2, <1>3, <1>5
  <1>7. \A i \in DOMAIN ready : i = 1 \/ (i - 1 \in DOMAIN ready' /\ ready'[i - 1] = ready[i])
    BY <1>2, <1>3, <1>5
  <1>8. Waiting = Waiting' \cup {<<Head(ready).kind, Head(ready).c>>}
    <2>1. Waiting' \subseteq Waiting
      BY <1>6 DEF Waiting
    <2>2. <<Head(ready).kind, Head(ready).c>> \in Waiting
      BY <1>2, <1>4 DEF Waiting
    <2>3. ASSUME NEW i \in DOMAIN ready
          PROVE  \/ <<ready[i].kind, ready[i].c>> \in Waiting'
                 \/ i = 1
      BY <1>7, <2>3 DEF Waiting
    <2>4. Waiting \subseteq Waiting' \cup {<<Head(ready).kind, Head(ready).c>>}
      BY <1>4, <2>3 DEF Waiting
    <2> QED
      BY <2>1, <2>2, <2>4
  <1> QED
    BY <1>2, <1>3, <1>4, <1>5, <1>6, <1>8 DEF S

-----------------------------------------------------------------------------
(* The order of the queue is kept by a completion of which none is queued,   *)
(* and says what the thread that takes its head cannot leave behind.         *)
LEMMA QueueGrowsInOrder ==
    ASSUME Types, Queue, NEW kind \in Kinds, NEW c \in Clients, Completed(kind, c),
           kind = "WROTE" => \A k \in {"REQUEST", "NOT_ROWS", "WROTE"} : <<k, c>> \notin Waiting,
           kind # "WROTE" => \A k \in Kinds \ {"WROTE"} : <<k, c>> \notin Waiting
    PROVE  Queue'
  <1> DEFINE n == Len(ready) + 1
  <1>1. /\ Len(ready) \in Nat /\ DOMAIN ready = 1 .. Len(ready)
        /\ DOMAIN ready' = 1 .. n
        /\ \A i \in DOMAIN ready : ready'[i] = ready[i]
        /\ ready'[n] = [kind |-> kind, c |-> c]
    BY QueueGrows DEF Completions
  <1>2. ready'[n].kind = kind /\ ready'[n].c = c
    BY <1>1
  <1>3. /\ NoClient \notin Clients
        /\ \A i \in DOMAIN ready : /\ ready[i].kind \in Kinds \/ ready[i].c = NoClient
                                  /\ <<ready[i].kind, ready[i].c>> \in Waiting
    BY QueueKinds, ConnectionsAssumption DEF Waiting
  <1>4. \A i \in DOMAIN ready :
            ready[i].c = c =>
                /\ ~ (ready[i].kind = "WROTE" <=> kind = "WROTE")
                /\ kind = "WROTE" => ready[i].kind \notin {"REQUEST", "NOT_ROWS"}
    BY <1>3 DEF Kinds
  <1> HIDE DEF n
  <1>5. ASSUME NEW i \in DOMAIN ready', NEW j \in DOMAIN ready',
               ready'[i].c = ready'[j].c, ready'[i].c \in Clients
        PROVE  /\ (ready'[i].kind = "WROTE" <=> ready'[j].kind = "WROTE") => i = j
               /\ ready'[i].kind = "WROTE" /\ ready'[j].kind \in {"REQUEST", "NOT_ROWS"} => i < j
    <2>1. n \in Nat /\ DOMAIN ready = 1 .. n - 1
      BY <1>1 DEF n
    <2>2. CASE i # n /\ j # n
      BY <1>1, <1>5, <2>1, <2>2 DEF Queue
    <2>3. CASE i = n /\ j # n
      <3>1. j \in DOMAIN ready /\ ready'[j] = ready[j] /\ ready[j].c = c
        BY <1>1, <1>2, <1>5, <2>1, <2>3
      <3> QED
        BY <1>2, <1>4, <2>3, <3>1
    <2>4. CASE i # n /\ j = n
      <3>1. i \in DOMAIN ready /\ ready'[i] = ready[i] /\ ready[i].c = c /\ i < n
        BY <1>1, <1>2, <1>5, <2>1, <2>4
      <3> QED
        BY <1>2, <1>4, <2>4, <3>1
    <2>5. CASE i = n /\ j = n
      BY <2>5, <1>2
    <2> QED
      BY <2>2, <2>3, <2>4, <2>5
  <1> QED
    BY <1>5 DEF Queue

LEMMA QueueShrinksInOrder ==
    ASSUME Types, Queue, ready # <<>>, ready' = Tail(ready)
    PROVE  /\ Queue'
           /\ Head(ready).kind \in Kinds \ {"WROTE"} =>
                  \A k \in Kinds \ {"WROTE"} : <<k, Head(ready).c>> \notin Waiting'
           /\ Head(ready).kind = "WROTE" => <<"WROTE", Head(ready).c>> \notin Waiting'
           /\ Head(ready).kind \in {"REQUEST", "NOT_ROWS"} =>
                  <<"WROTE", Head(ready).c>> \notin Waiting
  <1>1. /\ Len(ready) \in Nat \ {0} /\ DOMAIN ready = 1 .. Len(ready)
        /\ Head(ready) = ready[1]
        /\ DOMAIN ready' = 1 .. Len(ready) - 1
        /\ \A i \in DOMAIN ready' : ready'[i] = ready[i + 1] /\ i + 1 \in DOMAIN ready
    BY QueueShrinks
  <1>2. Queue'
    <2>1. SUFFICES ASSUME NEW i \in DOMAIN ready', NEW j \in DOMAIN ready',
                          ready'[i].c = ready'[j].c, ready'[i].c \in Clients
                   PROVE  /\ (ready'[i].kind = "WROTE" <=> ready'[j].kind = "WROTE") => i = j
                          /\ ready'[i].kind = "WROTE" /\ ready'[j].kind \in {"REQUEST", "NOT_ROWS"}
                                => i < j
      BY DEF Queue
    <2>2. /\ (ready[i + 1].kind = "WROTE" <=> ready[j + 1].kind = "WROTE") => i + 1 = j + 1
          /\ ready[i + 1].kind = "WROTE" /\ ready[j + 1].kind \in {"REQUEST", "NOT_ROWS"}
                => i + 1 < j + 1
      BY <1>1, <2>1 DEF Queue
    <2>3. i \in Int /\ j \in Int /\ ready'[i] = ready[i + 1] /\ ready'[j] = ready[j + 1]
      BY <1>1
    <2> QED
      BY <2>2, <2>3
  <1>3. ASSUME NEW k \in Kinds, <<k, Head(ready).c>> \in Waiting',
               Head(ready).kind = "WROTE" <=> k = "WROTE"
        PROVE  FALSE
    <2>1. PICK i \in DOMAIN ready' : k = ready'[i].kind /\ ready'[i].c = Head(ready).c
      BY <1>3 DEF Waiting
    <2>2. /\ i + 1 \in DOMAIN ready /\ 1 \in DOMAIN ready /\ i + 1 # 1
          /\ ready[i + 1].c = ready[1].c /\ ready[i + 1].kind = k
      BY <1>1, <2>1
    <2>3. ready[i + 1].c \in Clients
      BY <2>2, QueueKinds DEF Kinds
    <2> QED
      BY <1>1, <1>3, <2>2, <2>3 DEF Queue
  <1>4. ASSUME Head(ready).kind \in {"REQUEST", "NOT_ROWS"}, <<"WROTE", Head(ready).c>> \in Waiting
        PROVE  FALSE
    <2>1. PICK i \in DOMAIN ready : "WROTE" = ready[i].kind /\ ready[i].c = Head(ready).c
      BY <1>4 DEF Waiting
    <2>2. 1 \in DOMAIN ready /\ i \in Nat \ {0}
      BY <1>1
    <2>3. ready[1].c \in Clients
      BY <1>1, <1>4, <2>2, QueueKinds DEF Kinds
    <2>4. i < 1
      BY <1>1, <1>4, <2>1, <2>2, <2>3 DEF Queue
    <2> QED
      BY <2>2, <2>4
  <1> QED
    BY <1>2, <1>3, <1>4 DEF Kinds

-----------------------------------------------------------------------------
(* Of the accepts that failed and wait for a thread, one more or one less.   *)
LEMMA FiniteFailing ==
    ASSUME Types
    PROVE  IsFiniteSet(Failing) /\ Cardinality(Failing) \in Nat
  <1>1. ready \in Seq(Completions)
    BY DEF Types
  <1>2. Len(ready) \in Nat /\ DOMAIN ready = 1 .. Len(ready)
    BY <1>1, LenProperties
  <1>3. IsFiniteSet(1 .. Len(ready))
    BY <1>2, FS_Interval
  <1>4. Failing \subseteq 1 .. Len(ready)
    BY <1>2 DEF Failing
  <1> QED
    BY <1>3, <1>4, FS_Subset, FS_CardinalityType

LEMMA FailingGrows ==
    ASSUME Types, NEW kind, NEW c, [kind |-> kind, c |-> c] \in Completions, Completed(kind, c)
    PROVE  Cardinality(Failing') = IF kind = "NOT_ACCEPTED" THEN Cardinality(Failing) + 1
                                                            ELSE Cardinality(Failing)
  <1>1. /\ Len(ready) \in Nat /\ DOMAIN ready = 1 .. Len(ready)
        /\ Failing' = IF kind = "NOT_ACCEPTED" THEN Failing \cup {Len(ready) + 1} ELSE Failing
    BY QueueGrows
  <1>2. Len(ready) + 1 \notin Failing
    BY <1>1 DEF Failing
  <1> QED
    BY <1>1, <1>2, FiniteFailing, FS_AddElement

LEMMA FailingShrinks ==
    ASSUME Types, ready # <<>>, ready' = Tail(ready)
    PROVE  Cardinality(Failing') = IF Head(ready).kind = "NOT_ACCEPTED"
                                   THEN Cardinality(Failing) - 1 ELSE Cardinality(Failing)
  <1> DEFINE Rest == Failing \ {1}
             f    == [i \in Rest |-> i - 1]
  <1>1. /\ Len(ready) \in Nat \ {0} /\ DOMAIN ready = 1 .. Len(ready)
        /\ Head(ready) = ready[1]
        /\ DOMAIN ready' = 1 .. Len(ready) - 1
        /\ \A i \in DOMAIN ready' : ready'[i] = ready[i + 1] /\ i + 1 \in DOMAIN ready
    BY QueueShrinks
  <1>2. 1 \in Failing <=> Head(ready).kind = "NOT_ACCEPTED"
    BY <1>1 DEF Failing
  <1>3. IsFiniteSet(Failing) /\ IsFiniteSet(Rest)
    BY FiniteFailing, FS_Subset
  <1>4. Cardinality(Rest) = IF 1 \in Failing THEN Cardinality(Failing) - 1
                                              ELSE Cardinality(Failing)
    BY <1>3, FS_RemoveElement
  <1>5. \A i \in Rest : i \in Int /\ i - 1 \in Failing'
    <2> SUFFICES ASSUME NEW i \in Rest PROVE i \in Int /\ i - 1 \in Failing'
      OBVIOUS
    <2>1. i \in 1 .. Len(ready) /\ i # 1 /\ ready[i].kind = "NOT_ACCEPTED"
      BY <1>1 DEF Failing
    <2>2. i - 1 \in DOMAIN ready' /\ (i - 1) + 1 = i
      BY <1>1, <2>1
    <2>3. ready'[i - 1] = ready[i]
      BY <1>1, <2>2
    <2> QED
      BY <2>1, <2>2, <2>3 DEF Failing
  <1>6. \A j \in Failing' : j + 1 \in Rest /\ j \in Int
    <2> SUFFICES ASSUME NEW j \in Failing' PROVE j + 1 \in Rest /\ j \in Int
      OBVIOUS
    <2>1. j \in DOMAIN ready' /\ ready'[j].kind = "NOT_ACCEPTED"
      BY DEF Failing
    <2>2. j + 1 \in DOMAIN ready /\ ready[j + 1].kind = "NOT_ACCEPTED" /\ j + 1 # 1 /\ j \in Int
      BY <1>1, <2>1
    <2> QED
      BY <2>2 DEF Failing
  <1> HIDE DEF Rest
  <1>7. f \in Bijection(Rest, Failing')
    <2>1. f \in [Rest -> Failing']
      BY <1>5
    <2>2. \A a, b \in Rest : f[a] = f[b] => a = b
      BY <1>5
    <2>3. \A j \in Failing' : f[j + 1] = j
      BY <1>6
    <2> QED
      BY <1>6, <2>1, <2>2, <2>3 DEF Bijection, Injection, Surjection, IsInjective
  <1>8. Cardinality(Failing') = Cardinality(Rest)
    BY <1>3, <1>7, FS_Bijection DEF ExistsBijection
  <1> QED
    BY <1>2, <1>4, <1>8

-----------------------------------------------------------------------------
(* A thread goes on in the handler of a connection, and no other one moves.  *)
Moved(t, at, c) ==
    /\ thread' \in [Threads -> Threading]
    /\ thread'[t].at = at /\ thread'[t].c = c
    /\ \A u \in Threads \ {t} : thread'[u] = thread[u]

LEMMA MovedWorking ==
    ASSUME NEW t \in Threads, NEW at, NEW c, Moved(t, at, c)
    PROVE  /\ Working' \subseteq Working \cup {<<at, c>>}
           /\ Working \subseteq Working' \cup {<<thread[t].at, thread[t].c>>}
           /\ <<at, c>> \in Working' /\ <<thread[t].at, thread[t].c>> \in Working
  <1> USE DEF Moved
  <1>1. \A u \in Threads : u # t => thread'[u] = thread[u]
    OBVIOUS
  <1>2. Working' \subseteq Working \cup {<<at, c>>}
    BY <1>1 DEF Working
  <1>3. Working \subseteq Working' \cup {<<thread[t].at, thread[t].c>>}
    BY <1>1 DEF Working
  <1> QED
    BY <1>2, <1>3 DEF Working

(* What is done alone for a connection is begun only where nobody does it,   *)
(* and is done by nobody once its thread has gone on.                        *)
LEMMA MovedAlone ==
    ASSUME OneEach, NEW t \in Threads, NEW at, NEW c, Moved(t, at, c),
           at \in Alone =>
               \/ thread[t].at \in Alone /\ thread[t].c = c
               \/ \A p \in Alone : <<p, c>> \notin Working
    PROVE  /\ OneEach'
           /\ thread[t].at \in Alone =>
                  \A p \in Alone : p # at => <<p, thread[t].c>> \notin Working'
  <1> USE DEF Moved
  <1>1. \A u \in Threads : u # t => thread'[u] = thread[u]
    OBVIOUS
  <1>2. \A u \in Threads : <<thread[u].at, thread[u].c>> \in Working
    BY DEF Working
  <1>3. ASSUME NEW u \in Threads, u # t, thread[u].at \in Alone, at \in Alone, thread[u].c = c
        PROVE  FALSE
    BY <1>2, <1>3 DEF OneEach
  <1>4. OneEach'
    <2> SUFFICES ASSUME NEW u \in Threads, NEW v \in Threads,
                        thread'[u].at \in Alone, thread'[v].at \in Alone,
                        thread'[u].c = thread'[v].c
                 PROVE  u = v
      BY DEF OneEach
    <2>1. CASE u # t /\ v # t
      BY <1>1, <2>1 DEF OneEach
    <2>2. CASE u = t /\ v # t
      BY <1>1, <1>3, <2>2
    <2>3. CASE u # t /\ v = t
      BY <1>1, <1>3, <2>3
    <2> QED
      BY <2>1, <2>2, <2>3
  <1>5. ASSUME thread[t].at \in Alone, NEW p \in Alone, p # at,
               <<p, thread[t].c>> \in Working'
        PROVE  FALSE
    <2>1. PICK u \in Threads : p = thread'[u].at /\ thread'[u].c = thread[t].c
      BY <1>5 DEF Working
    <2>2. u # t
      BY <1>5, <2>1
    <2> QED
      BY <1>1, <1>5, <2>1, <2>2 DEF OneEach
  <1> QED
    BY <1>4, <1>5

(* When a step is about one connection, the others are as they were.         *)
LEMMA OthersConnected ==
    ASSUME Connected, NEW c \in Clients,
           \A d \in Clients \ {c} : conn'[d] = conn[d] /\ client'[d] = client[d],
           \A d \in Clients \ {c}, k \in Kinds : <<k, d>> \in Waiting' <=> <<k, d>> \in Waiting,
           \A d \in Clients \ {c}, p \in Busy : <<p, d>> \in Working' <=> <<p, d>> \in Working,
           OneRead(c)', Stage(c)', OneRequest(c)'
    PROVE  Connected'
  <1> USE DEF OneRead, Stage, OneRequest, Asked, BeingOpened, BeingServed, Queued, Held
  <1>1. ASSUME NEW d \in Clients \ {c}
        PROVE  OneRead(d)' /\ Stage(d)' /\ OneRequest(d)'
    <2>1. conn'[d] = conn[d] /\ client'[d] = client[d]
      OBVIOUS
    <2>2. \A k \in Kinds : <<k, d>> \in Waiting' <=> <<k, d>> \in Waiting
      OBVIOUS
    <2>3. \A p \in Busy : <<p, d>> \in Working' <=> <<p, d>> \in Working
      OBVIOUS
    <2>4. /\ <<"ACCEPTED", d>> \in Waiting' <=> <<"ACCEPTED", d>> \in Waiting
          /\ <<"REQUEST", d>> \in Waiting' <=> <<"REQUEST", d>> \in Waiting
          /\ <<"NOT_ROWS", d>> \in Waiting' <=> <<"NOT_ROWS", d>> \in Waiting
          /\ <<"WROTE", d>> \in Waiting' <=> <<"WROTE", d>> \in Waiting
          /\ <<"FAILED", d>> \in Waiting' <=> <<"FAILED", d>> \in Waiting
      BY <2>2 DEF Kinds
    <2>5. /\ <<"COUNT", d>> \in Working' <=> <<"COUNT", d>> \in Working
          /\ <<"INSERT", d>> \in Working' <=> <<"INSERT", d>> \in Working
          /\ <<"REARM", d>> \in Working' <=> <<"REARM", d>> \in Working
          /\ <<"FLUSH", d>> \in Working' <=> <<"FLUSH", d>> \in Working
          /\ <<"CLEAR", d>> \in Working' <=> <<"CLEAR", d>> \in Working
          /\ <<"ROWS", d>> \in Working' <=> <<"ROWS", d>> \in Working
      BY <2>3 DEF Busy
    <2>6. OneRead(d) /\ Stage(d) /\ OneRequest(d)
      BY DEF Connected
    <2>7. OneRead(d)'
      BY <2>1, <2>4, <2>5, <2>6
    <2>8. Stage(d)'
      BY <2>1, <2>4, <2>5, <2>6
    <2>9. OneRequest(d)'
      BY <2>1, <2>4, <2>5, <2>6
    <2> QED
      BY <2>7, <2>8, <2>9
  <1>2. ASSUME NEW d \in Clients
        PROVE  OneRead(d)' /\ Stage(d)' /\ OneRequest(d)'
    <2>1. CASE d = c
      <3>1. OneRead(c)' /\ Stage(c)' /\ OneRequest(c)'
        OBVIOUS
      <3> QED
        BY <2>1, <3>1
    <2> QED
      BY <1>1, <2>1
  <1> QED
    BY <1>2 DEF Connected

(* The sets that are counted are finite.                                     *)
LEMMA FiniteCounts ==
    /\ IsFiniteSet(Clients) /\ IsFiniteSet(Threads)
    /\ IsFiniteSet(Arming) /\ IsFiniteSet(Rearming)
    /\ IsFiniteSet(Coming) /\ IsFiniteSet(Served)
    /\ Cardinality(Clients) \in Nat
    /\ Cardinality(Arming) \in Nat /\ Cardinality(Rearming) \in Nat
    /\ Cardinality(Coming) \in Nat /\ Cardinality(Served) \in Nat
  <1>1. IsFiniteSet(Clients) /\ IsFiniteSet(Threads)
    BY ConnectionsAssumption, FS_Interval DEF Threads
  <1>2. /\ Arming \subseteq Threads /\ Rearming \subseteq Threads
        /\ Coming \subseteq Clients /\ Served \subseteq Clients
    BY DEF Arming, Rearming, Coming, Served
  <1>3. /\ IsFiniteSet(Arming) /\ IsFiniteSet(Rearming)
        /\ IsFiniteSet(Coming) /\ IsFiniteSet(Served)
    BY <1>1, <1>2, FS_Subset
  <1>4. \A S : IsFiniteSet(S) => Cardinality(S) \in Nat
    BY FS_CardinalityType
  <1> QED
    BY <1>1, <1>3, <1>4

(* What is as it was when no thread moves, when nothing is queued or taken,  *)
(* and when nothing that is counted changes.                                 *)
LEMMA ThreadsKeep ==
    ASSUME Spawned, OneEach, UNCHANGED <<opens, thread>>
    PROVE  Spawned' /\ OneEach' /\ Working' = Working /\ Arming' = Arming /\ Rearming' = Rearming
  BY DEF Spawned, OneEach, Working, Arming, Rearming

LEMMA QueueKeeps ==
    ASSUME Queue, UNCHANGED ready
    PROVE  Queue' /\ Waiting' = Waiting /\ Failing' = Failing
  BY DEF Queue, Waiting, Failing

LEMMA CountsKeep ==
    ASSUME Counts, UNCHANGED <<opens, accepts, late, failures>>,
           \A t \in Threads : thread'[t].depth = thread[t].depth,
           Arming' = Arming, Rearming' = Rearming, Coming' = Coming, Served' = Served,
           Cardinality(Failing') = Cardinality(Failing)
    PROVE  Counts'
  <1>1. Handled' = Handled
    BY DEF Handled
  <1>2. Tokens'
    BY DEF Counts, Tokens
  <1>3. Nested'
    <2>1. Rearming \subseteq Threads
      BY DEF Rearming
    <2> QED
      BY <1>1, <2>1 DEF Counts, Nested
  <1>4. Deep'
    BY <1>1 DEF Counts, Deep
  <1> QED
    BY <1>2, <1>3, <1>4 DEF Counts

LEMMA PlacesKeep ==
    ASSUME \A d \in Clients : conn'[d].at = conn[d].at
    PROVE  Coming' = Coming /\ Served' = Served
  BY DEF Coming, Served

(* The numbers of the sessions are as they were, and so is whether a thread  *)
(* is about to insert one.                                                   *)
LEMMA NumberedKeep ==
    ASSUME Numbered, UNCHANGED <<next_sessionID, sessions>>, opens' <= 1 => opens <= 1,
           \A u \in Threads : thread'[u].at = "INSERT" <=> thread[u].at = "INSERT"
    PROVE  Numbered'
  <1>1. (Inserting' <=> Inserting) /\ (Full' <=> Full)
    BY DEF Inserting, Full
  <1> QED
    BY <1>1 DEF Numbered

LEMMA ConnectedKeep ==
    ASSUME Connected, UNCHANGED <<client, conn>>,
           \A k \in Kinds, d \in Clients : <<k, d>> \in Waiting' <=> <<k, d>> \in Waiting,
           \A p \in Busy, d \in Clients : <<p, d>> \in Working' <=> <<p, d>> \in Working
    PROVE  Connected'
  <1>1. /\ \A d \in Clients : <<"COUNT", d>> \in Working' <=> <<"COUNT", d>> \in Working
        /\ \A d \in Clients : <<"INSERT", d>> \in Working' <=> <<"INSERT", d>> \in Working
        /\ \A d \in Clients : <<"REARM", d>> \in Working' <=> <<"REARM", d>> \in Working
        /\ \A d \in Clients : <<"FLUSH", d>> \in Working' <=> <<"FLUSH", d>> \in Working
        /\ \A d \in Clients : <<"CLEAR", d>> \in Working' <=> <<"CLEAR", d>> \in Working
        /\ \A d \in Clients : <<"ROWS", d>> \in Working' <=> <<"ROWS", d>> \in Working
    BY DEF Busy
  <1>2. /\ \A d \in Clients : <<"ACCEPTED", d>> \in Waiting' <=> <<"ACCEPTED", d>> \in Waiting
        /\ \A d \in Clients : <<"REQUEST", d>> \in Waiting' <=> <<"REQUEST", d>> \in Waiting
        /\ \A d \in Clients : <<"NOT_ROWS", d>> \in Waiting' <=> <<"NOT_ROWS", d>> \in Waiting
        /\ \A d \in Clients : <<"WROTE", d>> \in Waiting' <=> <<"WROTE", d>> \in Waiting
        /\ \A d \in Clients : <<"FAILED", d>> \in Waiting' <=> <<"FAILED", d>> \in Waiting
    BY DEF Kinds
  <1>3. ASSUME NEW d \in Clients
        PROVE  OneRead(d)' /\ Stage(d)' /\ OneRequest(d)'
    BY <1>1, <1>2
       DEF Connected, OneRead, Stage, OneRequest, Asked, BeingOpened, BeingServed, Queued, Held
  <1> QED
    BY <1>3 DEF Connected

LEMMA GoodSplit ==
    ASSUME Good
    PROVE  /\ Types /\ Spawned /\ Queue /\ OneEach /\ Connected /\ Counts /\ Single /\ Idle
           /\ \A c \in Clients :
                  OneRead(c) /\ Stage(c) /\ OneRequest(c) /\ conn[c] \in Connections
  <1>1. Types /\ Spawned /\ Queue /\ OneEach /\ Connected /\ Counts /\ Single /\ Idle
    BY DEF Good
  <1>2. \A c \in Clients : OneRead(c) /\ Stage(c) /\ OneRequest(c)
    BY <1>1 DEF Connected
  <1>3. \A c \in Clients : conn[c] \in Connections
    BY <1>1 DEF Types
  <1> QED
    BY <1>1, <1>2, <1>3

-----------------------------------------------------------------------------
(* The reactor and the clients.                                              *)
LEMMA CompleteAcceptStep ==
    ASSUME Good, NEW c \in Clients, CompleteAccept(c)
    PROVE  Good'
  <1>1. /\ Types /\ Spawned /\ Queue /\ OneEach /\ Connected /\ Counts /\ Single /\ Idle
        /\ OneRead(c) /\ Stage(c) /\ OneRequest(c) /\ conn[c] \in Connections
    BY GoodSplit
  <1>2. /\ conn[c].at = "BACKLOG" /\ accepts > 0 /\ accepts' = accepts - 1 /\ ~ stopped
        /\ Completed("ACCEPTED", c)
        /\ UNCHANGED <<connection_open, opens, stopped, thread, next_sessionID, sessions, client,
                       late, failures, fault>>
    BY DEF CompleteAccept, Polling
  <1>3. /\ conn' \in [Clients -> Connections] /\ conn'[c].at = "ACCEPTED"
        /\ conn'[c].unread = conn[c].unread /\ conn'[c].reading = conn[c].reading
        /\ conn'[c].write_msg = conn[c].write_msg /\ conn'[c].writing = conn[c].writing
        /\ \A d \in Clients \ {c} : conn'[d] = conn[d]
    BY <1>1 DEF CompleteAccept, Types, Connections
  <1>4. /\ Spawned' /\ OneEach' /\ Working' = Working /\ Arming' = Arming /\ Rearming' = Rearming
    BY <1>1, <1>2, ThreadsKeep
  <1>5. /\ \A k \in Kinds : <<k, c>> \notin Waiting
        /\ ~ conn[c].reading /\ conn[c].writing = "nothing" /\ ~ BeingOpened(c) /\ ~ BeingServed(c)
        /\ ~ Held(c, "REARM") /\ ~ Held(c, "CLEAR")
    BY <1>1, <1>2 DEF Stage, Asked, Queued, Kinds
  <1>6. "ACCEPTED" \in Kinds /\ [kind |-> "ACCEPTED", c |-> c] \in Completions
    BY DEF Kinds, Completions
  <1>7. Queue'
    BY <1>1, <1>2, <1>5, <1>6, QueueGrowsInOrder
  <1>8. /\ ready' \in Seq(Completions)
        /\ Waiting' = Waiting \cup {<<"ACCEPTED", c>>}
        /\ Cardinality(Failing') = Cardinality(Failing)
    BY <1>1, <1>2, <1>6, QueueGrows, FailingGrows
  <1>9. Types'
    BY <1>1, <1>2, <1>3, <1>8 DEF Types
  <1>10. Connected'
    <2>1. \A d \in Clients \ {c}, k \in Kinds : <<k, d>> \in Waiting' <=> <<k, d>> \in Waiting
      BY <1>8
    <2>2. OneRead(c)' /\ OneRequest(c)'
      BY <1>1, <1>2, <1>3, <1>4, <1>5, <1>8
         DEF OneRead, OneRequest, Kinds, Asked, BeingOpened, BeingServed, Queued, Held
    <2>3. Stage(c)'
      BY <1>1, <1>2, <1>3, <1>4, <1>5, <1>8
         DEF Stage, Kinds, Asked, BeingOpened, BeingServed, Queued, Held
    <2> QED
      BY <1>1, <1>2, <1>3, <1>4, <2>1, <2>2, <2>3, OthersConnected
  <1>11. Counts'
    <2>1. Coming' = Coming \cup {c} /\ c \notin Coming /\ Served' = Served
      BY <1>2, <1>3, <1>4 DEF Coming, Served
    <2>2. Cardinality(Coming') = Cardinality(Coming) + 1
      BY <2>1, FiniteCounts, FS_AddElement
    <2>3. Handled' = Handled
      BY <1>2, <1>8, <2>1 DEF Handled
    <2>4. Tokens'
      BY <1>1, <1>2, <1>4, <1>8, <2>2, FiniteCounts, FiniteFailing DEF Counts, Tokens, Types
    <2> QED
      BY <1>1, <1>2, <1>4, <2>3, <2>4 DEF Counts, Nested, Deep
  <1>12. Single'
    BY <1>1, <1>2, <1>3, <1>4 DEF Single, Held
  <1>13. Idle'
    BY <1>2 DEF Idle
  <1> QED
    BY <1>4, <1>7, <1>9, <1>10, <1>11, <1>12, <1>13 DEF Good

LEMMA FailAcceptStep ==
    ASSUME Good, FailAccept
    PROVE  Good'
  <1>1. /\ Types /\ Spawned /\ Queue /\ OneEach /\ Connected /\ Counts /\ Single /\ Idle
    BY GoodSplit
  <1>2. /\ accepts > 0 /\ accepts' = accepts - 1 /\ ~ stopped
        /\ failures < MaxFailures /\ failures' = failures + 1
        /\ Completed("NOT_ACCEPTED", NoClient)
        /\ UNCHANGED <<connection_open, opens, stopped, thread, next_sessionID, sessions, client,
                       conn, late, fault>>
    BY DEF FailAccept, Polling
  <1>3. [kind |-> "NOT_ACCEPTED", c |-> NoClient] \in Completions /\ NoClient \notin Clients
    BY ConnectionsAssumption DEF Completions
  <1>4. /\ Spawned' /\ OneEach' /\ Working' = Working /\ Arming' = Arming /\ Rearming' = Rearming
    BY <1>1, <1>2, ThreadsKeep
  <1>5. /\ ready' \in Seq(Completions)
        /\ Waiting' = Waiting \cup {<<"NOT_ACCEPTED", NoClient>>}
        /\ Cardinality(Failing') = Cardinality(Failing) + 1
    BY <1>1, <1>2, <1>3, QueueGrows, FailingGrows
  <1>6. Queue'
    <2> DEFINE n == Len(ready) + 1
    <2>1. /\ DOMAIN ready' = 1 .. n /\ DOMAIN ready = 1 .. Len(ready) /\ Len(ready) \in Nat
          /\ \A i \in DOMAIN ready : ready'[i] = ready[i]
          /\ ready'[n].c = NoClient
      BY <1>1, <1>2, <1>3, QueueGrows
    <2>2. ASSUME NEW i \in DOMAIN ready', ready'[i].c \in Clients
          PROVE  i \in DOMAIN ready /\ ready'[i] = ready[i]
      BY <1>3, <2>1, <2>2
    <2> QED
      BY <1>1, <2>2 DEF Queue
  <1>7. Types'
    <2>1. failures' \in 0 .. MaxFailures /\ accepts' \in Nat
      BY <1>1, <1>2, ConnectionsAssumption DEF Types
    <2> QED
      BY <1>1, <1>2, <1>5, <2>1 DEF Types
  <1>8. Connected'
    <2>1. \A k \in Kinds, d \in Clients : <<k, d>> \in Waiting' <=> <<k, d>> \in Waiting
      BY <1>3, <1>5
    <2> QED
      BY <1>1, <1>2, <1>4, <2>1, ConnectedKeep
  <1>9. Counts'
    <2>1. Coming' = Coming /\ Served' = Served
      BY <1>2 DEF Coming, Served
    <2>2. Handled' = Handled
      <3>1. failures \in Nat /\ Cardinality(Failing) \in Nat /\ Cardinality(Served) \in Nat
        BY <1>1, FiniteCounts, FiniteFailing, ConnectionsAssumption DEF Types
      <3> QED
        BY <1>2, <1>5, <2>1, <3>1 DEF Handled
    <2>3. Tokens'
      <3>1. /\ late + accepts + Cardinality(Arming) + Cardinality(Coming) + Cardinality(Failing)
                  <= opens
            /\ Cardinality(Failing) <= failures
            /\ late \in Nat /\ accepts \in Nat /\ opens \in Int /\ failures \in Nat
        BY <1>1, ConnectionsAssumption DEF Counts, Tokens, Types
      <3>2. /\ late' = late /\ accepts' = accepts - 1 /\ opens' = opens /\ failures' = failures + 1
            /\ Cardinality(Arming') = Cardinality(Arming)
            /\ Cardinality(Coming') = Cardinality(Coming)
        BY <1>2, <1>4, <2>1
      <3>3. /\ Cardinality(Arming) \in Nat /\ Cardinality(Coming) \in Nat
            /\ Cardinality(Failing) \in Nat
        BY <1>1, FiniteCounts, FiniteFailing
      <3>4. /\ late' + accepts' + Cardinality(Arming') + Cardinality(Coming') + Cardinality(Failing')
                  <= opens'
            /\ Cardinality(Failing') <= failures'
        BY <1>5, <3>1, <3>2, <3>3
      <3> QED
        BY <3>4 DEF Tokens
    <2> QED
      BY <1>1, <1>2, <1>4, <2>2, <2>3 DEF Counts, Nested, Deep
  <1>10. Single' /\ Idle'
    BY <1>1, <1>2, <1>4 DEF Single, Idle, Held
  <1> QED
    BY <1>4, <1>6, <1>7, <1>8, <1>9, <1>10 DEF Good

LEMMA CompleteReadStep ==
    ASSUME Good, NEW c \in Clients, CompleteRead(c)
    PROVE  Good'
  <1> DEFINE kind == IF conn[c].unread = "nothing" THEN "FAILED" ELSE conn[c].unread
  <1>1. /\ Types /\ Spawned /\ Queue /\ OneEach /\ Connected /\ Counts /\ Single /\ Idle
        /\ OneRead(c) /\ Stage(c) /\ OneRequest(c) /\ conn[c] \in Connections
    BY GoodSplit
  <1>2. /\ conn[c].reading /\ ~ stopped
        /\ kind = "FAILED" => client[c].at = "LEFT" /\ conn[c].unread = "nothing"
        /\ kind # "FAILED" => conn[c].unread = kind
        /\ kind \in {"REQUEST", "NOT_ROWS", "FAILED"} /\ kind \in Kinds
        /\ Completed(kind, c)
        /\ UNCHANGED <<connection_open, opens, accepts, stopped, thread, next_sessionID, sessions,
                       client, late, failures, fault>>
    BY <1>1 DEF CompleteRead, Polling, HasCome, Connections, Kinds
  <1>3. /\ conn' \in [Clients -> Connections] /\ conn'[c].at = conn[c].at
        /\ conn'[c].unread = "nothing" /\ ~ conn'[c].reading
        /\ conn'[c].write_msg = conn[c].write_msg /\ conn'[c].writing = conn[c].writing
        /\ \A d \in Clients \ {c} : conn'[d] = conn[d]
    BY <1>1 DEF CompleteRead, Types, Connections
  <1> HIDE DEF kind
  <1>4. /\ Spawned' /\ OneEach' /\ Working' = Working /\ Arming' = Arming /\ Rearming' = Rearming
    BY <1>1, <1>2, ThreadsKeep
  <1>5. /\ \A k \in Kinds \ {"WROTE"} : <<k, c>> \notin Waiting
        /\ conn[c].at = "SESSION" /\ ~ BeingOpened(c) /\ ~ BeingServed(c)
    BY <1>1, <1>2 DEF OneRead, Stage, Asked, Queued, Kinds
  <1>6. Queue'
    BY <1>1, <1>2, <1>5, QueueGrowsInOrder
  <1>7. /\ ready' \in Seq(Completions)
        /\ Waiting' = Waiting \cup {<<kind, c>>}
        /\ Cardinality(Failing') = Cardinality(Failing)
    BY <1>1, <1>2, QueueGrows, FailingGrows DEF Completions, Kinds
  <1>8. Types'
    BY <1>1, <1>2, <1>3, <1>7 DEF Types
  <1>9. Connected'
    <2>1. \A d \in Clients \ {c}, k \in Kinds : <<k, d>> \in Waiting' <=> <<k, d>> \in Waiting
      BY <1>7
    <2>2. OneRead(c)'
      BY <1>1, <1>2, <1>3, <1>4, <1>5, <1>7
         DEF OneRead, Kinds, Asked, BeingOpened, BeingServed, Queued, Held
    <2>3. Stage(c)'
      BY <1>1, <1>2, <1>3, <1>4, <1>5, <1>7
         DEF Stage, Kinds, Asked, BeingOpened, BeingServed, Queued, Held
    <2>4. OneRequest(c)'
      BY <1>1, <1>2, <1>3, <1>4, <1>5, <1>7
         DEF OneRequest, Kinds, Asked, BeingOpened, BeingServed, Queued, Held
    <2> QED
      BY <1>1, <1>2, <1>3, <1>4, <2>1, <2>2, <2>3, <2>4, OthersConnected
  <1>10. Counts'
    BY <1>1, <1>2, <1>3, <1>4, <1>7, CountsKeep, PlacesKeep
  <1>11. Single'
    BY <1>1, <1>2, <1>3, <1>4 DEF Single, Held
  <1>12. Idle'
    BY <1>2 DEF Idle
  <1> QED
    BY <1>4, <1>6, <1>8, <1>9, <1>10, <1>11, <1>12 DEF Good

LEMMA CompleteWriteStep ==
    ASSUME Good, NEW c \in Clients, CompleteWrite(c)
    PROVE  Good'
  <1>1. /\ Types /\ Spawned /\ Queue /\ OneEach /\ Connected /\ Counts /\ Single /\ Idle
        /\ OneRead(c) /\ Stage(c) /\ OneRequest(c) /\ conn[c] \in Connections
    BY GoodSplit
  <1>2. /\ conn[c].writing # "nothing" /\ ~ stopped
        /\ Completed("WROTE", c)
        /\ UNCHANGED <<connection_open, opens, accepts, stopped, thread, next_sessionID, sessions,
                       late, failures, fault>>
    BY DEF CompleteWrite, Polling
  <1>3. /\ conn' \in [Clients -> Connections] /\ conn'[c].at = conn[c].at
        /\ conn'[c].unread = conn[c].unread /\ conn'[c].reading = conn[c].reading
        /\ conn'[c].write_msg = conn[c].write_msg /\ conn'[c].writing = "nothing"
        /\ \A d \in Clients \ {c} : conn'[d] = conn[d]
    BY <1>1 DEF CompleteWrite, Types, Connections
  <1>4. /\ client' \in [Clients -> Peers] /\ client'[c].at = client[c].at
        /\ ~ client'[c].waiting /\ client'[c].cut = (client[c].cut \/ conn[c].writing = "empty")
        /\ \A d \in Clients \ {c} : client'[d] = client[d]
    <2>1. client \in [Clients -> Peers]
      BY <1>1 DEF Types
    <2>2. client' = [client EXCEPT ![c].waiting = FALSE, ![c].cut = @ \/ conn[c].writing = "empty"]
      BY DEF CompleteWrite
    <2>3. client' \in [Clients -> Peers]
      BY <2>1, <2>2 DEF Peers
    <2>4. \A d \in Clients \ {c} : client'[d] = client[d]
      BY <2>1, <2>2
    <2>5. client'[c].at = client[c].at /\ ~ client'[c].waiting
      BY <2>1, <2>2 DEF Peers
    <2>6. client'[c].cut = (client[c].cut \/ conn[c].writing = "empty")
      BY <2>1, <2>2 DEF Peers
    <2> QED
      BY <2>3, <2>4, <2>5, <2>6
  <1>5. /\ Spawned' /\ OneEach' /\ Working' = Working /\ Arming' = Arming /\ Rearming' = Rearming
    BY <1>1, <1>2, ThreadsKeep
  <1>6. /\ ~ Asked(c) /\ ~ Queued(c, "WROTE") /\ ~ BeingServed(c)
        /\ conn[c].unread = "nothing" /\ conn[c].at = "SESSION"
    BY <1>1, <1>2 DEF OneRequest, Stage
  <1>7. Queue'
    BY <1>1, <1>2, <1>6, QueueGrowsInOrder DEF Kinds, Asked, Queued
  <1>8. /\ ready' \in Seq(Completions)
        /\ Waiting' = Waiting \cup {<<"WROTE", c>>}
        /\ Cardinality(Failing') = Cardinality(Failing)
    <2>1. [kind |-> "WROTE", c |-> c] \in Completions
      BY DEF Completions, Kinds
    <2> QED
      BY <1>1, <1>2, <2>1, QueueGrows, FailingGrows
  <1>9. Types'
    BY <1>1, <1>2, <1>3, <1>4, <1>8 DEF Types
  <1>10. Connected'
    <2>1. \A d \in Clients \ {c}, k \in Kinds : <<k, d>> \in Waiting' <=> <<k, d>> \in Waiting
      BY <1>8
    <2>2. OneRead(c)' /\ OneRequest(c)'
      BY <1>1, <1>2, <1>3, <1>4, <1>5, <1>6, <1>8
         DEF OneRead, OneRequest, Kinds, Asked, BeingOpened, BeingServed, Queued, Held
    <2>3. Stage(c)'
      BY <1>1, <1>2, <1>3, <1>4, <1>5, <1>6, <1>8
         DEF Stage, Kinds, Asked, BeingOpened, BeingServed, Queued, Held
    <2> QED
      BY <1>1, <1>3, <1>4, <1>5, <2>1, <2>2, <2>3, OthersConnected
  <1>11. Counts'
    BY <1>1, <1>2, <1>3, <1>5, <1>8, CountsKeep, PlacesKeep
  <1>12. Single'
    <2>1. ASSUME opens <= 1, NEW d \in Clients
          PROVE  /\ Held(d, "FLUSH") => conn'[d].write_msg = "full"
                 /\ conn'[d].writing # "empty" /\ ~ client'[d].cut
      <3>1. /\ Held(d, "FLUSH") => conn[d].write_msg = "full"
            /\ conn[d].writing # "empty" /\ ~ client[d].cut
        BY <1>1, <2>1 DEF Single
      <3>2. CASE d = c
        BY <1>3, <1>4, <3>1, <3>2
      <3> QED
        BY <1>3, <1>4, <3>1, <3>2
    <2> QED
      BY <1>1, <1>2, <1>5, <2>1 DEF Single, Held
  <1>13. Idle'
    BY <1>2 DEF Idle
  <1> QED
    BY <1>5, <1>7, <1>9, <1>10, <1>11, <1>12, <1>13 DEF Good

LEMMA ConnectStep ==
    ASSUME Good, NEW c \in Clients, Connect(c)
    PROVE  Good'
  <1>1. /\ Types /\ Spawned /\ Queue /\ OneEach /\ Connected /\ Counts /\ Single /\ Idle
        /\ OneRead(c) /\ Stage(c) /\ OneRequest(c) /\ conn[c] \in Connections
    BY GoodSplit
  <1>2. /\ client[c].at = "NEW"
        /\ UNCHANGED <<connection_open, opens, accepts, ready, stopped, thread, next_sessionID,
                       sessions, late, failures, fault>>
    BY DEF Connect
  <1>3. /\ conn' \in [Clients -> Connections] /\ conn'[c].at = "BACKLOG"
        /\ conn'[c].unread = conn[c].unread /\ conn'[c].reading = conn[c].reading
        /\ conn'[c].write_msg = conn[c].write_msg /\ conn'[c].writing = conn[c].writing
        /\ \A d \in Clients \ {c} : conn'[d] = conn[d]
    BY <1>1 DEF Connect, Types, Connections
  <1>4. /\ client' \in [Clients -> Peers] /\ client'[c].at = "CONNECTED"
        /\ client'[c].waiting = client[c].waiting /\ client'[c].cut = client[c].cut
        /\ \A d \in Clients \ {c} : client'[d] = client[d]
    BY <1>1 DEF Connect, Types, Peers
  <1>5. /\ Spawned' /\ OneEach' /\ Working' = Working /\ Arming' = Arming /\ Rearming' = Rearming
    BY <1>1, <1>2, ThreadsKeep
  <1>6. Queue' /\ Waiting' = Waiting /\ Failing' = Failing
    BY <1>1, <1>2, QueueKeeps
  <1>7. conn[c].at = "NONE"
    BY <1>1, <1>2 DEF Stage
  <1>8. Types'
    BY <1>1, <1>2, <1>3, <1>4 DEF Types
  <1>9. Connected'
    <2>1. OneRead(c)' /\ Stage(c)'
      BY <1>1, <1>2, <1>3, <1>4, <1>5, <1>6, <1>7
         DEF OneRead, Stage, Asked, BeingOpened, BeingServed, Queued, Held
    <2>2. OneRequest(c)'
      BY <1>1, <1>2, <1>3, <1>4, <1>5, <1>6, <1>7
         DEF OneRequest, Stage, Asked, BeingOpened, BeingServed, Queued, Held
    <2> QED
      BY <1>1, <1>3, <1>4, <1>5, <1>6, <2>1, <2>2, OthersConnected
  <1>10. Counts'
    <2>1. Coming' = Coming /\ Served' = Served
      BY <1>3, <1>7 DEF Coming, Served
    <2> QED
      BY <1>1, <1>2, <1>5, <1>6, <2>1, CountsKeep
  <1>11. Single'
    <2>1. \A d \in Clients : /\ conn'[d].write_msg = conn[d].write_msg
                             /\ conn'[d].writing = conn[d].writing
                             /\ client'[d].cut = client[d].cut
      BY <1>3, <1>4
    <2> QED
      BY <1>1, <1>2, <1>5, <2>1 DEF Single, Held
  <1>12. Idle'
    <2>1. \A d \in Clients : /\ conn'[d].reading = conn[d].reading
                             /\ conn'[d].writing = conn[d].writing
      BY <1>3
    <2> QED
      BY <1>1, <1>2, <2>1 DEF Idle
  <1> QED
    BY <1>5, <1>6, <1>8, <1>9, <1>10, <1>11, <1>12 DEF Good

LEMMA RequestStep ==
    ASSUME Good, NEW c \in Clients, NEW what \in {"REQUEST", "NOT_ROWS"}, Request(c, what)
    PROVE  Good'
  <1>1. /\ Types /\ Spawned /\ Queue /\ OneEach /\ Connected /\ Counts /\ Single /\ Idle
        /\ OneRead(c) /\ Stage(c) /\ OneRequest(c) /\ conn[c] \in Connections
    BY GoodSplit
  <1>2. /\ client[c].at = "CONNECTED" /\ ~ client[c].waiting
        /\ UNCHANGED <<connection_open, opens, accepts, ready, stopped, thread, next_sessionID,
                       sessions, late, failures, fault>>
    BY DEF Request
  <1>3. /\ conn' \in [Clients -> Connections] /\ conn'[c].at = conn[c].at
        /\ conn'[c].unread = what /\ conn'[c].reading = conn[c].reading
        /\ conn'[c].write_msg = conn[c].write_msg /\ conn'[c].writing = conn[c].writing
        /\ \A d \in Clients \ {c} : conn'[d] = conn[d]
    BY <1>1 DEF Request, Types, Connections
  <1>4. /\ client' \in [Clients -> Peers] /\ client'[c].at = "CONNECTED"
        /\ client'[c].waiting /\ client'[c].cut = client[c].cut
        /\ \A d \in Clients \ {c} : client'[d] = client[d]
    BY <1>1, <1>2 DEF Request, Types, Peers
  <1>5. /\ Spawned' /\ OneEach' /\ Working' = Working /\ Arming' = Arming /\ Rearming' = Rearming
    BY <1>1, <1>2, ThreadsKeep
  <1>6. Queue' /\ Waiting' = Waiting /\ Failing' = Failing
    BY <1>1, <1>2, QueueKeeps
  <1>7. Types'
    BY <1>1, <1>2, <1>3, <1>4 DEF Types
  <1>8. Connected'
    <2>1. OneRead(c)' /\ Stage(c)'
      BY <1>1, <1>2, <1>3, <1>4, <1>5, <1>6
         DEF OneRead, Stage, Asked, BeingOpened, BeingServed, Queued, Held
    <2>2. OneRequest(c)'
      BY <1>1, <1>2, <1>3, <1>4, <1>5, <1>6
         DEF OneRequest, Stage, Asked, BeingOpened, BeingServed, Queued, Held
    <2> QED
      BY <1>1, <1>3, <1>4, <1>5, <1>6, <2>1, <2>2, OthersConnected
  <1>9. Counts'
    BY <1>1, <1>2, <1>3, <1>5, <1>6, CountsKeep, PlacesKeep
  <1>10. Single'
    <2>1. \A d \in Clients : /\ conn'[d].write_msg = conn[d].write_msg
                             /\ conn'[d].writing = conn[d].writing
                             /\ client'[d].cut = client[d].cut
      BY <1>3, <1>4
    <2> QED
      BY <1>1, <1>2, <1>5, <2>1 DEF Single, Held
  <1>11. Idle'
    <2>1. \A d \in Clients : /\ conn'[d].reading = conn[d].reading
                             /\ conn'[d].writing = conn[d].writing
      BY <1>3
    <2> QED
      BY <1>1, <1>2, <2>1 DEF Idle
  <1> QED
    BY <1>5, <1>6, <1>7, <1>8, <1>9, <1>10, <1>11 DEF Good

LEMMA LeaveStep ==
    ASSUME Good, NEW c \in Clients, Leave(c)
    PROVE  Good'
  <1>1. /\ Types /\ Spawned /\ Queue /\ OneEach /\ Connected /\ Counts /\ Single /\ Idle
        /\ OneRead(c) /\ Stage(c) /\ OneRequest(c) /\ conn[c] \in Connections
    BY GoodSplit
  <1>2. UNCHANGED <<connection_open, opens, accepts, ready, stopped, thread, next_sessionID,
                    sessions, conn, late, failures, fault>>
    BY DEF Leave
  <1>3. /\ client' \in [Clients -> Peers] /\ client'[c].at = "LEFT"
        /\ client'[c].cut = client[c].cut
        /\ \A d \in Clients \ {c} : client'[d] = client[d]
    BY <1>1 DEF Leave, Types, Peers
  <1>4. /\ Spawned' /\ OneEach' /\ Working' = Working /\ Arming' = Arming /\ Rearming' = Rearming
    BY <1>1, <1>2, ThreadsKeep
  <1>5. Queue' /\ Waiting' = Waiting /\ Failing' = Failing
    BY <1>1, <1>2, QueueKeeps
  <1>6. Types'
    BY <1>1, <1>2, <1>3 DEF Types
  <1>7. Connected'
    <2>1. OneRead(c)' /\ Stage(c)'
      BY <1>1, <1>2, <1>3, <1>4, <1>5
         DEF OneRead, Stage, Asked, BeingOpened, BeingServed, Queued, Held
    <2>2. OneRequest(c)'
      BY <1>1, <1>2, <1>3, <1>4, <1>5
         DEF OneRequest, Stage, Asked, BeingOpened, BeingServed, Queued, Held
    <2> QED
      BY <1>1, <1>2, <1>3, <1>4, <1>5, <2>1, <2>2, OthersConnected
  <1>8. Counts'
    BY <1>1, <1>2, <1>4, <1>5, CountsKeep, PlacesKeep
  <1>9. Single'
    <2>1. \A d \in Clients : client'[d].cut = client[d].cut
      BY <1>3
    <2> QED
      BY <1>1, <1>2, <1>4, <2>1 DEF Single, Held
  <1>10. Idle'
    BY <1>1, <1>2 DEF Idle
  <1> QED
    BY <1>4, <1>5, <1>6, <1>7, <1>8, <1>9, <1>10 DEF Good

-----------------------------------------------------------------------------
(* The group's commands.                                                     *)
LEMMA OpenStep ==
    ASSUME Good, OpenConnections
    PROVE  Good'
  <1> DEFINE new == opens + 1
  <1>1. /\ Types /\ Spawned /\ Queue /\ OneEach /\ Connected /\ Counts /\ Single /\ Idle
    BY GoodSplit
  <1>2. /\ opens < MaxOpens /\ opens' = new /\ opens \in Nat /\ new \in Threads
        /\ connection_open' = TRUE
        /\ UNCHANGED <<accepts, ready, stopped, next_sessionID, sessions, client, conn, late, failures,
                       fault>>
    BY <1>1, ConnectionsAssumption DEF OpenConnections, Types, Threads
  <1>3. thread[new].at = "NONE" /\ thread[new].depth = 0
    BY <1>1, <1>2 DEF Spawned
  <1>4. /\ thread' \in [Threads -> Threading]
        /\ thread'[new].at = "ACCEPT" /\ thread'[new].c = thread[new].c /\ thread'[new].depth = 0
        /\ \A u \in Threads \ {new} : thread'[u] = thread[u]
    BY <1>1, <1>2, <1>3 DEF OpenConnections, Types, Threading, Places
  <1>5. Queue' /\ Waiting' = Waiting /\ Failing' = Failing
    BY <1>1, <1>2, QueueKeeps
  <1>6. Types'
    BY <1>1, <1>2, <1>4, ConnectionsAssumption DEF Types, Threads
  <1>7. \A t \in Threads : t > new => t > opens
    BY <1>2 DEF Threads
  <1>8. \A t \in Threads : t > opens => t = new \/ t > new
    BY <1>2 DEF Threads
  <1> HIDE DEF new
  <1>9. Moved(new, "ACCEPT", thread[new].c)
    BY <1>4 DEF Moved
  <1>10. OneEach'
    BY <1>1, <1>2, <1>9, MovedAlone DEF Alone
  <1>11. \A p \in Busy, d \in Clients : <<p, d>> \in Working' <=> <<p, d>> \in Working
    <2>1. /\ Working' \subseteq Working \cup {<<"ACCEPT", thread[new].c>>}
          /\ Working \subseteq Working' \cup {<<thread[new].at, thread[new].c>>}
      BY <1>2, <1>9, MovedWorking
    <2> QED
      BY <1>3, <2>1 DEF Busy
  <1>12. Spawned'
    <2>1. SUFFICES ASSUME NEW t \in Threads
                   PROVE  /\ t > new <=> thread'[t].at = "NONE"
                          /\ thread'[t].at \in Busy \ {"REARM"} => thread'[t].c \in Clients
                          /\ thread'[t].at \in Busy \cup {"RUN"} => thread'[t].depth > 0
                          /\ thread'[t].at \in {"NONE", "ACCEPT"} => thread'[t].depth = 0
      BY <1>2 DEF Spawned
    <2>2. CASE t = new
      <3>1. ~ (new > new)
        BY <1>2 DEF Threads
      <3> QED
        BY <1>4, <2>2, <3>1 DEF Busy
    <2>3. CASE t # new
      BY <1>1, <1>4, <1>7, <1>8, <2>3 DEF Spawned
    <2> QED
      BY <2>2, <2>3
  <1>13. Connected'
    BY <1>1, <1>2, <1>5, <1>11, ConnectedKeep
  <1>14. Counts'
    <2>1. Coming' = Coming /\ Served' = Served
      BY <1>2 DEF Coming, Served
    <2>2. Handled' = Handled
      BY <1>2, <1>5, <2>1 DEF Handled
    <2>3. Arming' = Arming \cup {new} /\ new \notin Arming
      BY <1>2, <1>3, <1>4 DEF Arming
    <2>4. Rearming' = Rearming /\ new \notin Rearming /\ Rearming \subseteq Threads
      BY <1>2, <1>3, <1>4 DEF Rearming
    <2>5. Cardinality(Arming') = Cardinality(Arming) + 1
      BY <2>3, FiniteCounts, FS_AddElement
    <2>6. \A t \in Threads : thread'[t].depth = thread[t].depth
      BY <1>3, <1>4
    <2>7. Tokens'
      BY <1>1, <1>2, <1>5, <2>1, <2>5, FiniteCounts, FiniteFailing
         DEF Counts, Tokens, Types, new
    <2>8. Nested'
      BY <1>1, <1>2, <2>2, <2>4, <2>6 DEF Counts, Nested
    <2>9. Deep'
      BY <1>1, <2>2, <2>6 DEF Counts, Deep
    <2> QED
      BY <2>7, <2>8, <2>9 DEF Counts
  <1>15. Single'
    <2>1. SUFFICES ASSUME new <= 1 PROVE opens <= 1 /\ Single'
      BY <1>2 DEF Single
    <2>2. opens <= 1
      BY <1>2, <2>1 DEF new
    <2> QED
      BY <1>1, <1>2, <1>11, <2>2 DEF Single, Held, Busy
  <1>16. Idle'
    <2>1. ASSUME NEW t \in Threads
          PROVE  thread'[t].depth = thread[t].depth /\ (thread'[t].at \in Busy => thread[t].at \in Busy)
      BY <1>3, <1>4 DEF Busy
    <2> QED
      BY <1>1, <1>2, <2>1 DEF Idle
  <1> QED
    BY <1>5, <1>6, <1>10, <1>12, <1>13, <1>14, <1>15, <1>16 DEF Good

LEMMA CloseStep ==
    ASSUME Good, CloseConnections
    PROVE  Good'
  <1>1. /\ Types /\ Spawned /\ Queue /\ OneEach /\ Connected /\ Counts /\ Single /\ Idle
    BY GoodSplit
  <1>2. /\ connection_open' = FALSE
        /\ UNCHANGED <<opens, accepts, ready, stopped, thread, next_sessionID, sessions, client,
                       conn, late, failures, fault>>
    BY DEF CloseConnections
  <1>3. /\ Spawned' /\ OneEach' /\ Working' = Working /\ Arming' = Arming /\ Rearming' = Rearming
    BY <1>1, <1>2, ThreadsKeep
  <1>4. Queue' /\ Waiting' = Waiting /\ Failing' = Failing
    BY <1>1, <1>2, QueueKeeps
  <1>5. Types'
    BY <1>1, <1>2 DEF Types
  <1>6. Connected'
    BY <1>1, <1>2, <1>3, <1>4, ConnectedKeep
  <1>7. Counts'
    BY <1>1, <1>2, <1>3, <1>4, CountsKeep, PlacesKeep
  <1>8. Single' /\ Idle'
    BY <1>1, <1>2, <1>3 DEF Single, Idle, Held
  <1> QED
    BY <1>3, <1>4, <1>5, <1>6, <1>7, <1>8 DEF Good

-----------------------------------------------------------------------------
(* The threads.                                                              *)
LEMMA GoesMoved ==
    ASSUME Types, NEW t \in Threads, NEW at \in Places, NEW c \in Clients \cup {NoClient},
           Goes(t, at, c)
    PROVE  Moved(t, at, c) /\ \A u \in Threads : thread'[u].depth = thread[u].depth
  <1>1. thread \in [Threads -> Threading]
    BY DEF Types
  <1>2. /\ thread' \in [Threads -> Threading]
        /\ thread'[t].at = at /\ thread'[t].c = c /\ thread'[t].depth = thread[t].depth
        /\ \A u \in Threads \ {t} : thread'[u] = thread[u]
    BY <1>1 DEF Goes, Threading
  <1> QED
    BY <1>2 DEF Moved

LEMMA MovedSpawned ==
    ASSUME Spawned, UNCHANGED opens, NEW t \in Threads, NEW at, NEW c, Moved(t, at, c),
           thread[t].at # "NONE", at \notin {"NONE", "ACCEPT"},
           at \in Busy \ {"REARM"} => c \in Clients,
           at \in Busy \cup {"RUN"} => thread'[t].depth > 0
    PROVE  Spawned'
  <1>1. /\ thread'[t].at = at /\ thread'[t].c = c
        /\ \A u \in Threads \ {t} : thread'[u] = thread[u]
    BY DEF Moved
  <1> SUFFICES ASSUME NEW u \in Threads
               PROVE  /\ u > opens <=> thread'[u].at = "NONE"
                      /\ thread'[u].at \in Busy \ {"REARM"} => thread'[u].c \in Clients
                      /\ thread'[u].at \in Busy \cup {"RUN"} => thread'[u].depth > 0
                      /\ thread'[u].at \in {"NONE", "ACCEPT"} => thread'[u].depth = 0
    BY DEF Spawned
  <1>2. CASE u = t
    BY <1>1, <1>2 DEF Spawned
  <1>3. CASE u # t
    BY <1>1, <1>3 DEF Spawned
  <1> QED
    BY <1>2, <1>3

(* Of a connection it is not about, a thread's step changes nothing.         *)
LEMMA MovedOthers ==
    ASSUME NEW t \in Threads, NEW at, NEW c, Moved(t, at, c), NEW d,
           at \in Busy => d # c, thread[t].at \in Busy => d # thread[t].c
    PROVE  \A p \in Busy : <<p, d>> \in Working' <=> <<p, d>> \in Working
  <1>1. /\ Working' \subseteq Working \cup {<<at, c>>}
        /\ Working \subseteq Working' \cup {<<thread[t].at, thread[t].c>>}
    BY MovedWorking
  <1> QED
    BY <1>1

LEMMA OneThread ==
    ASSUME Types, Spawned, opens <= 1, NEW t \in Threads, NEW u \in Threads,
           thread[t].at # "NONE", thread[u].at # "NONE"
    PROVE  t = u
  <1>1. ~ (t > opens) /\ ~ (u > opens) /\ opens \in Nat
    BY DEF Spawned, Types
  <1> QED
    BY <1>1 DEF Threads

(* When the io_context stops, every accept handler so far has found the      *)
(* worker closed, and there was one.                                         *)
LEMMA StopsIdle ==
    ASSUME Types', Nested', MayStop, Handled' > 0
    PROVE  Idle'
  <1> SUFFICES ASSUME stopped'
               PROVE  /\ ready' = <<>> /\ late' > 0
                      /\ \A d \in Clients : ~ conn'[d].reading /\ conn'[d].writing = "nothing"
                      /\ \A t \in Threads : thread'[t].at \notin Busy /\ thread'[t].depth < 2
    BY DEF Idle
  <1>1. /\ ready' = <<>>
        /\ \A d \in Clients : ~ conn'[d].reading /\ conn'[d].writing = "nothing"
        /\ \A t \in Threads : thread'[t].at \notin Busy /\ thread'[t].depth < 2
    BY DEF MayStop, OutOfWork, InHandler, Busy
  <1>2. late' + Cardinality(Rearming)' = Handled'
    BY <1>1 DEF Nested
  <1>3. Rearming' = {}
    BY <1>1 DEF Rearming, Busy
  <1>4. Cardinality(Rearming)' = 0
    BY <1>3, FS_EmptySet
  <1>5. late' \in Nat
    BY DEF Types
  <1> QED
    BY <1>1, <1>2, <1>4, <1>5

(* A session was made by an accept handler.                                  *)
LEMMA ServedHandled ==
    ASSUME Types, Counts, NEW c, c \in Served
    PROVE  Handled > 0
  <1>1. IsFiniteSet({c}) /\ Cardinality({c}) = 1
    BY FS_Singleton
  <1>2. {c} \subseteq Served /\ IsFiniteSet(Served)
    BY FiniteCounts
  <1>3. 1 <= Cardinality(Served)
    BY <1>1, <1>2, FS_Subset
  <1>4. Cardinality(Failing) <= failures /\ failures \in Nat /\ Cardinality(Failing) \in Nat
    BY FiniteFailing, ConnectionsAssumption DEF Counts, Tokens, Types
  <1> QED
    BY <1>3, <1>4, FiniteCounts DEF Handled

LEMMA AcceptConnectionStep ==
    ASSUME Good, NEW t \in Threads, AcceptConnection(t)
    PROVE  Good'
  <1> DEFINE at == IF connection_open THEN "RUN" ELSE "ENDED"
             d  == IF connection_open THEN thread[t].c ELSE NoClient
  <1>1. /\ Types /\ Spawned /\ Queue /\ OneEach /\ Connected /\ Counts /\ Single /\ Idle
    BY GoodSplit
  <1>2. /\ thread[t].at = "ACCEPT"
        /\ accepts' = IF connection_open THEN accepts + 1 ELSE accepts
        /\ UNCHANGED <<connection_open, opens, ready, stopped, next_sessionID, sessions, client,
                       conn, late, failures, fault>>
    BY DEF AcceptConnection
  <1>3. thread[t].depth = 0
    BY <1>1, <1>2 DEF Spawned
  <1>4. /\ Moved(t, at, d)
        /\ \A u \in Threads \ {t} : thread'[u] = thread[u]
        /\ thread'[t].at = at /\ thread'[t].depth = IF connection_open THEN 1 ELSE 0
    <2>1. thread \in [Threads -> Threading] /\ thread[t] \in Threading
      BY <1>1 DEF Types
    <2>2. CASE connection_open
      <3>1. /\ thread' \in [Threads -> Threading]
            /\ thread'[t].at = "RUN" /\ thread'[t].c = thread[t].c /\ thread'[t].depth = 1
            /\ \A u \in Threads \ {t} : thread'[u] = thread[u]
        BY <2>1, <2>2 DEF AcceptConnection, Threading, Places
      <3> QED
        BY <2>2, <3>1 DEF Moved
    <2>3. CASE ~ connection_open
      <3>1. Goes(t, "ENDED", NoClient)
        BY <2>3 DEF AcceptConnection
      <3>2. /\ Moved(t, "ENDED", NoClient)
            /\ \A u \in Threads : thread'[u].depth = thread[u].depth
        BY <1>1, <3>1, GoesMoved DEF Places
      <3> QED
        BY <1>3, <2>3, <3>2 DEF Moved
    <2> QED
      BY <2>2, <2>3
  <1>5. at \in {"RUN", "ENDED"} /\ (at = "RUN" <=> connection_open)
    OBVIOUS
  <1> HIDE DEF at, d
  <1>6. Queue' /\ Waiting' = Waiting /\ Failing' = Failing
    BY <1>1, <1>2, QueueKeeps
  <1>7. Types'
    BY <1>1, <1>2, <1>4 DEF Types, Moved
  <1>8. Spawned'
    BY <1>1, <1>2, <1>4, <1>5, MovedSpawned DEF Busy
  <1>9. OneEach'
    BY <1>1, <1>4, <1>5, MovedAlone DEF Alone
  <1>10. \A p \in Busy, e \in Clients : <<p, e>> \in Working' <=> <<p, e>> \in Working
    <2>1. /\ Working' \subseteq Working \cup {<<at, d>>}
          /\ Working \subseteq Working' \cup {<<thread[t].at, thread[t].c>>}
      BY <1>4, MovedWorking
    <2> QED
      BY <1>2, <1>5, <2>1 DEF Busy
  <1>11. Connected'
    BY <1>1, <1>2, <1>6, <1>10, ConnectedKeep
  <1>12. Counts'
    <2>1. Coming' = Coming /\ Served' = Served
      BY <1>2 DEF Coming, Served
    <2>2. Handled' = Handled /\ Handled \in Nat
      BY <1>1, <1>2, <1>6, <2>1, FiniteCounts, FiniteFailing
         DEF Handled, Counts, Tokens, Types
    <2>3. Arming' = Arming \ {t} /\ t \in Arming
      BY <1>2, <1>4, <1>5 DEF Arming
    <2>4. Rearming' = Rearming /\ t \notin Rearming /\ Rearming \subseteq Threads
      BY <1>2, <1>4, <1>5 DEF Rearming
    <2>5. Cardinality(Arming') = Cardinality(Arming) - 1
      BY <2>3, FiniteCounts, FS_RemoveElement
    <2>6. Tokens'
      BY <1>1, <1>2, <1>6, <2>1, <2>5, FiniteCounts, FiniteFailing DEF Counts, Tokens, Types
    <2>7. Nested'
      BY <1>1, <1>2, <1>3, <1>4, <2>2, <2>4 DEF Counts, Nested
    <2>8. Deep'
      <3>1. thread'[t].depth <= Handled + 1
        BY <1>4, <2>2
      <3> QED
        BY <1>1, <1>4, <2>2, <3>1 DEF Counts, Deep
    <2> QED
      BY <2>6, <2>7, <2>8 DEF Counts
  <1>13. Single'
    BY <1>1, <1>2, <1>10 DEF Single, Held, Busy
  <1>14. Idle'
    <2>1. ASSUME NEW u \in Threads
          PROVE  /\ thread[u].depth < 2 => thread'[u].depth < 2
                 /\ thread'[u].at \in Busy => thread[u].at \in Busy
      BY <1>3, <1>4, <1>5 DEF Busy
    <2> QED
      BY <1>1, <1>2, <2>1 DEF Idle
  <1> QED
    BY <1>6, <1>7, <1>8, <1>9, <1>11, <1>12, <1>13, <1>14 DEF Good

LEMMA LeaveRunStep ==
    ASSUME Good, NEW t \in Threads, LeaveRun(t)
    PROVE  Good'
  <1>1. /\ Types /\ Spawned /\ Queue /\ OneEach /\ Connected /\ Counts /\ Single /\ Idle
    BY GoodSplit
  <1>2. /\ thread[t].at = "RUN" /\ stopped
        /\ UNCHANGED <<connection_open, opens, accepts, ready, stopped, next_sessionID, sessions,
                       client, conn, late, failures, fault>>
    BY DEF LeaveRun
  <1>3. /\ Moved(t, "ENDED", thread[t].c)
        /\ thread'[t].at = "ENDED" /\ thread'[t].depth = 0
        /\ \A u \in Threads \ {t} : thread'[u] = thread[u]
    <2>1. thread \in [Threads -> Threading] /\ thread[t] \in Threading
      BY <1>1 DEF Types
    <2>2. /\ thread' \in [Threads -> Threading]
          /\ thread'[t].at = "ENDED" /\ thread'[t].c = thread[t].c /\ thread'[t].depth = 0
          /\ \A u \in Threads \ {t} : thread'[u] = thread[u]
      BY <2>1 DEF LeaveRun, Threading, Places
    <2> QED
      BY <2>2 DEF Moved
  <1>4. Queue' /\ Waiting' = Waiting /\ Failing' = Failing
    BY <1>1, <1>2, QueueKeeps
  <1>5. Types'
    BY <1>1, <1>2, <1>3 DEF Types, Moved
  <1>6. Spawned'
    BY <1>1, <1>2, <1>3, MovedSpawned DEF Busy
  <1>7. OneEach'
    BY <1>1, <1>3, MovedAlone DEF Alone
  <1>8. \A p \in Busy, e \in Clients : <<p, e>> \in Working' <=> <<p, e>> \in Working
    <2>1. /\ Working' \subseteq Working \cup {<<"ENDED", thread[t].c>>}
          /\ Working \subseteq Working' \cup {<<thread[t].at, thread[t].c>>}
      BY <1>3, MovedWorking
    <2> QED
      BY <1>2, <2>1 DEF Busy
  <1>9. Connected'
    BY <1>1, <1>2, <1>4, <1>8, ConnectedKeep
  <1>10. Counts'
    <2>1. Coming' = Coming /\ Served' = Served
      BY <1>2 DEF Coming, Served
    <2>2. Handled' = Handled /\ Handled \in Nat
      BY <1>1, <1>2, <1>4, <2>1, FiniteCounts, FiniteFailing
         DEF Handled, Counts, Tokens, Types
    <2>3. Arming' = Arming
      BY <1>2, <1>3 DEF Arming
    <2>4. Rearming' = Rearming /\ t \notin Rearming /\ Rearming \subseteq Threads
      BY <1>2, <1>3 DEF Rearming
    <2>5. Tokens'
      BY <1>1, <1>2, <1>4, <2>1, <2>3 DEF Counts, Tokens
    <2>6. Nested'
      <3>1. \A u \in Threads : thread[u].depth < 2
        BY <1>1, <1>2 DEF Idle
      <3> QED
        BY <1>1, <1>2, <1>3, <2>2, <2>4, <3>1 DEF Counts, Nested
    <2>7. Deep'
      <3>1. thread'[t].depth <= Handled + 1
        BY <1>3, <2>2
      <3> QED
        BY <1>1, <1>3, <2>2, <3>1 DEF Counts, Deep
    <2> QED
      BY <2>5, <2>6, <2>7 DEF Counts
  <1>11. Single'
    BY <1>1, <1>2, <1>8 DEF Single, Held, Busy
  <1>12. Idle'
    <2>1. ASSUME NEW u \in Threads
          PROVE  /\ thread[u].depth < 2 => thread'[u].depth < 2
                 /\ thread'[u].at \in Busy => thread[u].at \in Busy
      BY <1>3 DEF Busy
    <2> QED
      BY <1>1, <1>2, <2>1 DEF Idle
  <1> QED
    BY <1>4, <1>5, <1>6, <1>7, <1>9, <1>10, <1>11, <1>12 DEF Good

LEMMA CountSessionStep ==
    ASSUME Good, NEW t \in Threads, CountSession(t)
    PROVE  Good'
  <1>1. /\ Types /\ Spawned /\ Queue /\ OneEach /\ Connected /\ Counts /\ Single /\ Idle
    BY GoodSplit
  <1>2. /\ thread[t].at = "COUNT" /\ next_sessionID' = (next_sessionID + 1) % NumSessionIDs
        /\ Goes(t, "INSERT", thread[t].c)
        /\ UNCHANGED <<connection_open, opens, accepts, ready, stopped, sessions, client, conn,
                       late, failures, fault>>
    BY DEF CountSession
  <1>3. PICK c \in Clients : thread[t].c = c
    BY <1>1, <1>2 DEF Spawned, Busy
  <1>4. OneRead(c) /\ Stage(c) /\ OneRequest(c) /\ Held(c, "COUNT")
    BY <1>1, <1>2, <1>3 DEF Connected, Held, Working
  <1>5. Moved(t, "INSERT", c) /\ \A u \in Threads : thread'[u].depth = thread[u].depth
    BY <1>1, <1>2, <1>3, GoesMoved DEF Places, Busy
  <1>6. /\ thread'[t].at = "INSERT" /\ thread[t].c = c
        /\ \A u \in Threads \ {t} : thread'[u] = thread[u]
    BY <1>3, <1>5 DEF Moved
  <1>7. Queue' /\ Waiting' = Waiting /\ Failing' = Failing
    BY <1>1, <1>2, QueueKeeps
  <1>8. Spawned'
    BY <1>1, <1>2, <1>3, <1>5, MovedSpawned DEF Spawned, Busy
  <1>9. /\ OneEach'
        /\ \A p \in Alone : p # "INSERT" => <<p, c>> \notin Working'
    BY <1>1, <1>2, <1>5, <1>6, MovedAlone DEF Alone
  <1>10. /\ \A d \in Clients \ {c}, p \in Busy : <<p, d>> \in Working' <=> <<p, d>> \in Working
    BY <1>5, <1>6, MovedOthers
  <1>11. /\ Working' \subseteq Working \cup {<<"INSERT", c>>}
         /\ Working \subseteq Working' \cup {<<"COUNT", c>>}
         /\ <<"INSERT", c>> \in Working'
    BY <1>2, <1>5, <1>6, MovedWorking
  <1>12. Connected'
    <2>1. OneRead(c)' /\ OneRequest(c)'
      BY <1>2, <1>4, <1>7, <1>9, <1>11
         DEF OneRead, OneRequest, Asked, BeingOpened, BeingServed, Queued, Held, Alone
    <2>2. Stage(c)'
      BY <1>2, <1>4, <1>7, <1>9, <1>11
         DEF Stage, Asked, BeingOpened, BeingServed, Queued, Held, Alone
    <2> QED
      BY <1>1, <1>2, <1>3, <1>7, <1>10, <2>1, <2>2, OthersConnected
  <1>13. Types'
    <2>1. next_sessionID' \in SessionIDs
      BY <1>1, <1>2, ConnectionsAssumption DEF Types, SessionIDs
    <2> QED
      BY <1>1, <1>2, <1>5, <2>1 DEF Types, Moved
  <1>14. Counts'
    <2>1. Arming' = Arming /\ Rearming' = Rearming
      BY <1>2, <1>6 DEF Arming, Rearming
    <2>2. Coming' = Coming /\ Served' = Served
      BY <1>2 DEF Coming, Served
    <2> QED
      BY <1>1, <1>2, <1>5, <1>7, <2>1, <2>2, CountsKeep
  <1>15. Single'
    <2>1. \A d \in Clients : <<"FLUSH", d>> \in Working' => <<"FLUSH", d>> \in Working
      BY <1>11
    <2> QED
      BY <1>1, <1>2, <2>1 DEF Single, Held
  <1>16. Idle'
    <2>1. ~ stopped
      BY <1>1, <1>2 DEF Idle, Busy
    <2> QED
      BY <1>2, <2>1 DEF Idle
  <1> QED
    BY <1>7, <1>8, <1>9, <1>12, <1>13, <1>14, <1>15, <1>16 DEF Good

LEMMA InsertSessionStep ==
    ASSUME Good, NEW t \in Threads, InsertSession(t), Sound, Sound'
    PROVE  Good'
  <1>1. /\ Types /\ Spawned /\ Queue /\ OneEach /\ Connected /\ Counts /\ Single /\ Idle
    BY GoodSplit
  <1>2. /\ thread[t].at = "INSERT" /\ sessions[next_sessionID] = NoClient
        /\ sessions' = [sessions EXCEPT ![next_sessionID] = thread[t].c]
        /\ conn' = [conn EXCEPT ![thread[t].c].at = "SESSION", ![thread[t].c].reading = TRUE]
        /\ Goes(t, "REARM", thread[t].c)
        /\ UNCHANGED <<connection_open, opens, accepts, ready, stopped, next_sessionID, client,
                       late, failures, fault>>
    BY DEF InsertSession, Sound
  <1>3. PICK c \in Clients : thread[t].c = c
    BY <1>1, <1>2 DEF Spawned, Busy
  <1>4. OneRead(c) /\ Stage(c) /\ OneRequest(c) /\ Held(c, "INSERT") /\ conn[c] \in Connections
    BY <1>1, <1>2, <1>3 DEF Connected, Held, Working, Types
  <1>5. Moved(t, "REARM", c) /\ \A u \in Threads : thread'[u].depth = thread[u].depth
    BY <1>1, <1>2, <1>3, GoesMoved DEF Places, Busy
  <1>6. /\ thread'[t].at = "REARM" /\ thread[t].c = c
        /\ \A u \in Threads \ {t} : thread'[u] = thread[u]
    BY <1>3, <1>5 DEF Moved
  <1>7. /\ conn' \in [Clients -> Connections] /\ conn'[c].at = "SESSION"
        /\ conn'[c].unread = conn[c].unread /\ conn'[c].reading
        /\ conn'[c].write_msg = conn[c].write_msg /\ conn'[c].writing = conn[c].writing
        /\ \A d \in Clients \ {c} : conn'[d] = conn[d]
    BY <1>1, <1>2, <1>3, <1>4 DEF Types, Connections
  <1>8. Queue' /\ Waiting' = Waiting /\ Failing' = Failing
    BY <1>1, <1>2, QueueKeeps
  <1>9. Types'
    BY <1>1, <1>2, <1>3, <1>5, <1>7 DEF Types, Moved
  <1>10. Spawned'
    BY <1>1, <1>2, <1>3, <1>5, MovedSpawned DEF Spawned, Busy
  <1>11. OneEach' /\ \A p \in Alone : <<p, c>> \notin Working'
    BY <1>1, <1>2, <1>5, <1>6, MovedAlone DEF Alone
  <1>12. \A d \in Clients \ {c}, p \in Busy : <<p, d>> \in Working' <=> <<p, d>> \in Working
    BY <1>5, <1>6, MovedOthers
  <1>13. conn[c].at = "ACCEPTED" /\ conn[c].writing = "nothing" /\ ~ Asked(c)
    BY <1>4 DEF Stage, BeingOpened
  <1>14. Connected'
    <2>1. OneRead(c)'
      BY <1>2, <1>4, <1>7, <1>8, <1>11, <1>13
         DEF OneRead, Asked, BeingOpened, BeingServed, Queued, Held, Alone
    <2>2. OneRequest(c)'
      BY <1>2, <1>4, <1>7, <1>8, <1>11, <1>13
         DEF OneRequest, Asked, BeingOpened, BeingServed, Queued, Held, Alone
    <2>3. Stage(c)'
      BY <1>2, <1>4, <1>7, <1>8, <1>11, <1>13
         DEF OneRead, Stage, Asked, BeingOpened, BeingServed, Queued, Held, Alone
    <2> QED
      BY <1>1, <1>2, <1>3, <1>7, <1>8, <1>12, <2>1, <2>2, <2>3, OthersConnected
  <1>15. Counts'
    <2>1. Served' = Served \cup {c} /\ c \notin Served
      BY <1>3, <1>7, <1>13 DEF Served
    <2>2. Coming' = Coming \ {c} /\ c \in Coming
      BY <1>3, <1>7, <1>13 DEF Coming
    <2>3. Arming' = Arming \cup {t} /\ t \notin Arming
      BY <1>2, <1>6 DEF Arming
    <2>4. Rearming' = Rearming \cup {t} /\ t \notin Rearming /\ Rearming \subseteq Threads
      BY <1>2, <1>6 DEF Rearming
    <2>5. /\ Cardinality(Served') = Cardinality(Served) + 1
          /\ Cardinality(Coming') = Cardinality(Coming) - 1
          /\ Cardinality(Arming') = Cardinality(Arming) + 1
          /\ Cardinality(Rearming') = Cardinality(Rearming) + 1
      BY <2>1, <2>2, <2>3, <2>4, FiniteCounts, FS_AddElement, FS_RemoveElement
    <2>6. Handled' = Handled + 1 /\ Handled \in Int
      <3>1. failures \in Nat /\ Cardinality(Failing) \in Nat /\ Cardinality(Served) \in Nat
        BY <1>1, FiniteCounts, FiniteFailing, ConnectionsAssumption DEF Types
      <3> QED
        BY <1>2, <1>8, <2>5, <3>1 DEF Handled
    <2>7. Tokens'
      BY <1>1, <1>2, <1>8, <2>5, FiniteCounts, FiniteFailing DEF Counts, Tokens, Types
    <2>8. \A u \in Threads : thread[u].depth \in Nat /\ thread[u].depth <= Handled + 1
      BY <1>1 DEF Counts, Deep, Types, Threading
    <2>9. Deep'
      BY <1>5, <2>6, <2>8 DEF Deep
    <2>10. Nested'
      <3>1. \A u \in Rearming' : thread'[u].depth <= Handled'
        BY <1>5, <2>4, <2>6, <2>8
      <3>2. (\A u \in Threads : thread'[u].depth < 2) => late' + Cardinality(Rearming') = Handled'
        <4>1. (\A u \in Threads : thread[u].depth < 2) => late + Cardinality(Rearming) = Handled
          BY <1>1 DEF Counts, Nested
        <4>2. late \in Nat
          BY <1>1 DEF Types
        <4> QED
          BY <1>2, <1>5, <2>5, <2>6, <4>1, <4>2, FiniteCounts
      <3> QED
        BY <3>1, <3>2 DEF Nested
    <2> QED
      BY <2>7, <2>9, <2>10 DEF Counts
  <1>16. Single'
    <2>1. \A d \in Clients : <<"FLUSH", d>> \in Working' => <<"FLUSH", d>> \in Working
      BY <1>11, <1>12 DEF Busy, Alone
    <2>2. \A d \in Clients : /\ conn'[d].write_msg = conn[d].write_msg
                             /\ conn'[d].writing = conn[d].writing
      BY <1>7
    <2> QED
      BY <1>1, <1>2, <2>1, <2>2 DEF Single, Held
  <1>17. Idle'
    <2>1. ~ stopped
      BY <1>1, <1>2 DEF Idle, Busy
    <2> QED
      BY <1>2, <2>1 DEF Idle
  <1> QED
    BY <1>8, <1>9, <1>10, <1>11, <1>14, <1>15, <1>16, <1>17 DEF Good

LEMMA AcceptNextStep ==
    ASSUME Good, NEW t \in Threads, AcceptNext(t)
    PROVE  Good'
  <1>1. /\ Types /\ Spawned /\ Queue /\ OneEach /\ Connected /\ Counts /\ Single /\ Idle
    BY GoodSplit
  <1>2. /\ thread[t].at = "REARM" /\ MayStop
        /\ accepts' = IF connection_open THEN accepts + 1 ELSE accepts
        /\ late' = IF connection_open THEN late ELSE late + 1
        /\ UNCHANGED <<connection_open, opens, ready, next_sessionID, sessions, client, conn,
                       failures, fault>>
    BY DEF AcceptNext
  <1>3. thread[t].c \in Clients \cup {NoClient}
    BY <1>1 DEF Types, Threading
  <1>4. ASSUME thread[t].c \in Clients
        PROVE  conn[thread[t].c].at = "SESSION"
    BY <1>1, <1>2, <1>4 DEF Connected, Stage, Held, Working
  <1>5. /\ Moved(t, "RUN", NoClient)
        /\ thread'[t].at = "RUN"
        /\ thread'[t].depth = IF connection_open THEN thread[t].depth + 1 ELSE thread[t].depth
        /\ \A u \in Threads \ {t} : thread'[u] = thread[u]
        /\ thread[t].depth \in Nat \ {0}
    <2>1. thread \in [Threads -> Threading] /\ thread[t] \in Threading
      BY <1>1 DEF Types
    <2>2. thread[t].depth \in Nat \ {0}
      BY <1>1, <1>2, <2>1 DEF Spawned, Busy, Threading
    <2>3. CASE connection_open
      <3>1. /\ thread' \in [Threads -> Threading]
            /\ thread'[t].at = "RUN" /\ thread'[t].c = NoClient
            /\ thread'[t].depth = thread[t].depth + 1
            /\ \A u \in Threads \ {t} : thread'[u] = thread[u]
        BY <2>1, <2>2, <2>3 DEF AcceptNext, Threading, Places
      <3> QED
        BY <2>2, <2>3, <3>1 DEF Moved
    <2>4. CASE ~ connection_open
      <3>1. Goes(t, "RUN", NoClient)
        BY <2>4 DEF AcceptNext, Ends
      <3>2. Moved(t, "RUN", NoClient) /\ \A u \in Threads : thread'[u].depth = thread[u].depth
        BY <1>1, <3>1, GoesMoved DEF Places
      <3> QED
        BY <2>2, <2>4, <3>2 DEF Moved
    <2> QED
      BY <2>3, <2>4
  <1>6. Queue' /\ Waiting' = Waiting /\ Failing' = Failing
    BY <1>1, <1>2, QueueKeeps
  <1>7. Types'
    BY <1>1, <1>2, <1>5 DEF Types, Moved, MayStop, OutOfWork
  <1>8. Spawned'
    BY <1>1, <1>2, <1>5, MovedSpawned DEF Busy
  <1>9. OneEach'
    BY <1>1, <1>5, MovedAlone DEF Alone
  <1>10. /\ Working' \subseteq Working \cup {<<"RUN", NoClient>>}
         /\ Working \subseteq Working' \cup {<<"REARM", thread[t].c>>}
    BY <1>2, <1>5, MovedWorking
  <1>11. Connected'
    <2>1. CASE thread[t].c \notin Clients
      <3>1. \A p \in Busy, d \in Clients : <<p, d>> \in Working' <=> <<p, d>> \in Working
        BY <1>10, <2>1 DEF Busy
      <3> QED
        BY <1>1, <1>2, <1>6, <3>1, ConnectedKeep
    <2>2. ASSUME NEW c \in Clients, thread[t].c = c
          PROVE  Connected'
      <3>1. OneRead(c) /\ Stage(c) /\ OneRequest(c) /\ conn[c].at = "SESSION"
        BY <1>1, <1>4, <2>2 DEF Connected
      <3>2. OneRead(c)' /\ Stage(c)'
        BY <1>2, <1>6, <1>10, <2>2, <3>1
           DEF OneRead, Stage, Asked, BeingOpened, BeingServed, Queued, Held
      <3>3. OneRequest(c)'
        BY <1>2, <1>6, <1>10, <2>2, <3>1
           DEF OneRequest, Asked, BeingOpened, BeingServed, Queued, Held
      <3>4. \A d \in Clients \ {c}, p \in Busy : <<p, d>> \in Working' <=> <<p, d>> \in Working
        BY <1>2, <1>5, <2>2, MovedOthers DEF Busy
      <3> QED
        BY <1>1, <1>2, <1>6, <3>2, <3>3, <3>4, OthersConnected
    <2> QED
      BY <2>1, <2>2
  <1>12. Counts'
    <2>1. Coming' = Coming /\ Served' = Served
      BY <1>2 DEF Coming, Served
    <2>2. Handled' = Handled /\ Handled \in Nat
      BY <1>1, <1>2, <1>6, <2>1, FiniteCounts, FiniteFailing, ConnectionsAssumption
         DEF Handled, Counts, Tokens, Types
    <2>3. Arming' = Arming \ {t} /\ t \in Arming
      BY <1>2, <1>5 DEF Arming
    <2>4. Rearming' = Rearming \ {t} /\ t \in Rearming /\ Rearming \subseteq Threads
      BY <1>2, <1>5 DEF Rearming
    <2>5. /\ Cardinality(Arming') = Cardinality(Arming) - 1
          /\ Cardinality(Rearming') = Cardinality(Rearming) - 1
      BY <2>3, <2>4, FiniteCounts, FS_RemoveElement
    <2>6. Tokens'
      BY <1>1, <1>2, <1>6, <2>1, <2>5, FiniteCounts, FiniteFailing DEF Counts, Tokens, Types
    <2>7. thread[t].depth <= Handled
      BY <1>1, <2>4 DEF Counts, Nested
    <2>8. thread'[t].depth <= Handled + 1
      BY <1>5, <2>2, <2>7
    <2>9. Deep'
      BY <1>1, <1>5, <2>2, <2>8 DEF Counts, Deep
    <2>10. \A u \in Rearming' : thread'[u].depth <= Handled'
      BY <1>1, <1>5, <2>2, <2>4 DEF Counts, Nested
    <2>11. (\A u \in Threads : thread'[u].depth < 2) =>
               late' + Cardinality(Rearming') = Handled'
      <3>1. SUFFICES ASSUME \A u \in Threads : thread'[u].depth < 2
                     PROVE  late' + Cardinality(Rearming') = Handled'
        OBVIOUS
      <3>2. ~ connection_open /\ thread'[t].depth = thread[t].depth
        BY <1>5, <3>1
      <3>3. \A u \in Threads : thread[u].depth < 2
        BY <1>5, <3>1, <3>2
      <3>4. late + Cardinality(Rearming) = Handled /\ late \in Nat
        BY <1>1, <3>3 DEF Counts, Nested, Types
      <3> QED
        BY <1>2, <2>2, <2>5, <3>2, <3>4, FiniteCounts
    <2>12. Nested'
      BY <2>10, <2>11 DEF Nested
    <2> QED
      BY <2>6, <2>9, <2>12 DEF Counts
  <1>13. Single'
    <2>1. \A d \in Clients : <<"FLUSH", d>> \in Working' => <<"FLUSH", d>> \in Working
      BY <1>10
    <2> QED
      BY <1>1, <1>2, <2>1 DEF Single, Held
  <1>14. Idle'
    <2>1. Handled' > 0
      <3>1. Handled' = Handled /\ Handled \in Int
        BY <1>1, <1>2, <1>6, FiniteCounts, FiniteFailing, ConnectionsAssumption
           DEF Handled, Served, Types
      <3>2. thread[t].depth <= Handled
        BY <1>1, <1>2 DEF Counts, Nested, Rearming
      <3> QED
        BY <1>5, <3>1, <3>2
    <2>2. Nested'
      BY <1>12 DEF Counts
    <2> QED
      BY <1>2, <1>7, <2>1, <2>2, StopsIdle
  <1> QED
    BY <1>6, <1>7, <1>8, <1>9, <1>11, <1>12, <1>13, <1>14 DEF Good

(* What Flush and ClearMessage have in common, of a handler that ends.       *)
LEMMA EndsStep ==
    ASSUME Good, NEW t \in Threads, NEW c \in Clients, thread[t].c = c, Ends(t),
           thread[t].at \in {"FLUSH", "CLEAR"},
           UNCHANGED <<connection_open, opens, accepts, ready, next_sessionID, sessions, client,
                       late, failures, fault>>,
           MayStop,
           conn' \in [Clients -> Connections],
           conn'[c].at = conn[c].at,
           \A d \in Clients \ {c} : conn'[d] = conn[d]
    PROVE  /\ Types' /\ Spawned' /\ Queue' /\ OneEach' /\ Counts' /\ Idle'
           /\ Waiting' = Waiting /\ conn[c].at = "SESSION"
           /\ thread'[t].at = "RUN" /\ \A u \in Threads \ {t} : thread'[u] = thread[u]
           /\ Working' \subseteq Working \cup {<<"RUN", NoClient>>}
           /\ Working \subseteq Working' \cup {<<thread[t].at, c>>}
           /\ thread[t].at = "FLUSH" => \A p \in Alone : <<p, c>> \notin Working'
           /\ (OneRead(c)' /\ Stage(c)' /\ OneRequest(c)' => Connected')
  <1>1. /\ Types /\ Spawned /\ Queue /\ OneEach /\ Connected /\ Counts /\ Single /\ Idle
    BY GoodSplit
  <1>2. conn[c].at = "SESSION"
    BY <1>1 DEF Connected, Stage, BeingServed, Held, Working
  <1>3. Moved(t, "RUN", NoClient) /\ \A u \in Threads : thread'[u].depth = thread[u].depth
    BY <1>1, GoesMoved DEF Ends, Places
  <1>4. /\ thread'[t].at = "RUN"
        /\ \A u \in Threads \ {t} : thread'[u] = thread[u]
    BY <1>3 DEF Moved
  <1>5. Queue' /\ Waiting' = Waiting /\ Failing' = Failing
    BY <1>1, QueueKeeps
  <1>6. Types'
    BY <1>1, <1>3 DEF Types, Moved, MayStop, OutOfWork
  <1>7. Spawned'
    <2>1. thread'[t].depth > 0
      BY <1>1, <1>3 DEF Spawned, Busy
    <2> QED
      BY <1>1, <1>3, <2>1, MovedSpawned DEF Busy
  <1>8. OneEach' /\ (thread[t].at = "FLUSH" => \A p \in Alone : <<p, c>> \notin Working')
    <2>1. "RUN" \notin Alone /\ "FLUSH" \in Alone
      BY DEF Alone
    <2> QED
      BY <1>1, <1>3, <2>1, MovedAlone
  <1>9. /\ Working' \subseteq Working \cup {<<"RUN", NoClient>>}
        /\ Working \subseteq Working' \cup {<<thread[t].at, c>>}
    BY <1>3, MovedWorking
  <1>10. Counts'
    <2>1. \A d \in Clients : conn'[d].at = conn[d].at
      OBVIOUS
    <2>2. Coming' = Coming /\ Served' = Served
      BY <2>1, PlacesKeep
    <2>3. Arming' = Arming /\ Rearming' = Rearming
      BY <1>4 DEF Arming, Rearming
    <2> QED
      BY <1>1, <1>3, <1>5, <2>2, <2>3, CountsKeep
  <1>11. Idle'
    <2>1. Handled > 0
      BY <1>1, <1>2, ServedHandled DEF Served
    <2>2. Handled' = Handled
      BY <1>5, PlacesKeep DEF Handled
    <2> QED
      BY <1>6, <1>10, <2>1, <2>2, StopsIdle DEF Counts
  <1>12. OneRead(c)' /\ Stage(c)' /\ OneRequest(c)' => Connected'
    <2>1. "RUN" \notin Busy
      BY DEF Busy
    <2>2. \A d \in Clients \ {c}, p \in Busy : <<p, d>> \in Working' <=> <<p, d>> \in Working
      BY <1>3, <2>1, MovedOthers
    <2> QED
      BY <1>1, <1>5, <2>2, OthersConnected
  <1> QED
    BY <1>2, <1>4, <1>5, <1>6, <1>7, <1>8, <1>9, <1>10, <1>11, <1>12

LEMMA FlushStep ==
    ASSUME Good, NEW t \in Threads, Flush(t)
    PROVE  Good'
  <1>1. /\ Types /\ Spawned /\ Connected /\ Single
    BY GoodSplit
  <1>2. /\ thread[t].at = "FLUSH" /\ Ends(t) /\ MayStop
        /\ conn' = [conn EXCEPT ![thread[t].c].writing = conn[thread[t].c].write_msg,
                                ![thread[t].c].reading = TRUE]
        /\ UNCHANGED <<connection_open, opens, accepts, ready, next_sessionID, sessions, client,
                       late, failures, fault>>
    BY DEF Flush
  <1>3. PICK c \in Clients : thread[t].c = c
    BY <1>1, <1>2 DEF Spawned, Busy
  <1>4. /\ OneRead(c) /\ Stage(c) /\ OneRequest(c) /\ conn[c] \in Connections
        /\ <<"FLUSH", c>> \in Working
    BY <1>1, <1>2, <1>3 DEF Connected, Types, Working
  <1>5. /\ conn' \in [Clients -> Connections] /\ conn'[c].at = conn[c].at
        /\ conn'[c].unread = conn[c].unread /\ conn'[c].reading
        /\ conn'[c].write_msg = conn[c].write_msg /\ conn'[c].writing = conn[c].write_msg
        /\ \A d \in Clients \ {c} : conn'[d] = conn[d]
    BY <1>1, <1>2, <1>3, <1>4 DEF Types, Connections
  <1>6. /\ Types' /\ Spawned' /\ Queue' /\ OneEach' /\ Counts' /\ Idle'
        /\ Waiting' = Waiting /\ conn[c].at = "SESSION"
        /\ thread'[t].at = "RUN" /\ \A u \in Threads \ {t} : thread'[u] = thread[u]
        /\ Working' \subseteq Working \cup {<<"RUN", NoClient>>}
        /\ Working \subseteq Working' \cup {<<"FLUSH", c>>}
        /\ \A p \in Alone : <<p, c>> \notin Working'
        /\ (OneRead(c)' /\ Stage(c)' /\ OneRequest(c)' => Connected')
    BY <1>2, <1>3, <1>5, EndsStep
  <1>7. OneRead(c)' /\ Stage(c)'
    BY <1>2, <1>4, <1>5, <1>6
       DEF OneRead, Stage, Asked, BeingOpened, BeingServed, Queued, Held, Alone
  <1>8. OneRequest(c)'
    <2>1. /\ conn[c].unread = "nothing" /\ ~ Asked(c) /\ ~ Queued(c, "WROTE")
          /\ client[c].at = "LEFT" \/ client[c].waiting
          /\ Queued(c, "FAILED") => client[c].at = "LEFT"
      BY <1>4 DEF OneRead, OneRequest, BeingServed, Held
    <2>2. ~ Asked(c)' /\ ~ BeingServed(c)' /\ ~ Queued(c, "WROTE")'
      BY <1>2, <1>6, <2>1 DEF Asked, BeingServed, Queued, Held, Alone
    <2> QED
      BY <1>2, <1>5, <1>6, <2>1, <2>2 DEF OneRequest, Queued, Held, Alone
  <1>9. Single'
    <2>1. ASSUME opens <= 1, NEW d \in Clients
          PROVE  /\ <<"FLUSH", d>> \in Working' => conn'[d].write_msg = "full"
                 /\ conn'[d].writing # "empty" /\ ~ client[d].cut
      <3>1. /\ <<"FLUSH", d>> \in Working => conn[d].write_msg = "full"
            /\ conn[d].writing # "empty" /\ ~ client[d].cut
        BY <1>1, <2>1 DEF Single, Held
      <3>2. CASE d = c
        BY <1>4, <1>5, <1>6, <3>1, <3>2 DEF Alone
      <3>3. CASE d # c
        BY <1>5, <1>6, <3>1, <3>3
      <3> QED
        BY <3>2, <3>3
    <2> QED
      BY <1>2, <2>1 DEF Single, Held
  <1> QED
    BY <1>6, <1>7, <1>8, <1>9 DEF Good

LEMMA ClearMessageStep ==
    ASSUME Good, NEW t \in Threads, ClearMessage(t)
    PROVE  Good'
  <1>1. /\ Types /\ Spawned /\ Connected /\ Single
    BY GoodSplit
  <1>2. /\ thread[t].at = "CLEAR" /\ Ends(t) /\ MayStop
        /\ conn' = [conn EXCEPT ![thread[t].c].write_msg = "empty"]
        /\ UNCHANGED <<connection_open, opens, accepts, ready, next_sessionID, sessions, client,
                       late, failures, fault>>
    BY DEF ClearMessage
  <1>3. PICK c \in Clients : thread[t].c = c
    BY <1>1, <1>2 DEF Spawned, Busy
  <1>4. OneRead(c) /\ Stage(c) /\ OneRequest(c) /\ conn[c] \in Connections
    BY <1>1, <1>2, <1>3 DEF Connected, Types
  <1>5. /\ conn' \in [Clients -> Connections] /\ conn'[c].at = conn[c].at
        /\ conn'[c].unread = conn[c].unread /\ conn'[c].reading = conn[c].reading
        /\ conn'[c].write_msg = "empty" /\ conn'[c].writing = conn[c].writing
        /\ \A d \in Clients \ {c} : conn'[d] = conn[d]
    BY <1>1, <1>2, <1>3, <1>4 DEF Types, Connections
  <1>6. /\ Types' /\ Spawned' /\ Queue' /\ OneEach' /\ Counts' /\ Idle'
        /\ Waiting' = Waiting /\ conn[c].at = "SESSION"
        /\ thread'[t].at = "RUN" /\ \A u \in Threads \ {t} : thread'[u] = thread[u]
        /\ Working' \subseteq Working \cup {<<"RUN", NoClient>>}
        /\ Working \subseteq Working' \cup {<<"CLEAR", c>>}
        /\ (OneRead(c)' /\ Stage(c)' /\ OneRequest(c)' => Connected')
    BY <1>2, <1>3, <1>5, EndsStep
  <1>7. OneRead(c)' /\ Stage(c)'
    BY <1>2, <1>4, <1>5, <1>6
       DEF OneRead, Stage, Asked, BeingOpened, BeingServed, Queued, Held
  <1>8. OneRequest(c)'
    BY <1>2, <1>4, <1>5, <1>6
       DEF OneRequest, Asked, BeingOpened, BeingServed, Queued, Held
  <1>9. Single'
    <2>1. ASSUME opens <= 1, NEW d \in Clients
          PROVE  /\ <<"FLUSH", d>> \notin Working'
                 /\ conn'[d].writing # "empty" /\ ~ client[d].cut
      <3>1. conn[d].writing # "empty" /\ ~ client[d].cut
        BY <1>1, <2>1 DEF Single
      <3>2. \A u \in Threads : thread[u].at = "FLUSH" => u = t
        BY <1>1, <1>2, <2>1, OneThread
      <3>3. <<"FLUSH", d>> \notin Working'
        BY <1>6, <3>2 DEF Working
      <3> QED
        BY <1>5, <3>1, <3>3
    <2> QED
      BY <1>2, <2>1 DEF Single, Held
  <1> QED
    BY <1>6, <1>7, <1>8, <1>9 DEF Good

LEMMA RunHandlerStep ==
    ASSUME Good, NEW t \in Threads, RunHandler(t), Head(ready).kind # "NOT_ACCEPTED"
    PROVE  Good'
  <1>1. /\ Types /\ Spawned /\ Queue /\ OneEach /\ Connected /\ Counts /\ Single /\ Idle
    BY GoodSplit
  <1>2. /\ thread[t].at = "RUN" /\ ~ stopped /\ ready # <<>> /\ ready' = Tail(ready) /\ MayStop
        /\ UNCHANGED <<connection_open, opens, accepts, next_sessionID, sessions, client, late, failures,
                       fault>>
    BY DEF RunHandler
  <1>3. Head(ready) \in [kind: Kinds, c: Clients]
    BY <1>1, <1>2, QueueShrinks DEF Completions
  <1>4. PICK k \in Kinds, c \in Clients : Head(ready).kind = k /\ Head(ready).c = c
    BY <1>3
  <1>5. OneRead(c) /\ Stage(c) /\ OneRequest(c) /\ conn[c] \in Connections
    BY <1>1 DEF Connected, Types
  <1>6. PICK at \in Places, d \in Clients \cup {NoClient} :
            /\ Goes(t, at, d)
            /\ \/ k = "ACCEPTED" /\ at = "COUNT" /\ d = c
               \/ k = "REQUEST" /\ at = "FLUSH" /\ d = c
               \/ k = "NOT_ROWS" /\ at = "ROWS" /\ d = c
               \/ k = "WROTE" /\ at = "CLEAR" /\ d = c
               \/ k = "FAILED" /\ at = "RUN" /\ d = NoClient
    <2>1. CASE k = "ACCEPTED"
      <3>1. Goes(t, "COUNT", c) /\ "COUNT" \in Places
        BY <1>4, <2>1 DEF RunHandler, Places, Busy
      <3> QED
        BY <2>1, <3>1
    <2>2. CASE k = "REQUEST"
      <3>1. Goes(t, "FLUSH", c) /\ "FLUSH" \in Places
        BY <1>4, <2>2 DEF RunHandler, Places, Busy
      <3> QED
        BY <2>2, <3>1
    <2>3. CASE k = "NOT_ROWS"
      <3>1. Goes(t, "ROWS", c) /\ "ROWS" \in Places
        BY <1>4, <2>3 DEF RunHandler, Places, Busy
      <3> QED
        BY <2>3, <3>1
    <2>4. CASE k = "WROTE"
      <3>1. Goes(t, "CLEAR", c) /\ "CLEAR" \in Places
        BY <1>4, <2>4 DEF RunHandler, Places, Busy
      <3> QED
        BY <2>4, <3>1
    <2>5. CASE k = "FAILED"
      <3>1. Goes(t, "RUN", NoClient) /\ "RUN" \in Places
        BY <1>4, <2>5 DEF RunHandler, Ends, Places, Busy
      <3> QED
        BY <2>5, <3>1
    <2> QED
      BY <2>1, <2>2, <2>3, <2>4, <2>5 DEF Kinds
  <1>7. /\ conn' \in [Clients -> Connections] /\ conn'[c].at = conn[c].at
        /\ conn'[c].unread = conn[c].unread /\ conn'[c].reading = conn[c].reading
        /\ conn'[c].write_msg = (IF k = "REQUEST" THEN "full" ELSE conn[c].write_msg)
        /\ conn'[c].writing = conn[c].writing
        /\ \A e \in Clients \ {c} : conn'[e] = conn[e]
    <2>1. conn \in [Clients -> Connections]
      BY <1>1 DEF Types
    <2>2. conn' = IF k = "REQUEST" THEN [conn EXCEPT ![c].write_msg = "full"] ELSE conn
      BY <1>4 DEF RunHandler
    <2>3. CASE k = "REQUEST"
      BY <1>5, <2>1, <2>2, <2>3 DEF Connections
    <2>4. CASE k # "REQUEST"
      BY <2>1, <2>2, <2>4
    <2> QED
      BY <2>3, <2>4
  <1>8. Moved(t, at, d) /\ \A u \in Threads : thread'[u].depth = thread[u].depth
    BY <1>1, <1>6, GoesMoved
  <1>9. /\ thread'[t].at = at
        /\ \A u \in Threads \ {t} : thread'[u] = thread[u]
    BY <1>8 DEF Moved
  <1>10. /\ ready' \in Seq(Completions)
         /\ Waiting = Waiting' \cup {<<k, c>>}
         /\ Cardinality(Failing') = Cardinality(Failing)
    BY <1>1, <1>2, <1>4, QueueShrinks, FailingShrinks
  <1>11. /\ Queue'
         /\ k # "WROTE" => \A l \in Kinds \ {"WROTE"} : <<l, c>> \notin Waiting'
         /\ k = "WROTE" => <<"WROTE", c>> \notin Waiting'
         /\ k \in {"REQUEST", "NOT_ROWS"} => <<"WROTE", c>> \notin Waiting
    BY <1>1, <1>2, <1>4, QueueShrinksInOrder
  <1>12. Types'
    BY <1>1, <1>2, <1>7, <1>8, <1>10 DEF Types, Moved, MayStop, OutOfWork
  <1>13. Spawned'
    <2>1. /\ at \notin {"NONE", "ACCEPT"} /\ thread'[t].depth > 0
          /\ at \in Busy \ {"REARM"} => d \in Clients
      BY <1>1, <1>2, <1>6, <1>8 DEF Spawned, Busy
    <2> QED
      BY <1>1, <1>2, <1>8, <2>1, MovedSpawned
  <1>14. \A p \in Alone : k \in {"ACCEPTED", "REQUEST", "NOT_ROWS"} => <<p, c>> \notin Working
    BY <1>5, <1>10 DEF OneRead, Asked, Queued, BeingOpened, BeingServed, Held, Alone
  <1>15. OneEach'
    <2>1. at \in Alone => \A p \in Alone : <<p, d>> \notin Working
      BY <1>6, <1>14 DEF Alone
    <2> QED
      BY <1>1, <1>8, <2>1, MovedAlone
  <1>16. /\ Working' \subseteq Working \cup {<<at, d>>}
         /\ Working \subseteq Working' \cup {<<"RUN", thread[t].c>>}
         /\ <<at, d>> \in Working'
    BY <1>2, <1>8, MovedWorking
  <1>17. Connected'
    <2>1. \A e \in Clients \ {c}, l \in Kinds : <<l, e>> \in Waiting' <=> <<l, e>> \in Waiting
      BY <1>10
    <2>2. \A e \in Clients \ {c}, p \in Busy : <<p, e>> \in Working' <=> <<p, e>> \in Working
      <3>1. at \in Busy => d = c
        BY <1>6 DEF Busy
      <3>2. thread[t].at \notin Busy
        BY <1>2 DEF Busy
      <3> QED
        BY <1>8, <3>1, <3>2, MovedOthers
    <2>3. OneRead(c)' /\ Stage(c)' /\ OneRequest(c)'
      <3> USE <1>2, <1>5, <1>7, <1>10, <1>16
          DEF OneRead, Stage, OneRequest, Asked, BeingOpened, BeingServed, Queued, Held
      <3>1. CASE k = "ACCEPTED"
        <4>1. \A l \in {"ACCEPTED", "REQUEST", "NOT_ROWS", "FAILED"} : <<l, c>> \notin Waiting'
          BY <1>11, <3>1 DEF Kinds
        <4>2. at = "COUNT" /\ d = c
          BY <1>6, <3>1
        <4>3. OneRead(c)'
          BY <3>1, <4>1, <4>2
        <4>4. Stage(c)'
          BY <3>1, <4>1, <4>2
        <4>5. OneRequest(c)'
          BY <3>1, <4>1, <4>2
        <4> QED
          BY <4>3, <4>4, <4>5
      <3>2. CASE k \in {"REQUEST", "NOT_ROWS"}
        <4>1. \A l \in {"ACCEPTED", "REQUEST", "NOT_ROWS", "FAILED"} : <<l, c>> \notin Waiting'
          BY <1>11, <3>2 DEF Kinds
        <4>2. at \in {"FLUSH", "ROWS"} /\ d = c
          BY <1>6, <3>2
        <4>3. OneRead(c)'
          BY <3>2, <4>1, <4>2
        <4>4. Stage(c)'
          BY <3>2, <4>1, <4>2
        <4>5. OneRequest(c)'
          BY <1>11, <3>2, <4>1, <4>2
        <4> QED
          BY <4>3, <4>4, <4>5
      <3>3. CASE k = "WROTE"
        <4>1. at = "CLEAR" /\ d = c
          BY <1>6, <3>3
        <4>2. OneRead(c)'
          BY <3>3, <4>1
        <4>3. Stage(c)'
          BY <3>3, <4>1
        <4>4. OneRequest(c)'
          BY <3>3, <4>1
        <4> QED
          BY <4>2, <4>3, <4>4
      <3>4. CASE k = "FAILED"
        <4>1. at = "RUN"
          BY <1>6, <3>4
        <4>2. OneRead(c)'
          BY <3>4, <4>1
        <4>3. Stage(c)'
          BY <3>4, <4>1
        <4>4. OneRequest(c)'
          BY <3>4, <4>1
        <4> QED
          BY <4>2, <4>3, <4>4
      <3> QED
        BY ONLY <1>6, <3>1, <3>2, <3>3, <3>4
    <2> QED
      BY <1>1, <1>2, <1>7, <2>1, <2>2, <2>3, OthersConnected
  <1>18. Counts'
    <2>1. Coming' = Coming /\ Served' = Served
      BY <1>7, PlacesKeep
    <2>2. Arming' = Arming /\ Rearming' = Rearming
      BY <1>2, <1>6, <1>9 DEF Arming, Rearming
    <2> QED
      BY <1>1, <1>2, <1>8, <1>10, <2>1, <2>2, CountsKeep
  <1>19. Single'
    <2>1. ASSUME opens <= 1, NEW e \in Clients
          PROVE  /\ <<"FLUSH", e>> \in Working' => conn'[e].write_msg = "full"
                 /\ conn'[e].writing # "empty" /\ ~ client[e].cut
      <3>1. /\ <<"FLUSH", e>> \in Working => conn[e].write_msg = "full"
            /\ conn[e].writing # "empty" /\ ~ client[e].cut
        BY <1>1, <2>1 DEF Single, Held
      <3>2. <<"FLUSH", e>> \in Working' => <<"FLUSH", e>> \in Working \/ (e = c /\ k = "REQUEST")
        BY <1>6, <1>16
      <3>3. conn'[e].writing = conn[e].writing
        BY <1>7
      <3>4. conn'[e].write_msg = conn[e].write_msg \/ conn'[e].write_msg = "full"
        BY <1>7
      <3> QED
        BY <1>7, <3>1, <3>2, <3>3, <3>4
    <2> QED
      BY <1>2, <2>1 DEF Single, Held
  <1>20. Idle'
    <2>1. CASE k = "FAILED"
      <3>1. conn[c].at = "SESSION" /\ Nested'
        BY <1>5, <1>10, <1>18, <2>1 DEF Stage, Queued, Counts
      <3>2. Handled > 0
        BY <1>1, <3>1, ServedHandled DEF Served
      <3>3. \A e \in Clients : conn'[e].at = conn[e].at
        BY <1>7
      <3>4. Handled' = Handled
        BY <1>2, <1>10, <3>3, PlacesKeep DEF Handled
      <3> QED
        BY <1>2, <1>12, <3>1, <3>2, <3>4, StopsIdle
    <2>2. CASE k # "FAILED"
      <3>1. thread'[t].at \in {"COUNT", "FLUSH", "ROWS", "CLEAR"}
        BY <1>6, <1>9, <2>2
      <3>2. ~ stopped'
        BY <1>2, <3>1 DEF MayStop, OutOfWork, InHandler
      <3> QED
        BY <3>2 DEF Idle
    <2> QED
      BY <2>1, <2>2
  <1> QED
    BY <1>11, <1>12, <1>13, <1>15, <1>17, <1>18, <1>19, <1>20 DEF Good

(* The handler of a failed accept makes no session; it only arms the next    *)
(* accept.                                                                   *)
LEMMA RunFailedStep ==
    ASSUME Good, NEW t \in Threads, RunHandler(t), Head(ready).kind = "NOT_ACCEPTED"
    PROVE  Good'
  <1>1. /\ Types /\ Spawned /\ Queue /\ OneEach /\ Connected /\ Counts /\ Single /\ Idle
    BY GoodSplit
  <1>2. /\ thread[t].at = "RUN" /\ ~ stopped /\ ready # <<>> /\ ready' = Tail(ready) /\ MayStop
        /\ Goes(t, "REARM", NoClient)
        /\ UNCHANGED <<connection_open, opens, accepts, next_sessionID, sessions, client, conn, late,
                       failures, fault>>
    BY DEF RunHandler
  <1>3. Moved(t, "REARM", NoClient) /\ \A u \in Threads : thread'[u].depth = thread[u].depth
    BY <1>1, <1>2, GoesMoved DEF Places, Busy
  <1>4. /\ thread'[t].at = "REARM"
        /\ \A u \in Threads \ {t} : thread'[u] = thread[u]
    BY <1>3 DEF Moved
  <1>5. /\ ready' \in Seq(Completions)
        /\ Waiting = Waiting' \cup {<<"NOT_ACCEPTED", Head(ready).c>>}
        /\ Cardinality(Failing') = Cardinality(Failing) - 1
    BY <1>1, <1>2, QueueShrinks, FailingShrinks
  <1>6. Queue'
    BY <1>1, <1>2, QueueShrinksInOrder
  <1>7. Types'
    BY <1>1, <1>2, <1>3, <1>5 DEF Types, Moved, MayStop, OutOfWork
  <1>8. Spawned'
    <2>1. thread'[t].depth > 0
      BY <1>1, <1>2, <1>3 DEF Spawned
    <2> QED
      BY <1>1, <1>2, <1>3, <2>1, MovedSpawned
  <1>9. OneEach'
    BY <1>1, <1>3, MovedAlone DEF Alone
  <1>10. /\ Working' \subseteq Working \cup {<<"REARM", NoClient>>}
         /\ Working \subseteq Working' \cup {<<"RUN", thread[t].c>>}
    BY <1>2, <1>3, MovedWorking
  <1>11. Connected'
    <2>1. \A p \in Busy, d \in Clients : <<p, d>> \in Working' <=> <<p, d>> \in Working
      BY <1>10, ConnectionsAssumption DEF Busy
    <2>2. \A k \in Kinds, d \in Clients : <<k, d>> \in Waiting' <=> <<k, d>> \in Waiting
      BY <1>5 DEF Kinds
    <2> QED
      BY <1>1, <1>2, <2>1, <2>2, ConnectedKeep
  <1>12. Counts'
    <2>1. Coming' = Coming /\ Served' = Served
      BY <1>2 DEF Coming, Served
    <2>2. Arming' = Arming \cup {t} /\ t \notin Arming
      BY <1>2, <1>4 DEF Arming
    <2>3. Rearming' = Rearming \cup {t} /\ t \notin Rearming /\ Rearming \subseteq Threads
      BY <1>2, <1>4 DEF Rearming
    <2>4. /\ Cardinality(Arming') = Cardinality(Arming) + 1
          /\ Cardinality(Rearming') = Cardinality(Rearming) + 1
      BY <2>2, <2>3, FiniteCounts, FS_AddElement
    <2>5. Handled' = Handled + 1 /\ Handled \in Int
      <3>1. failures \in Nat /\ Cardinality(Failing) \in Nat /\ Cardinality(Served) \in Nat
        BY <1>1, FiniteCounts, FiniteFailing, ConnectionsAssumption DEF Types
      <3> QED
        BY <1>2, <1>5, <2>1, <3>1 DEF Handled
    <2>6. Tokens'
      <3>1. failures \in Nat /\ Cardinality(Failing) \in Nat
        BY <1>1, FiniteFailing, ConnectionsAssumption DEF Types
      <3>2. /\ late + accepts + Cardinality(Arming) + Cardinality(Coming) + Cardinality(Failing)
                  <= opens
            /\ Cardinality(Failing) <= failures
            /\ late \in Nat /\ accepts \in Nat /\ opens \in Int
        BY <1>1 DEF Counts, Tokens, Types
      <3>3. /\ late' + accepts' + Cardinality(Arming') + Cardinality(Coming') + Cardinality(Failing')
                  <= opens'
            /\ Cardinality(Failing') <= failures'
        <4>1. /\ late' = late /\ accepts' = accepts /\ opens' = opens /\ failures' = failures
              /\ Cardinality(Coming') = Cardinality(Coming)
          BY <1>2, <2>1
        <4>2. Cardinality(Arming) \in Nat /\ Cardinality(Coming) \in Nat
          BY FiniteCounts
        <4> QED
          BY <1>5, <2>4, <3>1, <3>2, <4>1, <4>2
      <3> QED
        BY <3>3 DEF Tokens
    <2>7. \A u \in Threads : thread[u].depth \in Nat /\ thread[u].depth <= Handled + 1
      BY <1>1 DEF Counts, Deep, Types, Threading
    <2>8. Deep'
      BY <1>3, <2>5, <2>7 DEF Deep
    <2>9. Nested'
      <3>1. \A u \in Rearming' : thread'[u].depth <= Handled'
        BY <1>3, <2>3, <2>5, <2>7
      <3>2. (\A u \in Threads : thread'[u].depth < 2) => late' + Cardinality(Rearming') = Handled'
        <4>1. (\A u \in Threads : thread[u].depth < 2) => late + Cardinality(Rearming) = Handled
          BY <1>1 DEF Counts, Nested
        <4>2. late \in Nat
          BY <1>1 DEF Types
        <4>3. SUFFICES ASSUME \A u \in Threads : thread'[u].depth < 2
                       PROVE  late' + Cardinality(Rearming') = Handled'
          OBVIOUS
        <4>4. \A u \in Threads : thread[u].depth < 2
          BY <1>3, <4>3
        <4>5. late + Cardinality(Rearming) = Handled
          BY <4>1, <4>4
        <4>6. late' = late /\ Cardinality(Rearming') = Cardinality(Rearming) + 1
          BY <1>2, <2>4
        <4>7. Cardinality(Rearming) \in Nat
          BY FiniteCounts
        <4> QED
          BY <2>5, <4>2, <4>5, <4>6, <4>7
      <3> QED
        BY <3>1, <3>2 DEF Nested
    <2> QED
      BY <2>6, <2>8, <2>9 DEF Counts
  <1>13. Single'
    <2>1. \A d \in Clients : <<"FLUSH", d>> \in Working' => <<"FLUSH", d>> \in Working
      BY <1>10
    <2> QED
      BY <1>1, <1>2, <2>1 DEF Single, Held
  <1>14. Idle'
    <2>1. ~ stopped'
      BY <1>2, <1>4 DEF MayStop, OutOfWork, InHandler
    <2> QED
      BY <2>1 DEF Idle
  <1> QED
    BY <1>6, <1>7, <1>8, <1>9, <1>11, <1>12, <1>13, <1>14 DEF Good

-----------------------------------------------------------------------------
(* The bounds of TypeOK follow: a completion that is queued twice is that of *)
(* a failed accept, and a thread is inside of one ic.run() per accept so far *)
(* and one more.                                                             *)
LEMMA HandledBounded ==
    ASSUME Types, Counts
    PROVE  Handled \in Nat /\ Handled <= Cardinality(Clients) + MaxFailures
  <1>1. Cardinality(Served) <= Cardinality(Clients)
    <2>1. Served \subseteq Clients
      BY DEF Served
    <2> QED
      BY <2>1, FiniteCounts, FS_Subset
  <1>2. /\ failures \in Nat /\ failures <= MaxFailures /\ MaxFailures \in Nat
        /\ Cardinality(Failing) \in Nat /\ Cardinality(Failing) <= failures
    BY FiniteFailing, ConnectionsAssumption DEF Types, Counts, Tokens
  <1> QED
    BY <1>1, <1>2, FiniteCounts DEF Handled

LEMMA GoodTypeOK == Good => TypeOK
  <1> SUFFICES ASSUME Good PROVE TypeOK
    OBVIOUS
  <1>1. Types /\ Queue /\ Counts
    BY GoodSplit
  <1>2. accepts \in 0 .. MaxOpens /\ late \in 0 .. MaxOpens
    <2>1. Cardinality(Failing) \in Nat
      BY <1>1, FiniteFailing
    <2>2. /\ late + accepts + Cardinality(Arming) + Cardinality(Coming) + Cardinality(Failing) <= opens
          /\ late \in Nat /\ accepts \in Nat /\ opens \in 0 .. MaxOpens
      BY <1>1 DEF Types, Counts, Tokens
    <2> QED
      BY <2>1, <2>2, FiniteCounts, ConnectionsAssumption
  <1>3. thread \in [Threads -> [at: Places, c: Clients \cup {NoClient},
                                depth: 0 .. Cardinality(Clients) + MaxFailures + 1]]
    <2>1. Handled \in Nat /\ Handled <= Cardinality(Clients) + MaxFailures
      BY <1>1, HandledBounded
    <2>2. ASSUME NEW t \in Threads
          PROVE  thread[t] \in [at: Places, c: Clients \cup {NoClient},
                                depth: 0 .. Cardinality(Clients) + MaxFailures + 1]
      <3>1. thread[t] \in Threading /\ thread[t].depth <= Handled + 1
        BY <1>1 DEF Types, Counts, Deep
      <3>2. thread[t].depth \in 0 .. Cardinality(Clients) + MaxFailures + 1
        BY <2>1, <3>1, FiniteCounts, ConnectionsAssumption DEF Threading
      <3> QED
        BY <3>1, <3>2 DEF Threading
    <2> QED
      BY <1>1, <2>2 DEF Types
  <1>4. \A i, j \in DOMAIN ready : ready[i] = ready[j] => i = j \/ ready[i].c = NoClient
    <2> SUFFICES ASSUME NEW i \in DOMAIN ready, NEW j \in DOMAIN ready, ready[i] = ready[j],
                        ready[i].c # NoClient
                 PROVE  i = j
      OBVIOUS
    <2>1. ready[i].c \in Clients
      BY <1>1, QueueKinds
    <2> QED
      BY <1>1, <2>1 DEF Queue
  <1>5. ready \in Seq([kind: {"ACCEPTED", "REQUEST", "NOT_ROWS", "WROTE", "FAILED"}, c: Clients]
                         \cup [kind: {"NOT_ACCEPTED"}, c: {NoClient}])
    BY <1>1 DEF Types, Completions, Kinds
  <1> QED
    BY <1>1, <1>2, <1>3, <1>4, <1>5 DEF TypeOK, Types, Places, Busy, Peers, Connections

LEMMA GoodLateBounded == Good => LateBounded
  <1> SUFFICES ASSUME Good PROVE LateBounded
    OBVIOUS
  <1>1. Types /\ Counts
    BY GoodSplit
  <1>2. Cardinality(Failing) \in Nat
    BY <1>1, FiniteFailing
  <1> QED
    BY <1>1, <1>2, FiniteCounts DEF Types, Counts, Tokens, LateBounded

LEMMA GoodWhyStopped == Good => WhyStopped
  <1> SUFFICES ASSUME Good, stopped
               PROVE  /\ late > 0
                      /\ \A c \in Accepted : client[c].at = "LEFT"
                      /\ late = Cardinality({c \in Clients : conn[c].at = "SESSION"}) + failures
    BY DEF WhyStopped
  <1>1. /\ Types /\ Connected /\ Counts /\ Idle
    BY GoodSplit
  <1>2. /\ ready = <<>> /\ late > 0
        /\ \A c \in Clients : ~ conn[c].reading /\ conn[c].writing = "nothing"
        /\ \A t \in Threads : thread[t].at \notin Busy /\ thread[t].depth < 2
    BY <1>1 DEF Idle
  <1>3. \A c \in Clients : ~ Asked(c) /\ ~ Queued(c, "ACCEPTED")
    BY <1>2 DEF Asked, Queued, Waiting
  <1>4. \A c \in Clients : ~ BeingOpened(c) /\ ~ BeingServed(c)
    BY <1>2 DEF BeingOpened, BeingServed, Held, Working, Busy
  <1>5. \A c \in Accepted : client[c].at = "LEFT"
    BY <1>1, <1>2, <1>3, <1>4 DEF Accepted, Connected, Stage
  <1>6. Rearming = {} /\ Failing = {}
    BY <1>2 DEF Rearming, Failing, Busy
  <1>7. late + Cardinality(Rearming) = Handled /\ late \in Nat
    BY <1>1, <1>2 DEF Counts, Nested, Types
  <1>8. failures \in Nat
    BY <1>1, ConnectionsAssumption DEF Types
  <1>9. late = Cardinality(Served) + failures
    BY <1>6, <1>7, <1>8, FS_EmptySet, FiniteCounts DEF Handled
  <1> QED
    BY <1>2, <1>5, <1>9 DEF Served

LEMMA GoodOneThread == Good /\ Sound => OneThreadIsSafe
  BY DEF Good, Single, OneThreadIsSafe, Sound

-----------------------------------------------------------------------------
(* The numbers of the sessions.  SessionIDs go round, so that the one after  *)
(* the last is 0.                                                            *)
LEMMA TurnNext ==
    ASSUME NEW n \in SessionIDs
    PROVE  (n + 1) % NumSessionIDs \in SessionIDs /\ Turn((n + 1) % NumSessionIDs) = n + 1
  <1>1. NumSessionIDs \in Nat \ {0} /\ n \in Nat /\ n < NumSessionIDs
    BY ConnectionsAssumption DEF SessionIDs
  <1>2. CASE n + 1 = NumSessionIDs
    <2>1. (n + 1) % NumSessionIDs = 0
      BY <1>1, <1>2
    <2> QED
      BY <1>1, <1>2, <2>1 DEF Turn, SessionIDs
  <1>3. CASE n + 1 < NumSessionIDs
    <2>1. (n + 1) % NumSessionIDs = n + 1
      BY <1>1, <1>3
    <2> QED
      BY <1>1, <1>3, <2>1 DEF Turn, SessionIDs
  <1> QED
    BY <1>1, <1>2, <1>3

LEMMA TurnIs ==
    ASSUME NEW id \in SessionIDs
    PROVE  Turn(id) \in 1 .. NumSessionIDs /\ (id # 0 => Turn(id) = id)
  BY ConnectionsAssumption DEF Turn, SessionIDs

LEMMA TurnOnce ==
    ASSUME NEW a \in SessionIDs, NEW b \in SessionIDs
    PROVE  Turn(a) = Turn(b) => a = b
  BY ConnectionsAssumption DEF Turn, SessionIDs

LEMMA CountSessionNumbered ==
    ASSUME Good, Numbered, NEW t \in Threads, CountSession(t)
    PROVE  Numbered'
  <1>1. Types /\ Spawned
    BY GoodSplit
  <1>2. /\ thread[t].at = "COUNT" /\ next_sessionID' = (next_sessionID + 1) % NumSessionIDs
        /\ Goes(t, "INSERT", thread[t].c) /\ UNCHANGED <<opens, sessions>>
    BY DEF CountSession
  <1> SUFFICES ASSUME opens <= 1, ~ Full
               PROVE  \A id \in SessionIDs :
                          sessions'[id] # NoClient
                              <=> IF Inserting' THEN Turn(id) < Turn(next_sessionID')
                                                ELSE Turn(id) <= next_sessionID'
    BY <1>2 DEF Numbered, Full
  <1>3. ~ Inserting
    <2>1. \A u \in Threads : thread[u].at # "NONE" => u = t
      BY <1>1, <1>2, OneThread
    <2> QED
      BY <1>2, <2>1 DEF Inserting
  <1>4. Inserting'
    <2>1. thread[t].c \in Clients \cup {NoClient} /\ "INSERT" \in Places
      BY <1>1 DEF Types, Threading, Places, Busy
    <2>2. Moved(t, "INSERT", thread[t].c)
      BY <1>1, <1>2, <2>1, GoesMoved
    <2> QED
      BY <2>2 DEF Moved, Inserting
  <1>5. next_sessionID \in SessionIDs /\ next_sessionID \in Nat
    BY <1>1, ConnectionsAssumption DEF Types, SessionIDs
  <1>6. Turn(next_sessionID') = next_sessionID + 1
    BY <1>2, <1>5, TurnNext
  <1>7. ASSUME NEW id \in SessionIDs
        PROVE  sessions[id] # NoClient <=> Turn(id) < next_sessionID + 1
    <2>1. sessions[id] # NoClient <=> Turn(id) <= next_sessionID
      BY <1>3 DEF Numbered
    <2>2. Turn(id) \in Nat
      BY TurnIs, ConnectionsAssumption
    <2> QED
      BY <1>5, <2>1, <2>2
  <1> QED
    BY <1>2, <1>4, <1>6, <1>7

LEMMA InsertSessionNumbered ==
    ASSUME Good, Numbered, NEW t \in Threads, InsertSession(t), Sound, Sound'
    PROVE  Numbered'
  <1> DEFINE id0 == next_sessionID
  <1>1. Types /\ Spawned
    BY GoodSplit
  <1>2. /\ thread[t].at = "INSERT" /\ sessions[id0] = NoClient
        /\ sessions' = [sessions EXCEPT ![id0] = thread[t].c]
        /\ Goes(t, "REARM", thread[t].c) /\ UNCHANGED <<opens, next_sessionID>>
    BY DEF InsertSession, Sound
  <1>3. thread[t].c \in Clients /\ thread[t].c # NoClient
    BY <1>1, <1>2, ConnectionsAssumption DEF Spawned, Busy
  <1> SUFFICES ASSUME opens <= 1
               PROVE  \/ Full'
                      \/ \A id \in SessionIDs :
                             sessions'[id] # NoClient
                                 <=> IF Inserting' THEN Turn(id) < Turn(next_sessionID')
                                                   ELSE Turn(id) <= next_sessionID'
    BY <1>2 DEF Numbered
  <1>4. ~ Inserting'
    <2>1. \A u \in Threads : thread[u].at # "NONE" => u = t
      BY <1>1, <1>2, OneThread
    <2>2. "REARM" \in Places
      BY DEF Places, Busy
    <2>3. Moved(t, "REARM", thread[t].c)
      BY <1>1, <1>2, <1>3, <2>2, GoesMoved
    <2> QED
      BY <2>1, <2>3 DEF Moved, Inserting
  <1>5. id0 \in SessionIDs /\ sessions \in [SessionIDs -> Clients \cup {NoClient}]
    BY <1>1 DEF Types
  <1>6. \A id \in SessionIDs : sessions'[id] # NoClient <=> id = id0 \/ sessions[id] # NoClient
    BY <1>2, <1>3, <1>5
  <1>7. ~ Full
    BY <1>2, <1>5 DEF Full
  <1>8. Inserting
    BY <1>2 DEF Inserting
  <1>9. \A id \in SessionIDs : sessions[id] # NoClient <=> Turn(id) < Turn(id0)
    BY <1>7, <1>8 DEF Numbered
  <1>10. ASSUME NEW id \in SessionIDs
         PROVE  sessions'[id] # NoClient <=> Turn(id) <= Turn(id0)
    <2>1. Turn(id) \in Int /\ Turn(id0) \in Int
      BY <1>5, TurnIs, ConnectionsAssumption
    <2>2. Turn(id) = Turn(id0) => id = id0
      BY <1>5, TurnOnce
    <2> QED
      BY <1>6, <1>9, <2>1, <2>2
  <1>11. CASE id0 = 0
    <2>1. Turn(id0) = NumSessionIDs
      BY <1>11 DEF Turn
    <2>2. \A id \in SessionIDs : Turn(id) <= NumSessionIDs
      BY TurnIs, ConnectionsAssumption
    <2> QED
      BY <1>10, <2>1, <2>2 DEF Full
  <1>12. CASE id0 # 0
    <2>1. Turn(id0) = id0
      BY <1>5, <1>12, TurnIs
    <2> QED
      BY <1>2, <1>4, <1>10, <2>1
  <1> QED
    BY <1>11, <1>12

(* An old session is started again, or one has no client any more: with one  *)
(* thread the first happens only when all numbers are taken.                 *)
LEMMA FaultStep ==
    ASSUME Good, Numbered, Sound, NEW t \in Threads, InsertSession(t), ~ Sound'
    PROVE  TypeOK' /\ LateBounded' /\ ~ stopped' /\ OneThreadIsSafe'
  <1>1. Types /\ Spawned /\ Single /\ Idle
    BY GoodSplit
  <1>2. /\ thread[t].at = "INSERT"
        /\ \/ sessions[next_sessionID] # NoClient /\ fault' = "restarted"
           \/ fault' = "no_endpoint"
        /\ Goes(t, "REARM", thread[t].c)
        /\ UNCHANGED <<connection_open, opens, accepts, ready, stopped, next_sessionID, sessions,
                       client, conn, late, failures>>
    BY DEF InsertSession, Sound
  <1>3. thread[t].c \in Clients /\ "REARM" \in Places
    BY <1>1, <1>2 DEF Spawned, Busy, Places
  <1>4. Moved(t, "REARM", thread[t].c) /\ \A u \in Threads : thread'[u].depth = thread[u].depth
    BY <1>1, <1>2, <1>3, GoesMoved
  <1>5. TypeOK /\ LateBounded
    BY GoodTypeOK, GoodLateBounded
  <1>6. thread' \in [Threads -> [at: Places, c: Clients \cup {NoClient},
                                 depth: 0 .. Cardinality(Clients) + MaxFailures + 1]]
    <2>1. \A u \in Threads : thread[u].depth \in 0 .. Cardinality(Clients) + MaxFailures + 1
      BY <1>5 DEF TypeOK
    <2>2. ASSUME NEW u \in Threads
          PROVE  thread'[u] \in [at: Places, c: Clients \cup {NoClient},
                                 depth: 0 .. Cardinality(Clients) + MaxFailures + 1]
      <3>1. /\ thread'[u] \in Threading
            /\ thread'[u].depth \in 0 .. Cardinality(Clients) + MaxFailures + 1
        BY <1>4, <2>1 DEF Moved
      <3> QED
        BY <3>1 DEF Threading
    <2> QED
      BY <1>4, <2>2 DEF Moved
  <1>7. TypeOK'
    BY <1>2, <1>5, <1>6 DEF TypeOK, Places, Busy
  <1>8. ASSUME opens <= 1, fault' = "restarted"
        PROVE  Full
    <2>1. sessions[next_sessionID] # NoClient /\ next_sessionID \in SessionIDs
      BY <1>1, <1>2, <1>8 DEF Types
    <2>2. Inserting
      BY <1>2 DEF Inserting
    <2>3. Turn(next_sessionID) \in Int
      BY <2>1, TurnIs, ConnectionsAssumption
    <2> QED
      BY <1>8, <2>1, <2>2, <2>3 DEF Numbered
  <1>9. OneThreadIsSafe'
    BY <1>1, <1>2, <1>8 DEF OneThreadIsSafe, Single, Full
  <1>10. ~ stopped
    BY <1>1, <1>2 DEF Idle, Busy
  <1> QED
    BY <1>2, <1>5, <1>7, <1>9, <1>10 DEF LateBounded

-----------------------------------------------------------------------------
(* The invariant holds at the start and is kept by every step.               *)
LEMMA InitInv == Init => Inv
  <1> SUFFICES ASSUME Init PROVE Inv
    OBVIOUS
  <1>1. Sound
    BY DEF Init, Sound
  <1>2. Types
    <2>1. /\ connection_open \in BOOLEAN /\ stopped \in BOOLEAN
          /\ fault \in {"none", "restarted", "no_endpoint"}
          /\ opens \in 0 .. MaxOpens /\ accepts \in Nat /\ late \in Nat
          /\ failures \in 0 .. MaxFailures
      <3>1. 0 \in 0 .. MaxOpens /\ 0 \in 0 .. MaxFailures
        BY ConnectionsAssumption
      <3>2. /\ connection_open = FALSE /\ stopped = FALSE /\ fault = "none"
            /\ opens = 0 /\ accepts = 0 /\ late = 0 /\ failures = 0
        BY DEF Init
      <3> QED
        BY <3>1, <3>2
    <2>2. ready \in Seq(Completions)
      BY EmptySeq DEF Init
    <2>3. thread \in [Threads -> Threading]
      BY DEF Init, Threading, Places
    <2>4. next_sessionID \in SessionIDs /\ sessions \in [SessionIDs -> Clients \cup {NoClient}]
      BY ConnectionsAssumption DEF Init, SessionIDs
    <2>5. client \in [Clients -> Peers] /\ conn \in [Clients -> Connections]
      BY DEF Init, Peers, Connections
    <2> QED
      BY <2>1, <2>2, <2>3, <2>4, <2>5 DEF Types
  <1>3. /\ \A t \in Threads : thread[t].at = "NONE" /\ thread[t].depth = 0
        /\ \A c \in Clients : /\ conn[c].at = "NONE" /\ conn[c].unread = "nothing"
                              /\ ~ conn[c].reading /\ conn[c].writing = "nothing"
                              /\ client[c].at = "NEW" /\ ~ client[c].cut
    BY DEF Init
  <1>4. Waiting = {} /\ \A c : \A p \in Busy : <<p, c>> \notin Working
    BY <1>3 DEF Init, Waiting, Working, Busy
  <1>5. Spawned
    BY <1>3 DEF Init, Spawned, Busy, Threads
  <1>6. Queue /\ OneEach
    BY <1>3 DEF Init, Queue, OneEach, Alone
  <1>7. Connected
    BY <1>3, <1>4
       DEF Connected, OneRead, Stage, OneRequest, Asked, BeingOpened, BeingServed, Queued, Held,
           Busy
  <1>8. Counts
    <2>1. Arming = {} /\ Rearming = {} /\ Coming = {} /\ Served = {} /\ Failing = {}
      BY <1>3 DEF Init, Arming, Rearming, Coming, Served, Failing
    <2>2. Cardinality({}) = 0
      BY FS_EmptySet
    <2>3. Handled = 0
      BY <2>1, <2>2 DEF Init, Handled
    <2> QED
      BY <1>3, <2>1, <2>2, <2>3 DEF Init, Counts, Tokens, Nested, Deep
  <1>9. Single
    BY <1>3, <1>4 DEF Init, Single, Held, Busy
  <1>10. Idle
    BY DEF Init, Idle
  <1>11. Numbered
    <2>1. ~ Inserting
      BY <1>3 DEF Inserting
    <2>2. ASSUME NEW id \in SessionIDs
          PROVE  ~ (Turn(id) <= 0) /\ sessions[id] = NoClient
      BY TurnIs, ConnectionsAssumption DEF Init
    <2> QED
      BY <2>1, <2>2 DEF Init, Numbered
  <1> QED
    BY <1>1, <1>2, <1>5, <1>6, <1>7, <1>8, <1>9, <1>10, <1>11 DEF Inv, Good

(* No step but those of new_session touches the numbers.                     *)
LEMMA NumberedStays ==
    ASSUME Good, Numbered, UNCHANGED <<next_sessionID, sessions>>, opens' <= 1 => opens <= 1,
           \/ UNCHANGED thread
           \/ \E t \in Threads :
                 /\ thread[t].at # "INSERT" /\ thread'[t].at # "INSERT"
                 /\ \A u \in Threads \ {t} : thread'[u] = thread[u]
    PROVE  Numbered'
  <1>1. \A u \in Threads : thread'[u].at = "INSERT" <=> thread[u].at = "INSERT"
    OBVIOUS
  <1> QED
    BY <1>1, NumberedKeep

LEMMA NextInv == Inv /\ [Next]_vars => Inv'
  <1> SUFFICES ASSUME Inv, [Next]_vars PROVE Inv'
    OBVIOUS
  <1>1. CASE UNCHANGED vars
    <2>1. TypeOK => TypeOK'
      BY <1>1 DEF vars, TypeOK
    <2>2. LateBounded => LateBounded'
      BY <1>1 DEF vars, LateBounded
    <2>3. OneThreadIsSafe => OneThreadIsSafe'
      BY <1>1 DEF vars, OneThreadIsSafe
    <2>4. Good => Good'
      <3> SUFFICES ASSUME Good PROVE Good'
        OBVIOUS
      <3>1. /\ Types /\ Spawned /\ Queue /\ OneEach /\ Connected /\ Counts /\ Single /\ Idle
        BY GoodSplit
      <3>2. Spawned' /\ OneEach' /\ Working' = Working /\ Arming' = Arming /\ Rearming' = Rearming
        BY <1>1, <3>1, ThreadsKeep DEF vars
      <3>3. Queue' /\ Waiting' = Waiting /\ Failing' = Failing
        BY <1>1, <3>1, QueueKeeps DEF vars
      <3>4. Types'
        BY <1>1, <3>1 DEF vars, Types
      <3>5. Connected'
        BY <1>1, <3>1, <3>2, <3>3, ConnectedKeep DEF vars
      <3>6. Counts'
        BY <1>1, <3>1, <3>2, <3>3, CountsKeep, PlacesKeep DEF vars
      <3>7. Single' /\ Idle'
        BY <1>1, <3>1, <3>2 DEF vars, Single, Idle, Held
      <3> QED
        BY <3>2, <3>3, <3>4, <3>5, <3>6, <3>7 DEF Good
    <2>5. Good /\ Numbered => Numbered'
      BY <1>1, NumberedStays DEF vars
    <2>6. (Sound' <=> Sound) /\ stopped' = stopped
      BY <1>1 DEF vars, Sound
    <2> QED
      BY <2>1, <2>2, <2>3, <2>4, <2>5, <2>6 DEF Inv
  <1>2. CASE Next
    <2>1. Sound /\ Good /\ Numbered
      BY <1>2 DEF Next, ThreadStep, Complete, Inv
    <2>2. Good' /\ Numbered' /\ Sound' => Inv'
      BY DEF Inv
    <2>3. Types
      BY <2>1, GoodSplit
    <2>4. CASE OpenConnections \/ CloseConnections \/ FailAccept
      <3>1. fault' = fault
        BY <2>4 DEF OpenConnections, CloseConnections, FailAccept
      <3>2. Good'
        BY <2>1, <2>4, OpenStep, CloseStep, FailAcceptStep
      <3>3. CASE OpenConnections
        <4>1. /\ opens' = opens + 1 /\ opens \in Nat /\ opens + 1 \in Threads
              /\ UNCHANGED <<next_sessionID, sessions>>
          BY <2>3, <3>3, ConnectionsAssumption DEF OpenConnections, Types, Threads
        <4>2. /\ thread'[opens + 1].at = "ACCEPT"
              /\ \A u \in Threads \ {opens + 1} : thread'[u] = thread[u]
          BY <2>3, <3>3, <4>1 DEF OpenConnections, Types, Threading
        <4>3. thread[opens + 1].at = "NONE"
          BY <2>1, <4>1 DEF Good, Spawned
        <4>4. Numbered'
          BY <2>1, <4>1, <4>2, <4>3, NumberedStays
        <4> QED
          BY <2>1, <2>2, <3>1, <3>2, <4>4 DEF Sound
      <3>4. CASE CloseConnections \/ FailAccept
        <4>1. Numbered'
          BY <2>1, <3>4, NumberedStays DEF CloseConnections, FailAccept
        <4> QED
          BY <2>1, <2>2, <3>1, <3>2, <4>1 DEF Sound
      <3> QED
        BY <2>4, <3>3, <3>4
    <2>5. ASSUME NEW t \in Threads, ThreadStep(t)
          PROVE  Inv'
      <3>1. CASE CountSession(t)
        <4>1. fault' = fault
          BY <3>1 DEF CountSession
        <4> QED
          BY <2>1, <2>2, <3>1, <4>1, CountSessionStep, CountSessionNumbered DEF Sound
      <3>2. CASE InsertSession(t)
        <4>1. CASE Sound'
          BY <2>1, <2>2, <3>2, <4>1, InsertSessionStep, InsertSessionNumbered
        <4>2. CASE ~ Sound'
          BY <2>1, <3>2, <4>2, FaultStep DEF Inv
        <4> QED
          BY <4>1, <4>2
      <3>3. CASE \/ AcceptConnection(t) \/ RunHandler(t) \/ LeaveRun(t)
                 \/ AcceptNext(t) \/ Flush(t) \/ ClearMessage(t)
        <4>1. fault' = fault /\ UNCHANGED <<next_sessionID, sessions, opens>>
          BY <3>3 DEF AcceptConnection, RunHandler, LeaveRun, AcceptNext, Flush, ClearMessage
        <4>2. Good'
          BY <2>1, <3>3, AcceptConnectionStep, RunHandlerStep, RunFailedStep, LeaveRunStep,
             AcceptNextStep, FlushStep, ClearMessageStep
        <4>3. thread[t].at # "INSERT"
          BY <3>3 DEF AcceptConnection, RunHandler, LeaveRun, AcceptNext, Flush, ClearMessage
        <4>4. thread'[t].at # "INSERT" /\ \A u \in Threads \ {t} : thread'[u] = thread[u]
          <5>1. thread \in [Threads -> Threading]
            BY <2>3 DEF Types
          <5>2. CASE AcceptConnection(t) \/ LeaveRun(t) \/ AcceptNext(t)
            BY <5>1, <5>2 DEF AcceptConnection, LeaveRun, AcceptNext, Goes, Ends, Threading
          <5>3. CASE Flush(t) \/ ClearMessage(t)
            BY <5>1, <5>3 DEF Flush, ClearMessage, Goes, Ends, Threading
          <5>4. CASE RunHandler(t)
            <6>1. Head(ready) \in Completions
              BY <2>3, <5>4, QueueShrinks DEF RunHandler
            <6>2. PICK at, d : Goes(t, at, d) /\ at # "INSERT"
              <7>1. Head(ready).kind \in Kinds \cup {"NOT_ACCEPTED"}
                BY <6>1 DEF Completions
              <7> DEFINE h == Head(ready)
              <7>2. \/ Goes(t, "COUNT", h.c) \/ Goes(t, "FLUSH", h.c) \/ Goes(t, "ROWS", h.c)
                    \/ Goes(t, "CLEAR", h.c) \/ Goes(t, "RUN", NoClient)
                    \/ Goes(t, "REARM", NoClient)
                BY <5>4, <7>1 DEF RunHandler, Ends, Kinds
              <7> QED
                BY <7>2
            <6> QED
              BY <5>1, <6>2 DEF Goes, Threading
          <5> QED
            BY <3>3, <5>2, <5>3, <5>4
        <4>5. Numbered'
          BY <2>1, <4>1, <4>3, <4>4, NumberedStays
        <4> QED
          BY <2>1, <2>2, <4>1, <4>2, <4>5 DEF Sound
      <3> QED
        BY <2>5, <3>1, <3>2, <3>3 DEF ThreadStep
    <2>6. ASSUME NEW c \in Clients, Complete(c) \/ Connect(c) \/ Leave(c)
          PROVE  Inv'
      <3>1. CASE CompleteAccept(c) \/ CompleteRead(c) \/ CompleteWrite(c)
        <4>1. UNCHANGED <<fault, next_sessionID, sessions, opens, thread>>
          BY <3>1 DEF CompleteAccept, CompleteRead, CompleteWrite
        <4>2. Numbered'
          BY <2>1, <4>1, NumberedStays
        <4> QED
          BY <2>1, <2>2, <3>1, <4>1, <4>2, CompleteAcceptStep, CompleteReadStep, CompleteWriteStep
             DEF Sound
      <3>2. CASE Connect(c) \/ Leave(c)
        <4>1. UNCHANGED <<fault, next_sessionID, sessions, opens, thread>>
          BY <3>2 DEF Connect, Leave
        <4>2. Numbered'
          BY <2>1, <4>1, NumberedStays
        <4> QED
          BY <2>1, <2>2, <3>2, <4>1, <4>2, ConnectStep, LeaveStep DEF Sound
      <3> QED
        BY <2>6, <3>1, <3>2 DEF Complete
    <2>7. ASSUME NEW c \in Clients, NEW what \in Sends[c], Request(c, what)
          PROVE  Inv'
      <3>1. UNCHANGED <<fault, next_sessionID, sessions, opens, thread>>
        BY <2>7 DEF Request
      <3>2. Numbered'
        BY <2>1, <3>1, NumberedStays
      <3>3. what \in {"REQUEST", "NOT_ROWS"}
        BY ConnectionsAssumption
      <3> QED
        BY <2>1, <2>2, <2>7, <3>1, <3>2, <3>3, RequestStep DEF Sound
    <2> QED
      BY <1>2, <2>4, <2>5, <2>6, <2>7 DEF Next
  <1> QED
    BY <1>1, <1>2

LEMMA SpecInv == Spec => []Inv
  BY InitInv, NextInv, PTL DEF Spec

-----------------------------------------------------------------------------
(* Every variable has its type; of each connection a completion of a kind    *)
(* waits once at a time; and a thread is inside of no more ic.run()s than    *)
(* there are clients and failed accepts, and one.                            *)
THEOREM TypeCorrect == Spec => []TypeOK
  <1>1. Inv => TypeOK
    BY GoodTypeOK DEF Inv
  <1> QED
    BY <1>1, SpecInv, PTL

(* A worker that was told to close lets in no more clients, and has no more  *)
(* accepts fail, than it has been told to open, since each OPEN arms one     *)
(* accept and the handler of each arms at most one more.                     *)
THEOREM LateIsBounded == Spec => []LateBounded
  <1>1. Inv => LateBounded
    BY GoodLateBounded DEF Inv
  <1> QED
    BY <1>1, SpecInv, PTL

(* The io_context stops only if every accept so far, completed or failed,    *)
(* was handled after a CLOSE, and every client it let in has left: the       *)
(* handler of any other accept is still inside of ic.run().                  *)
THEOREM StoppedIsExplained == Spec => []WhyStopped
  <1>1. Inv => WhyStopped
    BY GoodWhyStopped DEF Inv, WhyStopped
  <1> QED
    BY <1>1, SpecInv, PTL

(* In a worker's first group, whose one thread is in one handler at a time,  *)
(* no reply loses its content, and no session is started a second time       *)
(* before all session IDs, which are never given back, have been used.       *)
THEOREM OneThreadSuffices == Spec => []OneThreadIsSafe
  <1>1. Inv => OneThreadIsSafe
    BY GoodOneThread DEF Inv
  <1> QED
    BY <1>1, SpecInv, PTL
=============================================================================
