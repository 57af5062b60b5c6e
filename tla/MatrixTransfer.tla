---------------------------- MODULE MatrixTransfer ----------------------------
(***************************************************************************)
(* A client's data on its way through the server: the handshake that       *)
(* settles how its messages are written (Session.cpp), the matrix it       *)
(* creates (DriverSession.cpp), the entries it sends to the workers that   *)
(* hold them and fetches again, as blocks or as rows (WorkerSession.cpp),  *)
(* and the parameters of a task, which the driver and every worker read    *)
(* from one body (GroupDriver.cpp, GroupWorker.cpp).  What goes over the   *)
(* wire is MessageCodec's.                                                 *)
(*                                                                         *)
(* The client is not in the repository; it writes and reads messages the   *)
(* way the server does, with its own settings.  Its doubles may have their *)
(* bytes in the other order, and those in blocks an order of their own     *)
(* (a Python client packs its numbers and copies its arrays).  One handler *)
(* is one step: the sessions of a worker share only its matrices, and      *)
(* a client sends each entry once.                                         *)
(***************************************************************************)
EXTENDS MessageCodec, FiniteSets

CONSTANTS Shapes,      \* the groups and matrices to try (bounds): height and width of
                       \* the process grid, rows and columns of the matrix, layout
          Clients,     \* the clients to try: language, byte orders
          MaxInvalid   \* invalid handshakes on all connections (a bound)

ASSUME TransferAssumption ==
    /\ Clients \subseteq [cl : {"C", "CPP"} \cup SignedLanguages,
                          foreign : BOOLEAN, foreign_blocks : BOOLEAN]
    /\ \A s \in Shapes : s.height > 0 /\ s.width > 0 /\ s.rows > 0 /\ s.cols > 0
    /\ MaxInvalid \in Nat

VARIABLES
    shape,      \* which group and matrix this is about ...
    client,     \* ... and which client
    session,    \* session[p]: the settings of read_msg and write_msg of the client's
                \* session with the driver (0) or a worker, and a valid handshake
    invalid,    \* handshakes that were not
    info,       \* the MatrixInfo the driver keeps
    peers,      \* the WorkerInfos the client has read
    known,      \* the MatrixInfo it has read
    store,      \* store[w]: the local entries of the matrix in worker w
    sent,       \* sent[w]: how the client has sent w its entries, once acknowledged
    fetched,    \* fetched[w]: how it has fetched them, and what it got
    task,       \* the parameters that the driver and the workers have read, and the
                \* client after the task
    fault       \* a message was not read as it was written

vars == <<shape, client, session, invalid, info, peers, known, store, sent, fetched, task, fault>>

Driver  == 0
Workers == 1 .. shape.height * shape.width

-----------------------------------------------------------------------------
(* Elemental: which rows and columns of a distributed matrix a process has.  *)

\* The process grid is made ROW_MAJOR over the group's workers.
Row(w) == (w - 1) \div shape.width
Col(w) == (w - 1) % shape.width

\* The distributions of rows and of columns, by layout.
Distributions ==
    [l \in 0 .. 13 |->
        CASE l = 0 -> <<"MC", "MR">>    [] l = 1  -> <<"MC", "STAR">> [] l = 2  -> <<"MD", "STAR">>
          [] l = 3 -> <<"MR", "MC">>    [] l = 4  -> <<"MR", "STAR">> [] l = 5  -> <<"STAR", "MC">>
          [] l = 6 -> <<"STAR", "MD">>  [] l = 7  -> <<"STAR", "MR">> [] l = 8  -> <<"STAR", "STAR">>
          [] l = 9 -> <<"STAR", "VC">>  [] l = 10 -> <<"STAR", "VR">> [] l = 11 -> <<"VC", "STAR">>
          [] l = 12 -> <<"VR", "STAR">> [] l = 13 -> <<"CIRC", "CIRC">>]

\* The places (i % height, i % width) that the diagonal of a grid passes before it
\* comes back to its first.
Diagonal(height, width) ==
    {i \in 0 .. height * width - 1 :
        \A k \in 1 .. i : k % height # 0 \/ k % width # 0}

\* Whether the process at (row, col) of a grid has any index at all ...
Participates(d, row, col, height, width) ==
    CASE d = "MD"   -> \E i \in Diagonal(height, width) : i % height = row /\ i % width = col
      [] d = "CIRC" -> row = 0 /\ col = 0
      [] OTHER      -> TRUE

\* ... the first one, and the step.
Shift(d, row, col, height, width) ==
    CASE d = "MC" -> row [] d = "MR" -> col [] d \in {"STAR", "CIRC"} -> 0
      [] d = "VC" -> row + col * height [] d = "VR" -> col + row * width
      [] d = "MD" -> CHOOSE i \in Diagonal(height, width) : i % height = row /\ i % width = col

Stride(d, height, width) ==
    CASE d = "MC" -> height [] d = "MR" -> width [] d \in {"STAR", "CIRC"} -> 1
      [] d = "MD" -> Cardinality(Diagonal(height, width)) [] OTHER -> height * width

\* How many of the indices below i are local; of a local i, its local index.
Local(i, shift, stride) == IF i > shift THEN ((i - shift - 1) \div stride) + 1 ELSE 0

Shifts(w)  == [k \in 1 .. 2 |-> Shift(Distributions[shape.l][k], Row(w), Col(w),
                                      shape.height, shape.width)]
Strides    == [k \in 1 .. 2 |-> Stride(Distributions[shape.l][k], shape.height, shape.width)]

LocalRow(w, i) == Local(i, Shifts(w)[1], Strides[1])
LocalCol(w, j) == Local(j, Shifts(w)[2], Strides[2])

LocalIndices(w) ==
    IF \E k \in 1 .. 2 : ~ Participates(Distributions[shape.l][k], Row(w), Col(w),
                                        shape.height, shape.width) THEN {}
    ELSE (0 .. LocalRow(w, shape.rows) - 1) \X (0 .. LocalCol(w, shape.cols) - 1)

SetValue(w, entries, write) ==
    [entries EXCEPT ![<<LocalRow(w, write[1][1]), LocalCol(w, write[1][2])>>] = write[2]]

GetValue(w, i, j) == store[w][<<LocalRow(w, i), LocalCol(w, j)>>]

-----------------------------------------------------------------------------
(* The client.                                                               *)

Languages == <<"C", "CPP", "SCALA", "JAVA", "PYTHON", "JULIA">>

Speaks == [SetClientLanguage(NewMessage, client.cl) EXCEPT !.reverse_floats = client.foreign]

\* The entry (i, j) of its matrix as bytes of a block, and such bytes as a number.
InBlock(d) == IF client.foreign_blocks THEN Swap(d) ELSE d
Entry(i, j) == Host(<<i, j>>)

ClientBlock(b, values) ==
    PutDatatype("MATRIX_BLOCK")
        \o PutMatrixBlock(Speaks, b, [k \in 1 .. Len(values) |-> InBlock(values[k])])

\* A block without entries asks for them.
ClientRequest(b) ==
    PutDatatype("MATRIX_BLOCK")
        \o PutInts(Speaks, b.rows \o b.cols \o <<0>>, <<8, 8, 8, 8, 8, 8, 1>>)

HelloBlock == [rows |-> <<0, 3, 1>>, cols |-> <<0, 2, 1>>, empty |-> FALSE]
Sample(k)  == Host(<<"sample", k>>)

\* A handshake; one that does not understand the protocol has one thing wrong in it.
Hello(wrong) ==
    Write(Speaks, "UINT8", (CHOOSE k \in 1 .. 6 : Languages[k] = client.cl) - 1)
      \o WriteAll(Speaks, <<<<"UINT16", IF wrong = "word" THEN 99 ELSE 12>>, <<"STRING", "ABCD">>,
                            <<"DOUBLE", Host(<<"1.11">>)>>,
                            <<"DOUBLE", Host(IF wrong = "double" THEN <<"2">> ELSE <<"2.22">>)>>>>)
      \o ClientBlock(HelloBlock, [k \in 1 .. 12 |-> IF wrong = "block" THEN Nothing ELSE Sample(k)])
      \o Write(Speaks, "UINT32", 100)

\* The blocks of its matrix that are worker w's, by what it knows of the grid and
\* the layout: one with the steps of the distribution, or one for each row.
Blocks(w, split) ==
    LET first  == [k \in 1 .. 2 |-> Shift(Distributions[known.l][k], known.grid[w].row,
                                          known.grid[w].col, known.num_grid_rows,
                                          known.num_grid_cols)]
        step   == [k \in 1 .. 2 |-> Stride(Distributions[known.l][k], known.num_grid_rows,
                                           known.num_grid_cols)]
        Block(rows) == [rows |-> rows, cols |-> <<first[2], known.num_cols - 1, step[2]>>,
                        empty |-> FALSE]
        all    == <<first[1], known.num_rows - 1, step[1]>>
    IN  IF \/ \E k \in 1 .. 2 : ~ Participates(Distributions[known.l][k], known.grid[w].row,
                                             known.grid[w].col, known.num_grid_rows,
                                             known.num_grid_cols)
           \/ first[1] >= known.num_rows \/ first[2] >= known.num_cols THEN <<>>
        ELSE IF split
        THEN [k \in 1 .. Len(Steps(all)) |-> Block(<<Steps(all)[k], Steps(all)[k], 1>>)]
        ELSE <<Block(all)>>

Values(b) == [k \in 1 .. Len(Visits(b)) |-> Entry(Visits(b)[k][1], Visits(b)[k][2])]

-----------------------------------------------------------------------------
(* Mutated forms of operators below, each a slip this code could have had;   *)
(* the properties are tested against them.                                   *)

\* Only what is read is turned.
AgreedReading(s, cl, flip) ==
    [read_msg  |-> [SetClientLanguage(s.read_msg, cl) EXCEPT !.reverse_floats = @ \/ flip],
     write_msg |-> SetClientLanguage(s.write_msg, cl)]

\* The workers are not told that floats are reversed.
PlainMessage(m) == NewMessage

-----------------------------------------------------------------------------
(* The handshake.                                                            *)

\* compare_matrix_block: in either order of bytes once the doubles are reversed.
SampleMatches(m, b, body) ==
    \A k \in 1 .. Size(b) :
        LET d == body[b.start + k - 1].v
        IN  d = Sample(k) \/ (m.reverse_floats /\ Swap(d) = Sample(k))

\* The settings of both messages of a session; reverse_floats is only ever set.
Agreed(s, cl, flip) ==
    [x \in {"read_msg", "write_msg"} |->
        [SetClientLanguage(s[x], cl) EXCEPT !.reverse_floats = @ \/ flip]]

\* Session::handle_handshake on a session's two messages: what they are afterwards,
\* and whether the handshake was valid; first what it reads before ...
Language(s, body) ==
    Read(s.read_msg, IF PreviewDatatype(body, 1) = "INT8" THEN "INT8" ELSE "UINT8", body, 1)

Beginning(m, body, p) == ReadAll(m, <<"UINT16", "STRING", "DOUBLE">>, body, p)

\* ... and then what it reads after it knows the order of bytes.
Ending(s, hello, body, p) ==
    LET rest == ReadAll(s.read_msg, <<"DOUBLE", "MATRIX_BLOCK", "UINT32">>, body, p)
    IN  [read_msg |-> s.read_msg, write_msg |-> s.write_msg,
         ready |-> hello /\ rest.v[1] = Host(<<"2.22">>)
                         /\ SampleMatches(s.read_msg, rest.v[2], body)]

Handshake(s, body) ==
    LET Heard(x) == x.v[1] = 12 /\ x.v[2] = "ABCD"
        Begun(cl, x) ==
            Ending(Agreed(s, cl, Heard(x) /\ x.v[3] # Host(<<"1.11">>)), Heard(x),
                   body, x.next)
        Speaking(cl, p) == Begun(cl, Beginning(SetClientLanguage(s.read_msg, cl), body, p))
        Spoken(code)    == Speaking(Languages[code.v + 1], code.next)
    IN  Spoken(Language(s, body))

-----------------------------------------------------------------------------
NoMatrix == [ID |-> 0]
NoTask   == [sent |-> <<>>, driver |-> <<>>, worker |-> <<>>, result |-> <<>>, returned |-> <<>>]
NewSession == [read_msg |-> NewMessage, write_msg |-> NewMessage, ready |-> FALSE]

Init ==
    /\ shape \in Shapes
    /\ client \in Clients
    /\ session = [p \in 0 .. shape.height * shape.width |-> NewSession]
    /\ invalid = 0
    /\ info = NoMatrix /\ peers = <<>> /\ known = NoMatrix
    /\ store = [w \in Workers |-> <<>>]
    /\ sent = [w \in Workers |-> "no"]
    /\ fetched = [w \in Workers |-> [as |-> "no", entries |-> {}]]
    /\ task = NoTask
    /\ fault = FALSE

\* A message's header is read as what it was written as, with the largest IDs.
HeaderFaulty(writer, reader, ec, body) ==
    \E x \in {[clientID |-> Byte ^ 2 - 1, sessionID |-> Byte ^ 2 - 1, cc |-> "HANDSHAKE",
               ec |-> ec, body_length |-> BodyLength(body)]} :
    \E header \in {PutHeader(writer, x)} : DecodeHeader(reader, header) # x

\* valid_handshake and invalid_handshake: words that the client checks, or an error.
Words == <<<<"UINT16", 34>>, <<"STRING", "DCBA">>, <<"DOUBLE", Host(<<"3.33">>)>>>>

HandshakeAnswer(s) ==
    IF s.ready THEN [ec |-> "NONE", body |-> WriteAll(s.write_msg, Words)]
    ELSE [ec |-> "INVALID HANDSHAKE", body |-> <<>>]

\* handle_handshake.
ShakeHands(p, wrong) ==
    /\ p = Driver \/ p \in {peers[k].ID : k \in DOMAIN peers}
    /\ ~ session[p].ready
    /\ \E hello \in {Hello(wrong)} : \E s \in {Handshake(session[p], hello)} :
       \E answer \in {HandshakeAnswer(s)} :
          /\ session' = [session EXCEPT ![p] = s]
          /\ invalid' = IF s.ready THEN invalid ELSE invalid + 1
          /\ fault' = \/ fault
                      \/ HeaderFaulty(Speaks, session[p].read_msg, "NONE", hello)
                      \/ HeaderFaulty(s.write_msg, Speaks, answer.ec, answer.body)
                      \/ /\ s.ready
                         /\ ReadAll(Speaks, <<"UINT16", "STRING", "DOUBLE">>, answer.body, 1)
                              # [v |-> [k \in 1 .. 3 |-> Words[k][2]],
                                 next |-> Len(answer.body) + 1]
    /\ invalid' <= MaxInvalid
    /\ UNCHANGED <<shape, client, info, peers, known, store, sent, fetched, task>>

\* handle_request_workers: the group's workers, which the client connects to.
RequestWorkers ==
    LET s    == session[Driver]
        Worker(w) == [ID |-> w, hostname |-> "node", address |-> "10.0.0.1",
                       port |-> (Byte ^ 2) - w, groupID |-> 1]
        Answered(x) == WriteAll(s.write_msg, <<<<"UINT16", Len(x)>>>> \o
                                             [w \in Workers |-> <<"WORKER_INFO", x[w]>>])
        Received(n, out) == ReadAll(Speaks, [k \in 1 .. n.v |-> "WORKER_INFO"], out, n.next)
    IN  /\ s.ready /\ peers = <<>>
        /\ \E x \in {[w \in Workers |-> Worker(w)]} : \E out \in {Answered(x)} :
           \E got \in {Received(Read(Speaks, "UINT16", out, 1), out)} :
              /\ fault' = \/ fault
                          \/ Read(s.read_msg, "UINT16", Write(Speaks, "UINT16", Len(x)), 1).v # Len(x)
                          \/ got # [v |-> x, next |-> Len(out) + 1]
              /\ peers' = got.v
        /\ UNCHANGED <<shape, client, session, invalid, info, known, store, sent, fetched, task>>

\* GroupDriver::new_matrix: the MatrixInfo of the first matrix, with every worker's place.
NewMatrix(args) ==
    [ID |-> 1, name |-> args[1], num_rows |-> args[2], num_cols |-> args[3],
     sparse |-> args[4], l |-> args[5], num_grid_rows |-> shape.height,
     num_grid_cols |-> shape.width, grid |-> [w \in Workers |-> [row |-> Row(w), col |-> Col(w)]]]

\* handle_matrix_info: the driver keeps and answers the MatrixInfo, the workers make
\* the matrix.
CreateMatrix ==
    /\ peers # <<>> /\ info = NoMatrix
    /\ \E body \in {WriteAll(Speaks, <<<<"STRING", "A">>, <<"UINT64", shape.rows>>,
                                       <<"UINT64", shape.cols>>, <<"UINT8", 0>>,
                                       <<"UINT8", shape.l>>>>)} :
       \E args \in {ReadAll(session[Driver].read_msg,
                            <<"STRING", "UINT64", "UINT64", "UINT8", "UINT8">>, body, 1)} :
       \E x \in {NewMatrix(args.v)} : \E out \in {Write(session[Driver].write_msg, "MATRIX_INFO", x)} :
       \E got \in {Read(Speaks, "MATRIX_INFO", out, 1)} :
          /\ info' = x
          /\ known' = got.v
          /\ fault' = (fault \/ args.next # Len(body) + 1 \/ got.next # Len(out) + 1)
    /\ store' = [w \in Workers |-> [e \in LocalIndices(w) |-> Host(<<"zero">>)]]
    /\ UNCHANGED <<shape, client, session, invalid, peers, sent, fetched, task>>

-----------------------------------------------------------------------------
(* Entries to and from a worker.                                             *)

Connected(w) == session[w].ready /\ info # NoMatrix /\ ~ fault

\* What a handler stores: the pairs of an entry's indices and its value, in order.
Store(w, writes) ==
    store' = [store EXCEPT ![w] = FoldLeft(LAMBDA e, x : SetValue(w, e, x), @, writes)]

\* A request about the matrix, and where the items in its body begin for s's reader.
Request(items) == Write(Speaks, "MATRIX_ID", known.ID) \o FlattenSeq(items)
ItemsAt(m, body) == Read(m, "MATRIX_ID", body, 1).next

\* There is none to a request whose reading throws.
Answer(ok, fields) == IF ok THEN fields ELSE <<>>

\* receive_matrix_blocks; the answer says how many blocks it has read.
ReceiveBlocks(w, split) ==
    /\ Connected(w) /\ sent[w] = "no" /\ Blocks(w, split) # <<>>
    /\ \E bs \in {Blocks(w, split)}, m \in {session[w].read_msg} :
       \E body \in {Request([n \in 1 .. Len(bs) |-> ClientBlock(bs[n], Values(bs[n]))])} :
       \E in \in {MatrixBlocks(m, body, ItemsAt(m, body))} :
       \E out \in {WriteAll(session[w].write_msg,
                            <<<<"UINT16", Read(m, "MATRIX_ID", body, 1).v>>,
                              <<"UINT32", Len(in.v)>>>>)} :
          /\ IF in.ok
             THEN Store(w, FlattenSeq([n \in 1 .. Len(in.v) |->
                              [k \in 1 .. Len(Visits(in.v[n])) |->
                                  <<Visits(in.v[n])[k], ReadNext(in.v[n], body, k)>>]]))
             ELSE UNCHANGED store
          /\ fault' = (~ in.ok \/ ReadAll(Speaks, <<"UINT16", "UINT32">>, out, 1)
                                    # [v |-> <<known.ID, Len(bs)>>, next |-> Len(out) + 1])
    /\ sent' = [sent EXCEPT ![w] = "blocks"]
    /\ UNCHANGED <<shape, client, session, invalid, info, peers, known, fetched, task>>

\* The block that answers the one that asks, a new one without the empty flag.
BlockOf(w, b) ==
    LET new == [rows |-> b.rows, cols |-> b.cols, empty |-> FALSE]
        V   == Visits(b)
        m   == session[w].write_msg
    IN  WriteMatrixBlock(m, new, [k \in 1 .. Len(V) |-> WriteNext(m, GetValue(w, V[k][1], V[k][2]))])

\* What the client finds in a block of an answer.
Found(b, out) == {<<Visits(b)[k], InBlock(out[b.start + k - 1].v)>> : k \in 1 .. Len(Visits(b))}

\* What client w has fetched, unless an answer could not be read.
Fetch(w, as, ok, entries) ==
    /\ fault' = ~ ok
    /\ fetched' = [fetched EXCEPT ![w] = [as |-> as, entries |-> IF ok THEN entries ELSE {}]]

\* send_matrix_blocks: the entries of the blocks that are asked for.
SendBlocks(w, split) ==
    /\ Connected(w) /\ sent[w] # "no" /\ fetched[w].as = "no"
    /\ \E bs \in {Blocks(w, split)}, m \in {session[w].read_msg} :
       \E body \in {Request([n \in 1 .. Len(bs) |-> ClientRequest(bs[n])])} :
       \E in \in {MatrixBlocks(m, body, ItemsAt(m, body))} :
       \E out \in {Answer(in.ok,
                      Write(session[w].write_msg, "MATRIX_ID", Read(m, "MATRIX_ID", body, 1).v)
                        \o FlattenSeq([n \in 1 .. Len(in.v) |-> BlockOf(w, in.v[n])]))} :
       \E got \in {MatrixBlocks(Speaks, out, ItemsAt(Speaks, out))} :
           Fetch(w, "blocks", in.ok /\ got.ok /\ Len(got.v) = Len(bs),
                 UNION {Found(got.v[n], out) : n \in 1 .. Len(got.v)})
    /\ UNCHANGED <<shape, client, session, invalid, info, peers, known, store, sent, task>>

\* Rows go to a worker that has all columns; the client knows by the layout.
HasRows == Distributions[known.l][2] \in {"STAR", "CIRC"}
RowsOf(w) == IF Blocks(w, FALSE) = <<>> THEN <<>> ELSE Steps(Blocks(w, FALSE)[1].rows)

\* handle_send_indexed_rows
ReceiveRows(w) ==
    /\ Connected(w) /\ sent[w] = "no" /\ HasRows /\ RowsOf(w) # <<>>
    /\ \E rows \in {RowsOf(w)}, m \in {session[w].read_msg} :
       \E body \in {Request([n \in 1 .. Len(rows) |->
                        WriteIndexedRow(Speaks, rows[n],
                            [k \in 1 .. known.num_cols |-> Entry(rows[n], k - 1)])])} :
       \E in \in {IndexedRows(m, body, ItemsAt(m, body))} :
       \E out \in {WriteAll(session[w].write_msg,
                            <<<<"MATRIX_ID", Read(m, "MATRIX_ID", body, 1).v>>,
                              <<"UINT64", Len(in.v)>>>>)} :
          /\ IF in.ok
             THEN Store(w, FlattenSeq([n \in 1 .. Len(in.v) |->
                              [k \in 1 .. Len(in.v[n].values) |->
                                  <<<<in.v[n].row, k - 1>>, in.v[n].values[k]>>]]))
             ELSE UNCHANGED store
          /\ fault' = (~ in.ok \/ ReadAll(Speaks, <<"MATRIX_ID", "UINT64">>, out, 1)
                                    # [v |-> <<known.ID, Len(rows)>>, next |-> Len(out) + 1])
    /\ sent' = [sent EXCEPT ![w] = "rows"]
    /\ UNCHANGED <<shape, client, session, invalid, info, peers, known, fetched, task>>

\* handle_request_indexed_rows: as many entries of a row as there are local columns.
SendRows(w) ==
    /\ Connected(w) /\ sent[w] # "no" /\ fetched[w].as = "no" /\ HasRows
    /\ \E rows \in {RowsOf(w)}, m \in {session[w].read_msg} :
       \E body \in {Request([n \in 1 .. Len(rows) |-> Write(Speaks, "UINT64", rows[n])])} :
       \E in \in {Items(LAMBDA b, q : Read(m, "UINT64", b, q), body, ItemsAt(m, body))} :
       \E out \in {Answer(in.ok,
                      Write(session[w].write_msg, "MATRIX_ID", Read(m, "MATRIX_ID", body, 1).v)
                        \o FlattenSeq([n \in 1 .. Len(in.v) |->
                              WriteIndexedRow(session[w].write_msg, in.v[n],
                                  [k \in 1 .. LocalCol(w, shape.cols) |->
                                      GetValue(w, in.v[n], k - 1)])]))} :
       \E got \in {IndexedRows(Speaks, out, ItemsAt(Speaks, out))} :
           Fetch(w, "rows", in.ok /\ got.ok /\ Len(got.v) = Len(rows),
                 UNION {{<<<<r.row, k - 1>>, r.values[k]>> : k \in 1 .. Len(r.values)} :
                           r \in {got.v[n] : n \in 1 .. Len(got.v)}})
    /\ UNCHANGED <<shape, client, session, invalid, info, peers, known, store, sent, task>>

-----------------------------------------------------------------------------
(* A task.                                                                   *)

\* One parameter of each type the client has, with the largest values there are.
Parameters ==
    LET types == SelectSeq(<<"BYTE", "CHAR", "INT8", "INT16", "INT32", "INT64", "UINT8", "UINT16",
                             "UINT32", "UINT64", "FLOAT", "DOUBLE", "STRING", "MATRIX_ID">>,
                           LAMBDA dt : dt = OnWire(Speaks, dt))
    IN  [k \in 1 .. Len(types) |->
            [name |-> "p", dt |-> types[k],
             p |-> CASE types[k] \in SignedTypes         -> -1
                     [] types[k] = "MATRIX_ID"           -> 1
                     [] types[k] \in {"FLOAT", "DOUBLE"} -> Host(<<"3.14">>)
                     [] types[k] = "STRING"              -> "text"
                     [] OTHER                            -> Byte ^ Bytes[types[k]] - 1]]

\* What a task returns: numbers of the types that libraries use, and a matrix.
Results == <<[name |-> "n", dt |-> "UINT64", p |-> Byte ^ 8 - 1],
             [name |-> "i", dt |-> "INT32", p |-> -1],
             [name |-> "d", dt |-> "DOUBLE", p |-> Host(<<"2.72">>)],
             [name |-> "A", dt |-> "MATRIX_INFO", p |-> info]>>

\* The parameters of a request to run a task, behind the library and the name.
InParameters(m, body) ==
    DeserializeParameters(m, ParameterTypes, body,
                          ReadAll(m, <<"LIBRARY_ID", "STRING">>, body, 1).next)

\* What a worker makes of the body and of the one setting that it gets with it.
WorkersMessage(m) == [NewMessage EXCEPT !.reverse_floats = m.reverse_floats]

\* run_task in the driver and in the workers, and the driver's answer.
RunTask ==
    /\ info # NoMatrix /\ task = NoTask
    /\ \E m \in {session[Driver].read_msg},
          body \in {WriteAll(Speaks, <<<<"LIBRARY_ID", 2>>, <<"STRING", "task">>>>)
                       \o SerializeParameters(Speaks, Parameters)},
          out \in {SerializeParameters(session[Driver].write_msg, Results)} :
       \E driver \in {InParameters(m, body)},
          worker \in {InParameters(WorkersMessage(m), body)},
          got \in {DeserializeParameters(Speaks, ParameterTypes \cup {"MATRIX_INFO"}, out, 1)} :
          /\ task' = [sent |-> Parameters, driver |-> driver.v, worker |-> worker.v,
                      result |-> Results, returned |-> got.v]
          /\ fault' = (fault \/ ~ driver.ok \/ ~ worker.ok \/ ~ got.ok)
    /\ UNCHANGED <<shape, client, session, invalid, info, peers, known, store, sent, fetched>>

Next ==
    \/ \E p \in DOMAIN session, wrong \in {"nothing", "word", "double", "block"} :
           ShakeHands(p, wrong)
    \/ RequestWorkers
    \/ CreateMatrix
    \/ \E w \in Workers, split \in BOOLEAN : ReceiveBlocks(w, split) \/ SendBlocks(w, split)
    \/ \E w \in Workers : ReceiveRows(w) \/ SendRows(w)
    \/ RunTask

Spec == Init /\ [][Next]_vars

-----------------------------------------------------------------------------
(* Properties.                                                               *)

\* Blocks mean the same to client and server if their doubles are in the other
\* order exactly where the server turns them: for a Scala client, with its numbers.
Understood == client.foreign_blocks = (client.cl = "SCALA" /\ client.foreign)

\* The local index of each entry that worker w has, and the entry's own.
Held(w) == {<<e, <<Shifts(w)[1] + e[1] * Strides[1], Shifts(w)[2] + e[2] * Strides[2]>>>> :
                e \in LocalIndices(w)}

\* Every message is read to its end as what it was written as: the readers of
\* Message.hpp agree with its writers for every language, byte order and matrix,
\* where one names a length twice (a block's size and its loops, a grid's places
\* and its workers) or says INT for UINT.
ReadAsWritten == ~ fault

\* After a valid handshake both messages of the session are set as the client
\* writes and reads, whatever handshakes failed on the connection before.
SettingsAgree ==
    \A p \in DOMAIN session : session[p].ready =>
        session[p].read_msg = Speaks /\ session[p].write_msg = Speaks

\* Once a worker has acknowledged the client's entries, what Elemental holds at each
\* of its local places is the number the client meant for it: the grid and layout
\* that the driver told the client, the order of a block's loops and the bytes all
\* agree.  Blocks of clients that are not Understood are stored turned.
EntriesArrive ==
    \A w \in Workers : sent[w] = "rows" \/ (sent[w] = "blocks" /\ Understood) =>
        \A h \in Held(w) : store[w][h[1]] = Entry(h[2][1], h[2][2])

\* A client gets back from a worker what it has sent to it, by the way it came for
\* any client, by either way for one that is Understood.
FetchedIsSent ==
    \A w \in Workers :
        /\ fetched[w].as # "no"
        /\ fetched[w].as = sent[w] \/ Understood
        => fetched[w].entries = {<<h[2], Entry(h[2][1], h[2][2])>> : h \in Held(w)}

\* A task gets the same parameters in the driver and in the workers, whose messages
\* are not set for the client's language, and the client gets what it returns.
ParametersAgree ==
    LET Signless(ps) == [k \in DOMAIN ps |->
            IF client.cl \in SignedLanguages /\ ps[k].dt \in DOMAIN SignedForm
            THEN [ps[k] EXCEPT !.dt = SignedForm[@], !.p = Signed(@, Bytes[ps[k].dt])]
            ELSE ps[k]]
    IN  /\ task.driver = task.sent
        /\ task.worker = task.sent
        /\ task.returned = Signless(task.result)

=============================================================================
