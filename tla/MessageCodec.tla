----------------------------- MODULE MessageCodec -----------------------------
(***************************************************************************)
(* The messages between a client and the driver or a worker (Message.hpp): *)
(* what each put_* and write_* appends to a body and what each get_* and   *)
(* read_* takes from it, under the settings a session has agreed on with   *)
(* its client.                                                             *)
(*                                                                         *)
(* A body is a sequence of fields.  A field has a kind, a length in bytes  *)
(* and a value; a reader that expects another kind or length than the      *)
(* field at its position has gets garbage, as one has whose datatype check *)
(* throws: both are a failed read, and what follows fails with it.         *)
(* Positions are indices of fields.  A double is the number it stands for  *)
(* and whether its bytes are in the order opposite to this host's.         *)
(*                                                                         *)
(* Integers have their width and their sign, over a byte of Byte values    *)
(* (256 in the code).  Strings are shorter than 2^16 and have no NUL.      *)
(***************************************************************************)
EXTENDS Integers, Sequences, SequencesExt

CONSTANT Byte   \* values of a byte (a bound: 8 bytes must fit the integers of TLC)

ASSUME ByteAssumption == Byte \in Nat \ {0} /\ Byte % 2 = 0

-----------------------------------------------------------------------------
(* Settings of a Message.                                                    *)

SignedLanguages == {"SCALA", "JAVA", "PYTHON", "JULIA"}

NewMessage == [cl |-> "C", signed_ints_only |-> FALSE, reverse_floats |-> FALSE]

SetClientLanguage(m, cl) ==
    [m EXCEPT !.cl = cl, !.signed_ints_only = cl \in SignedLanguages]

-----------------------------------------------------------------------------
(* Integers and doubles.                                                     *)

Bits(x, bytes)   == x % (Byte ^ bytes)
Signed(x, bytes) == IF x < (Byte ^ bytes) \div 2 THEN x ELSE x - Byte ^ bytes

Host(x)    == [x |-> x, swapped |-> FALSE]
Nothing    == Host(<<"nothing">>)
Swap(d) == [d EXCEPT !.swapped = ~ @]

-----------------------------------------------------------------------------
(* Datatypes: the length of each integer type and, in a message to or from a *)
(* client that has no unsigned integers, the type that stands in for it.     *)

Bytes == [BYTE |-> 1, CHAR |-> 1, INT8 |-> 1, INT16 |-> 2, INT32 |-> 4, INT64 |-> 8,
          UINT8 |-> 1, UINT16 |-> 2, UINT32 |-> 4, UINT64 |-> 8,
          LIBRARY_ID |-> 1, GROUP_ID |-> 2, WORKER_ID |-> 2, MATRIX_ID |-> 2]

Integral    == DOMAIN Bytes
SignedTypes == {"CHAR", "INT8", "INT16", "INT32", "INT64"}
SignedForm  == [UINT8 |-> "INT8", UINT16 |-> "INT16", UINT32 |-> "INT32", UINT64 |-> "INT64"]

OnWire(m, dt) ==
    IF m.signed_ints_only /\ dt \in DOMAIN SignedForm THEN SignedForm[dt] ELSE dt

-----------------------------------------------------------------------------
(* Writing: the fields that are appended.                                    *)

Field(kind, bytes, v) == <<[type |-> <<kind, bytes>>, v |-> v]>>

PutDatatype(dt) == Field("datatype", 1, dt)

PutInt(m, x, bytes) ==
    Field("int", bytes,
          Bits(IF m.signed_ints_only THEN Signed(Bits(x, bytes), bytes) ELSE x, bytes))

PutFloat(m, d, bytes) == Field("float", bytes, IF m.reverse_floats THEN Swap(d) ELSE d)

PutString(m, s) == PutInt(m, Len(s), 2) \o Field("chars", Bits(Len(s), 2), s)

PutInts(m, xs, bytes) == FlattenSeq([k \in 1 .. Len(xs) |-> PutInt(m, xs[k], bytes[k])])

PutWorkerInfo(m, x) ==
    PutInt(m, x.ID, 2) \o PutString(m, x.hostname) \o PutString(m, x.address)
        \o PutInts(m, <<x.port, x.groupID>>, <<2, 2>>)

\* The grid is a std::map: its workers come in the order of their IDs.
PutMatrixInfo(m, x) ==
    LET order == SetToSortSeq(DOMAIN x.grid, <)
    IN  PutInt(m, x.ID, 2) \o PutString(m, x.name)
          \o PutInts(m, <<x.num_rows, x.num_cols, x.sparse, x.l, x.num_grid_rows, x.num_grid_cols>>,
                     <<8, 8, 1, 1, 2, 2>>)
          \o FlattenSeq([k \in 1 .. Len(order) |->
                 PutInts(m, <<order[k], x.grid[order[k]].row, x.grid[order[k]].col>>, <<2, 2, 2>>)])

-----------------------------------------------------------------------------
(* Mutated forms of operators below, each a slip this code could have had;   *)
(* the properties of the modules that use this one are tested against them.  *)

\* The entries of a block that goes to the client are never turned ...
WriteNextAsIs(m, d) == d

\* ... or those of one that comes from it; d is what the message has.
TurnNever(b, d) == d

\* The entries of a block are expected whether it is empty or not.
HasEntries(b) == TRUE

-----------------------------------------------------------------------------
(* Matrix blocks: rows and columns are <<first, last, step>>.                *)

CeilDiv(a, b) == (a + b - 1) \div b

\* MatrixBlock::size
Size(b) == CeilDiv(b.rows[2] - b.rows[1] + 1, b.rows[3]) *
           CeilDiv(b.cols[2] - b.cols[1] + 1, b.cols[3])

\* The entries in the order in which the sessions' loops go through a block.
Steps(r) == [k \in 1 .. (IF r[1] <= r[2] THEN (r[2] - r[1]) \div r[3] + 1 ELSE 0) |->
                r[1] + (k - 1) * r[3]]

Visits(b) ==
    LET i == Steps(b.rows)
        j == Steps(b.cols)
    IN  [k \in 1 .. Len(i) * Len(j) |->
            <<i[((k - 1) \div Len(j)) + 1], j[((k - 1) % Len(j)) + 1]>>]

ReversesBlocks(m) == m.cl = "SCALA" /\ m.reverse_floats

\* What write_next puts in a block that goes to the client.
WriteNext(m, d) == IF ReversesBlocks(m) THEN Swap(d) ELSE d

\* put_MatrixBlock reserves the block's entries, write_next fills them in turn.
PutMatrixBlock(m, b, values) ==
    PutInts(m, b.rows \o b.cols \o <<IF b.empty THEN 0 ELSE 1>>, <<8, 8, 8, 8, 8, 8, 1>>)
        \o FlattenSeq([k \in 1 .. Size(b) |->
               Field("float", 8, IF k <= Len(values) THEN values[k] ELSE Nothing)])

-----------------------------------------------------------------------------
(* write_*: a datatype and a value.                                          *)

Write(m, dt, x) ==
    PutDatatype(OnWire(m, dt)) \o
    CASE dt \in Integral     -> Field("int", Bytes[dt], Bits(x, Bytes[dt]))
      [] dt = "FLOAT"        -> PutFloat(m, x, 4)
      [] dt = "DOUBLE"       -> PutFloat(m, x, 8)
      [] dt = "STRING"       -> PutString(m, x)
      [] dt = "WORKER_INFO"  -> PutWorkerInfo(m, x)
      [] dt = "MATRIX_INFO"  -> PutMatrixInfo(m, x)

WriteAll(m, typed) == FlattenSeq([k \in 1 .. Len(typed) |-> Write(m, typed[k][1], typed[k][2])])

WriteMatrixBlock(m, b, values) == PutDatatype("MATRIX_BLOCK") \o PutMatrixBlock(m, b, values)

\* write_IndexedRow and the put_double of each entry.
WriteIndexedRow(m, row, values) ==
    PutDatatype("INDEXED_ROW")
        \o Field("int", 8, Bits(row, 8)) \o Field("int", 8, Bits(Len(values), 8))
        \o FlattenSeq([k \in 1 .. Len(values) |-> PutFloat(m, values[k], 8)])

\* The header in front of a body, once it is finished.
BodyLength(body) ==
    LET UpTo[k \in 0 .. Len(body)] == IF k = 0 THEN 0 ELSE UpTo[k - 1] + body[k].type[2]
    IN  UpTo[Len(body)]

PutHeader(m, x) ==
    PutInts(m, <<x.clientID, x.sessionID>>, <<2, 2>>)
        \o Field("command", 1, x.cc) \o Field("error", 1, x.ec) \o PutInt(m, x.body_length, 4)

\* GroupDriver::serialize_parameters
SerializeParameters(m, params) ==
    FlattenSeq([k \in 1 .. Len(params) |->
        PutDatatype("PARAMETER") \o Write(m, "STRING", params[k].name)
            \o Write(m, params[k].dt, params[k].p)])

-----------------------------------------------------------------------------
(* Reading, from position p: the value and the position behind it; 0 after a *)
(* failed read, where every read fails.                                      *)

Failed   == [v |-> "nothing", next |-> 0]
eom(body, p) == p > Len(body)

Fits(body, p, types) ==
    /\ p > 0 /\ p + Len(types) - 1 <= Len(body)
    /\ \A k \in 1 .. Len(types) : body[p + k - 1].type = types[k]

\* check_datatype, which throws unless the datatype is the expected one.
CheckDatatype(body, p, dt) ==
    IF Fits(body, p, <<<<"datatype", 1>>>>) /\ body[p].v = dt THEN p + 1 ELSE 0

PreviewDatatype(body, p) == IF Fits(body, p, <<<<"datatype", 1>>>>) THEN body[p].v ELSE "NONE"

\* Integers of these lengths, each cast back to unsigned.
GetInts(m, body, p, bytes) ==
    IF ~ Fits(body, p, [k \in 1 .. Len(bytes) |-> <<"int", bytes[k]>>]) THEN Failed
    ELSE [v |-> [k \in 1 .. Len(bytes) |->
                    LET x == body[p + k - 1].v
                    IN  Bits(IF m.signed_ints_only THEN Signed(x, bytes[k]) ELSE x, bytes[k])],
          next |-> p + Len(bytes)]

GetFloat(m, body, p, bytes) ==
    IF ~ Fits(body, p, <<<<"float", bytes>>>>) THEN Failed
    ELSE [v |-> IF m.reverse_floats THEN Swap(body[p].v) ELSE body[p].v, next |-> p + 1]

GetString(m, body, p) ==
    LET length == GetInts(m, body, p, <<2>>)
    IN  IF length.next > 0 /\ Fits(body, length.next, <<<<"chars", length.v[1]>>>>)
        THEN [v |-> body[length.next].v, next |-> length.next + 1]
        ELSE Failed

GetWorkerInfo(m, body, p) ==
    LET ID       == GetInts(m, body, p, <<2>>)
        hostname == GetString(m, body, ID.next)
        address  == GetString(m, body, hostname.next)
        rest     == GetInts(m, body, address.next, <<2, 2>>)
    IN  IF rest.next = 0 THEN Failed
        ELSE [v |-> [ID |-> ID.v[1], hostname |-> hostname.v, address |-> address.v,
                     port |-> rest.v[1], groupID |-> rest.v[2]],
              next |-> rest.next]

\* As many workers are read as the process grid has places.
Places(dims) == dims[5] * dims[6]

MatrixInfo(ID, name, dims, g) ==
    LET ranks == {3 * k - 2 : k \in 1 .. Places(dims)}
    IN  [ID |-> ID, name |-> name, num_rows |-> dims[1], num_cols |-> dims[2], sparse |-> dims[3],
         l |-> dims[4], num_grid_rows |-> dims[5], num_grid_cols |-> dims[6],
         grid |-> [w \in {g[k] : k \in ranks} |->
                      LET k == CHOOSE i \in ranks : g[i] = w
                      IN  [row |-> g[k + 1], col |-> g[k + 2]]]]

GetMatrixInfo(m, body, p) ==
    LET ID   == GetInts(m, body, p, <<2>>)
        name == GetString(m, body, ID.next)
        dims == GetInts(m, body, name.next, <<8, 8, 1, 1, 2, 2>>)
        g    == GetInts(m, body, dims.next, [k \in 1 .. 3 * Places(dims.v) |-> 2])
    IN  IF dims.next = 0 \/ g.next = 0 THEN Failed
        ELSE [v |-> MatrixInfo(ID.v[1], name.v, dims.v, g.v), next |-> g.next]

\* A block that is empty has no entries behind it, whatever its size.
Filled(b) == ~ b.empty

MatrixBlock(m, h, start) ==
    [rows |-> SubSeq(h, 1, 3), cols |-> SubSeq(h, 4, 6), empty |-> h[7] = 0,
     reverse_floats |-> ReversesBlocks(m), start |-> start]

Entries(b, body) ==
    IF ~ Filled(b) THEN [v |-> b, next |-> b.start]
    ELSE IF Fits(body, b.start, [k \in 1 .. Size(b) |-> <<"float", 8>>])
         THEN [v |-> b, next |-> b.start + Size(b)]
    ELSE Failed

GetMatrixBlock(m, body, p) ==
    LET h == GetInts(m, body, p, <<8, 8, 8, 8, 8, 8, 1>>)
    IN  IF h.next = 0 THEN Failed ELSE Entries(MatrixBlock(m, h.v, h.next), body)

Turn(b, d) == IF b.reverse_floats THEN Swap(d) ELSE d

\* What the k-th read_next puts in the caller's variable, which keeps its value
\* when the block is at its end.
ReadNext(b, body, k) ==
    Turn(b, body[b.start + (IF k <= Size(b) THEN k ELSE Size(b)) - 1].v)

\* decode_header; its fields have fixed places and no datatypes.
DecodeHeader(m, header) ==
    LET IDs    == GetInts(m, header, 1, <<2, 2>>).v
        length == GetInts(m, header, 5, <<4>>).v
    IN  [clientID |-> IDs[1], sessionID |-> IDs[2], cc |-> header[3].v, ec |-> header[4].v,
         body_length |-> length[1]]

-----------------------------------------------------------------------------
(* read_*: the datatype is checked, then the value is taken.                 *)

Read(m, dt, body, p) ==
    LET q == CheckDatatype(body, p, OnWire(m, dt))
        n == GetInts(m, body, q, <<Bytes[dt]>>)
    IN  CASE dt \in Integral     ->
                IF n.next = 0 THEN Failed
                ELSE [v |-> IF dt \in SignedTypes THEN Signed(n.v[1], Bytes[dt]) ELSE n.v[1],
                      next |-> n.next]
          [] dt = "FLOAT"        -> GetFloat(m, body, q, 4)
          [] dt = "DOUBLE"       -> GetFloat(m, body, q, 8)
          [] dt = "STRING"       -> GetString(m, body, q)
          [] dt = "WORKER_INFO"  -> GetWorkerInfo(m, body, q)
          [] dt = "MATRIX_INFO"  -> GetMatrixInfo(m, body, q)
          [] dt = "MATRIX_BLOCK" -> GetMatrixBlock(m, body, q)
          [] OTHER               -> Failed

\* Values of these datatypes, one behind the other.
ReadAll(m, dts, body, p) ==
    FoldLeft(LAMBDA r, dt : LET x == Read(m, dt, body, r.next)
                            IN  [v |-> Append(r.v, x.v), next |-> x.next],
             [v |-> <<>>, next |-> p], dts)

\* A row: its index, and its entries.
ReadIndexedRow(m, body, p) ==
    LET q      == CheckDatatype(body, p, "INDEXED_ROW")
        h      == GetInts(m, body, q, <<8, 8>>)
        values == [k \in 1 .. h.v[2] |-> GetFloat(m, body, h.next + k - 1, 8)]
    IN  IF h.next > 0 /\ \A k \in 1 .. h.v[2] : values[k].next > 0
        THEN [v |-> [row |-> h.v[1], values |-> [k \in 1 .. h.v[2] |-> values[k].v]],
              next |-> h.next + h.v[2]]
        ELSE Failed

FirstAndRest(v, rest) == [v |-> <<v>> \o rest.v, ok |-> rest.ok]

\* All that is in the body from p on, as a loop up to eom() reads it item by item.
Items(item(_, _), body, start) ==
    LET From[p \in 0 .. Len(body) + 1] ==
            IF p = 0 THEN [v |-> <<>>, ok |-> FALSE]
            ELSE IF eom(body, p) THEN [v |-> <<>>, ok |-> TRUE]
            ELSE LET x == item(body, p)
                 IN  FirstAndRest(x.v, From[x.next])
    IN  From[start]

MatrixBlocks(m, body, p) == Items(LAMBDA b, q : Read(m, "MATRIX_BLOCK", b, q), body, p)
IndexedRows(m, body, p)  == Items(LAMBDA b, q : ReadIndexedRow(m, b, q), body, p)

\* The datatypes that a parameter of a task may have.
ParameterTypes == (Integral \ {"LIBRARY_ID", "GROUP_ID", "WORKER_ID"})
                     \cup {"FLOAT", "DOUBLE", "STRING"}

\* deserialize_parameters: the type of a parameter is the one on the wire.
DeserializeParameters(m, types, body, p) ==
    LET Value(name, dt, x) == [v |-> [name |-> name, dt |-> dt, p |-> x.v], next |-> x.next]
        Typed(b, name, dt) ==
            Value(name.v, dt, IF dt \in types THEN Read(m, dt, b, name.next) ELSE Failed)
        Named(b, name) == Typed(b, name, PreviewDatatype(b, name.next))
        Parameter(b, q) == Named(b, Read(m, "STRING", b, CheckDatatype(b, q, "PARAMETER")))
    IN  Items(Parameter, body, p)

=============================================================================
