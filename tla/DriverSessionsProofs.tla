------------------------- MODULE DriverSessionsProofs -------------------------
(***************************************************************************)
(* Machine-checked proofs about DriverSessions, for any clients, commands  *)
(* and requests: a client that waits for its answers takes each of them    *)
(* whole and is never refused, whatever the others do, and so does one     *)
(* that does not wait as long as its socket has room.                      *)
(***************************************************************************)
EXTENDS DriverSessions, SequenceTheorems, TLAPS

Given       == UNION {Commands[c] : c \in Clients}
Requests    == [n: Nat, cmd: Given, sid: Int]
Asks        == [n: Nat, cmd: Given \cup {"WAIT"}]
Takes       == [n: Nat, part: 0 .. 2]
Stamps      == [n: Nat, sid: Int]
Sent        == [n: Nat, sid: Int, part: 1 .. 2]
Ops         == [part: 1 .. 2, of: 1 .. 2, sid: Nat]
Nexts       == [part: 2 .. 3, of: 1 .. 2, sid: Nat]
Completions == [kind: {"header", "body"}, c: Clients, op: {<<>>}]
                   \cup [kind: {"write"}, c: Clients, op: Nexts]

Types ==
    /\ sessionID \in [Clients -> Nat] /\ reading \in [Clients -> BOOLEAN]
    /\ data \in [Clients -> Stamps \X Stamps]
    /\ writes \in [Clients -> Seq(Ops)] /\ queue \in Seq(Completions)
    /\ busy = [c |-> NoClient] \/ busy \in [c: Clients, r: Requests]
    /\ inbox \in [Clients -> Seq(Requests)]
    /\ wire \in [Clients -> Seq(Sent)] /\ due = [c \in Clients |-> due[c]]
    /\ asked \in [Clients -> Asks]
    /\ known \in [Clients -> Int] /\ taken \in [Clients -> Takes]
    /\ gone \in [Clients -> BOOLEAN] /\ whole \in [Clients -> BOOLEAN]
    /\ waited \in [Clients -> BOOLEAN] /\ refused \in [Clients -> BOOLEAN]

-----------------------------------------------------------------------------
(* A session is in one place of its chain of handlers: it waits for a        *)
(* header, has a completion in the queue for the request it has found, or    *)
(* waits with the thread for the workers.                                    *)
Reads(x, c) == x.kind \in {"header", "body"} /\ x.c = c

ChainOf(c) ==
    /\ \A i, j \in DOMAIN queue : Reads(queue[i], c) /\ Reads(queue[j], c) => i = j
    /\ (\E i \in DOMAIN queue : Reads(queue[i], c)) =>
           ~ reading[c] /\ busy.c # c /\ inbox[c] # <<>>
    /\ busy.c = c => ~ reading[c] /\ busy.r.cmd \in Blocking

\* A completion after which a write goes on, and the writes of c that have parts to send.
Sends(x, c) == x.kind = "write" /\ x.c = c /\ x.op.part <= x.op.of

Open == [c \in Clients |-> {writes[c][i] : i \in DOMAIN writes[c]}
                               \cup {queue[i].op : i \in {j \in DOMAIN queue : Sends(queue[j], c)}}]

\* The parts that a write has yet to send from buffer b.
Stamped(b, k) == [n |-> b[k].n, sid |-> b[k].sid, part |-> k]

Left(b, op) ==
    IF op.part > op.of THEN <<>>
    ELSE IF op.part = op.of THEN <<Stamped(b, op.part)>>
    ELSE <<Stamped(b, op.part), Stamped(b, op.part + 1)>>

(* A client to whom what is said in AnswersWhole is promised is sent one     *)
(* answer at a time: what is due to it is on the wire or yet to be sent by   *)
(* the one write, from the buffer in which it was written.                   *)
Promised(c) == ~ gone[c] /\ (c \notin Eager \/ ~ waited[c])

OneWriteOf(c) ==
    Promised(c) =>
        /\ due[c] \in Seq(Sent)
        /\ \A i, j \in DOMAIN queue : Sends(queue[i], c) /\ Sends(queue[j], c) => i = j
        /\ writes[c] # <<>> => /\ Len(writes[c]) = 1 /\ writes[c][1].part <= writes[c][1].of
                               /\ \A i \in DOMAIN queue : ~ Sends(queue[i], c)
                               /\ c \notin Eager
        /\ \A op \in Open[c] : op.sid = sessionID[c] /\ due[c] = wire[c] \o Left(data[c], op)
        /\ Open[c] = {} => due[c] = wire[c]

(* Nothing is begun for an eager client before its last answer is sent: the  *)
(* completion of a part that has found room is ahead of the next request.    *)
InOrderOf(c) ==
    c \in Eager /\ Promised(c) =>
        /\ busy.c = c => Open[c] = {}
        /\ \A i, j \in DOMAIN queue : Sends(queue[i], c) /\ Reads(queue[j], c) => i < j

(* What a patient client has asked is on its way, held up, or being          *)
(* answered; only requests that are not answered are before it.              *)
Portion(c, k) == [n |-> asked[c].n, sid |-> sessionID[c], part |-> k]

PatienceOf(c) ==
    c \notin Eager =>
        /\ ~ gone[c] /\ taken[c].n <= asked[c].n
        /\ \A i \in DOMAIN inbox[c] :
               /\ inbox[c][i].cmd \in Handshakes \/ inbox[c][i].sid = sessionID[c]
               /\ i # Len(inbox[c]) => Silent(inbox[c][i].cmd)
               /\ i = Len(inbox[c]) => inbox[c][i].n = asked[c].n /\ inbox[c][i].cmd = asked[c].cmd
        /\ inbox[c] # <<>> => taken[c].n < asked[c].n \/ Silent(asked[c].cmd)
        /\ busy.c = c => /\ inbox[c] = <<>> /\ taken[c].n < asked[c].n
                         /\ due[c] = <<>>
                         /\ busy.r.n = asked[c].n /\ busy.r.cmd = asked[c].cmd
        /\ due[c] = <<>> => known[c] \in {Unknown, sessionID[c]}
        /\ due[c] # <<>> =>
               /\ inbox[c] = <<>> /\ ~ Silent(asked[c].cmd)
               /\ \/ /\ Parts(asked[c].cmd) = 1 /\ due[c] = <<Portion(c, 1)>>
                     /\ taken[c].n < asked[c].n
                  \/ /\ Parts(asked[c].cmd) = 2 /\ due[c] = <<Portion(c, 1), Portion(c, 2)>>
                     /\ taken[c].n < asked[c].n
                  \/ /\ Parts(asked[c].cmd) = 2 /\ due[c] = <<Portion(c, 2)>>
                     /\ taken[c] = [n |-> asked[c].n, part |-> 1] /\ known[c] = sessionID[c]

KeptOf(c) == (c \notin Eager \/ ~ waited[c] => whole[c]) /\ (c \notin Eager => ~ refused[c])

Has(c) == ChainOf(c) /\ OneWriteOf(c) /\ InOrderOf(c) /\ PatienceOf(c) /\ KeptOf(c)

Inv == Types /\ \A c \in Clients : Has(c)

-----------------------------------------------------------------------------
(* Sequences.                                                                *)
LEMMA Sequence ==
    ASSUME NEW S, NEW s \in Seq(S), NEW x \in S
    PROVE  /\ s \o <<x>> \in Seq(S) /\ Append(s, x) \in Seq(S) /\ s \o <<x>> = Append(s, x)
           /\ Len(Append(s, x)) = Len(s) + 1 /\ DOMAIN s = 1 .. Len(s) /\ Len(s) \in Nat
           /\ \A i \in 1 .. Len(s) : Append(s, x)[i] = s[i] /\ s[i] \in S
           /\ Append(s, x)[Len(s) + 1] = x /\ Append(s, x) # <<>>
  <1>1. s \o <<x>> = Append(s, x)
    OBVIOUS
  <1> QED
    BY <1>1

LEMMA Popping ==
    ASSUME NEW S, NEW s \in Seq(S), s # <<>>
    PROVE  /\ Tail(s) \in Seq(S) /\ Len(Tail(s)) = Len(s) - 1 /\ Head(s) = s[1] /\ Head(s) \in S
           /\ Len(s) \in Nat /\ Len(s) # 0 /\ 1 \in DOMAIN s
           /\ \A i \in 1 .. Len(s) - 1 : Tail(s)[i] = s[i + 1]
           /\ Len(s) = 1 => Tail(s) = <<>>
           /\ Len(s) # 1 => Tail(s) # <<>>
  <1>1. Len(s) \in Nat /\ Len(s) # 0 /\ DOMAIN s = 1 .. Len(s)
    BY EmptySeq, LenProperties
  <1>2. Tail(s) \in Seq(S) /\ Len(Tail(s)) = Len(s) - 1
    BY HeadTailProperties
  <1>3. Head(s) = s[1] /\ Head(s) \in S
    BY <1>1, ElementOfSeq
  <1>4. \A i \in 1 .. Len(s) - 1 : Tail(s)[i] = s[i + 1]
    BY HeadTailProperties
  <1>5. Tail(s) = <<>> <=> Len(Tail(s)) = 0
    BY <1>2, EmptySeq
  <1> QED
    BY <1>1, <1>2, <1>3, <1>4, <1>5

LEMMA JoinedOne ==
    ASSUME NEW s \in Seq(Sent), NEW a \in Sent
    PROVE  /\ s \o <<a>> = Append(s, a) /\ s \o <<a>> # <<>> /\ s \o <<a>> \in Seq(Sent)
           /\ s # <<>> => Head(s \o <<a>>) = Head(s) /\ Tail(s \o <<a>>) = Tail(s) \o <<a>>
  <1>1. s \o <<a>> = Append(s, a) /\ <<a>> \in Seq(Sent)
    OBVIOUS
  <1>2. Len(s \o <<a>>) = Len(s) + 1 /\ Len(s) \in Nat
    BY <1>1
  <1>3. ASSUME s # <<>>
        PROVE  Head(s \o <<a>>) = Head(s) /\ Tail(s \o <<a>>) = Tail(s) \o <<a>>
    BY <1>1, <1>3, HeadTailProperties, ConcatProperties
  <1> QED
    BY <1>1, <1>2, <1>3

LEMMA JoinedTwo ==
    ASSUME NEW s \in Seq(Sent), NEW a \in Sent, NEW b \in Sent
    PROVE  /\ s \o <<a, b>> = Append(s, a) \o <<b>> /\ s \o <<a, b>> # <<>>
           /\ s \o <<a, b>> \in Seq(Sent)
           /\ s # <<>> => /\ Head(s \o <<a, b>>) = Head(s)
                          /\ Tail(s \o <<a, b>>) = Tail(s) \o <<a, b>>
  <1>1. <<a>> \in Seq(Sent) /\ <<b>> \in Seq(Sent) /\ <<a, b>> \in Seq(Sent)
    OBVIOUS
  <1>2. <<a, b>> = <<a>> \o <<b>>
    <2>1. <<a>> \o <<b>> = Append(<<a>>, b)
      BY <1>1, AppendIsConcat
    <2>2. Append(<<a>>, b) = <<a, b>>
      <3>1. Len(Append(<<a>>, b)) = 2 /\ Append(<<a>>, b)[1] = a /\ Append(<<a>>, b)[2] = b
        BY <1>1, AppendProperties
      <3>2. Append(<<a>>, b) \in Seq(Sent) /\ Len(<<a, b>>) = 2
        BY <1>1, AppendProperties
      <3>3. \A i \in 1 .. 2 : Append(<<a>>, b)[i] = <<a, b>>[i]
        BY <3>1
      <3> QED
        BY <1>1, <3>1, <3>2, <3>3, SeqEqual
    <2> QED
      BY <2>1, <2>2
  <1>3. s \o <<a, b>> = (s \o <<a>>) \o <<b>> /\ s \o <<a>> = Append(s, a)
    BY <1>1, <1>2
  <1>4. Len(s \o <<a, b>>) = Len(s) + 2 /\ Len(s) \in Nat
    BY <1>1
  <1>5. ASSUME s # <<>>
        PROVE  Head(s \o <<a, b>>) = Head(s) /\ Tail(s \o <<a, b>>) = Tail(s) \o <<a, b>>
    BY <1>1, <1>5, HeadTailProperties, ConcatProperties
  <1> QED
    BY <1>1, <1>3, <1>4, <1>5

-----------------------------------------------------------------------------
(* The queue loses its first k completions and gets the new ones at its end. *)
Passed(k, new) ==
    /\ queue' \in Seq(Completions)
    /\ \A i \in DOMAIN queue' :
           \/ i + k \in DOMAIN queue /\ queue'[i] = queue[i + k]
           \/ queue'[i] \in new /\ \A j \in DOMAIN queue' : j <= i
    /\ \A j \in DOMAIN queue : j > k => j - k \in DOMAIN queue' /\ queue'[j - k] = queue[j]
    /\ \A x \in new : \E i \in DOMAIN queue' : queue'[i] = x

LEMMA Domains ==
    ASSUME Types
    PROVE  /\ DOMAIN queue \subseteq Nat /\ 0 \notin DOMAIN queue
           /\ \A i \in DOMAIN queue : queue[i] \in Completions /\ (i # 1 => i - 1 \in DOMAIN queue)
  <1>1. queue \in Seq(Completions)
    BY DEF Types
  <1>2. DOMAIN queue = 1 .. Len(queue) /\ Len(queue) \in Nat
    BY <1>1, LenProperties
  <1>3. \A i \in 1 .. Len(queue) : queue[i] \in Completions
    BY <1>1, ElementOfSeq
  <1> QED
    BY <1>2, <1>3

LEMMA Passing ==
    ASSUME Types, NEW s \in Seq(Completions), NEW k \in {0, 1},
           IF k = 0 THEN s = queue ELSE queue # <<>> /\ s = Tail(queue)
    PROVE  /\ queue' = s => Passed(k, {})
           /\ \A x \in Completions : queue' = s \o <<x>> => Passed(k, {x})
  <1>1. queue \in Seq(Completions)
    BY DEF Types
  <1>2. /\ Len(s) \in Nat /\ DOMAIN s = 1 .. Len(s) /\ Len(queue) = Len(s) + k
        /\ DOMAIN queue = 1 .. Len(queue)
        /\ \A i \in 1 .. Len(s) : s[i] = queue[i + k]
    <2>1. CASE k = 0
      BY <1>1, <2>1, LenProperties
    <2>2. CASE k = 1
      <3>1. /\ Len(s) = Len(queue) - 1 /\ Len(queue) \in Nat
            /\ \A i \in 1 .. Len(queue) - 1 : s[i] = queue[i + 1]
        <4>1. queue # <<>> /\ s = Tail(queue)
          BY <2>2
        <4> QED
          BY <1>1, <4>1, Popping
      <3>2. DOMAIN s = 1 .. Len(s) /\ DOMAIN queue = 1 .. Len(queue) /\ Len(s) \in Nat
        BY <1>1, LenProperties
      <3> QED
        BY <2>2, <3>1, <3>2
    <2> QED
      BY <2>1, <2>2
  <1>3. ASSUME queue' = s
        PROVE  Passed(k, {})
    BY <1>2, <1>3 DEF Passed
  <1>4. ASSUME NEW x \in Completions, queue' = s \o <<x>>
        PROVE  Passed(k, {x})
    <2>1. /\ queue' \in Seq(Completions) /\ queue' = Append(s, x)
          /\ Len(queue') = Len(s) + 1 /\ queue'[Len(s) + 1] = x
          /\ \A i \in 1 .. Len(s) : queue'[i] = s[i]
      BY <1>4, Sequence
    <2>2. DOMAIN queue' = 1 .. Len(s) + 1
      BY <2>1, LenProperties
    <2>3. \A i \in DOMAIN queue' :
              \/ i + k \in DOMAIN queue /\ queue'[i] = queue[i + k]
              \/ queue'[i] = x /\ \A j \in DOMAIN queue' : j <= i
      BY <1>2, <2>1, <2>2
    <2>4. \A j \in DOMAIN queue : j > k => j - k \in DOMAIN queue' /\ queue'[j - k] = queue[j]
      BY <1>2, <2>1, <2>2
    <2>5. Len(s) + 1 \in DOMAIN queue'
      BY <1>2, <2>2
    <2> QED
      BY <2>1, <2>3, <2>4, <2>5 DEF Passed
  <1> QED
    BY <1>3, <1>4

-----------------------------------------------------------------------------
(* A step that adds nothing of client c's to the queue, and takes nothing.   *)
LEMMA QuietReads ==
    ASSUME NEW c \in Clients, NEW k \in {0, 1}, NEW new, Passed(k, new),
           \A x \in new : ~ Reads(x, c)
    PROVE  \A i \in DOMAIN queue' : Reads(queue'[i], c) =>
               i + k \in DOMAIN queue /\ Reads(queue[i + k], c)
  BY DEF Passed

LEMMA QuietSends ==
    ASSUME Types, NEW c \in Clients, NEW k \in {0, 1}, NEW new, Passed(k, new),
           \A x \in new : ~ Sends(x, c), k = 1 => ~ Sends(queue[1], c)
    PROVE  /\ \A i \in DOMAIN queue' : Sends(queue'[i], c) =>
                  i + k \in DOMAIN queue /\ Sends(queue[i + k], c)
           /\ {queue'[i].op : i \in {j \in DOMAIN queue' : Sends(queue'[j], c)}}
                  = {queue[i].op : i \in {j \in DOMAIN queue : Sends(queue[j], c)}}
  <1>1. DOMAIN queue \subseteq Nat /\ 0 \notin DOMAIN queue /\ DOMAIN queue' \subseteq Nat
        /\ 0 \notin DOMAIN queue'
    BY Domains, LenProperties DEF Passed
  <1>2. \A i \in DOMAIN queue' : Sends(queue'[i], c) =>
            i + k \in DOMAIN queue /\ queue'[i] = queue[i + k]
    BY DEF Passed
  <1>3. \A i \in DOMAIN queue : Sends(queue[i], c) =>
            i - k \in DOMAIN queue' /\ queue'[i - k] = queue[i]
    <2>1. \A i \in DOMAIN queue : Sends(queue[i], c) => i > k
      BY <1>1
    <2> QED
      BY <2>1 DEF Passed
  <1> DEFINE Before == {j \in DOMAIN queue : Sends(queue[j], c)}
             Later  == {j \in DOMAIN queue' : Sends(queue'[j], c)}
  <1>4. \A i \in Later : i + k \in Before /\ queue'[i].op = queue[i + k].op
    BY <1>2
  <1>5. \A i \in Before : i - k \in Later /\ queue'[i - k].op = queue[i].op
    BY <1>3
  <1> HIDE DEF Before, Later
  <1>6. {queue'[i].op : i \in Later} = {queue[i].op : i \in Before}
    BY <1>4, <1>5
  <1> QED
    BY <1>2, <1>6 DEF Before, Later

LEMMA QuietOpen ==
    ASSUME Types, NEW c \in Clients, NEW k \in {0, 1}, NEW new, Passed(k, new),
           \A x \in new : ~ Sends(x, c), k = 1 => ~ Sends(queue[1], c),
           writes'[c] = writes[c]
    PROVE  Open'[c] = Open[c]
  <1>1. {queue'[i].op : i \in {j \in DOMAIN queue' : Sends(queue'[j], c)}}
            = {queue[i].op : i \in {j \in DOMAIN queue : Sends(queue[j], c)}}
    BY QuietSends
  <1> QED
    BY <1>1 DEF Open

LEMMA QuietChain ==
    ASSUME Types, NEW c \in Clients, ChainOf(c), NEW k \in {0, 1}, NEW new, Passed(k, new),
           \A x \in new : ~ Reads(x, c),
           reading'[c] = reading[c], inbox[c] # <<>> => inbox'[c] # <<>>,
           busy'.c = c => busy' = busy
    PROVE  ChainOf(c)'
  <1>1. DOMAIN queue \subseteq Nat /\ DOMAIN queue' \subseteq Nat
    BY Domains, LenProperties DEF Passed
  <1>2. \A i \in DOMAIN queue' : Reads(queue'[i], c) =>
            i + k \in DOMAIN queue /\ Reads(queue[i + k], c)
    BY QuietReads
  <1>3. ASSUME NEW i \in DOMAIN queue', NEW j \in DOMAIN queue',
               Reads(queue'[i], c), Reads(queue'[j], c)
        PROVE  i = j
    <2>1. i + k = j + k
      BY <1>2, <1>3 DEF ChainOf
    <2> QED
      BY <1>1, <2>1
  <1>4. (\E i \in DOMAIN queue' : Reads(queue'[i], c)) => \E i \in DOMAIN queue : Reads(queue[i], c)
    BY <1>2
  <1>5. (\E i \in DOMAIN queue' : Reads(queue'[i], c)) =>
            ~ reading'[c] /\ busy'.c # c /\ inbox'[c] # <<>>
    BY <1>4 DEF ChainOf
  <1>6. busy'.c = c => ~ reading'[c] /\ busy'.r.cmd \in Blocking
    BY DEF ChainOf
  <1> QED
    BY <1>3, <1>5, <1>6 DEF ChainOf

LEMMA QuietWrites ==
    ASSUME Types, NEW c \in Clients, OneWriteOf(c),
           NEW k \in {0, 1}, NEW new, Passed(k, new),
           \A x \in new : ~ Sends(x, c), k = 1 => ~ Sends(queue[1], c),
           sessionID'[c] = sessionID[c], data'[c] = data[c], writes'[c] = writes[c],
           wire'[c] = wire[c], due'[c] = due[c], gone'[c] = gone[c], waited'[c] = waited[c]
    PROVE  OneWriteOf(c)'
  <1>1. DOMAIN queue \subseteq Nat /\ DOMAIN queue' \subseteq Nat
    BY Domains, LenProperties DEF Passed
  <1>2. \A i \in DOMAIN queue' : Sends(queue'[i], c) =>
            i + k \in DOMAIN queue /\ Sends(queue[i + k], c)
    BY QuietSends
  <1>3. Promised(c)' <=> Promised(c)
    BY DEF Promised
  <1>4. Open'[c] = Open[c]
    BY QuietOpen
  <1>5. ASSUME Promised(c)
        PROVE  OneWriteOf(c)'
    <2>1. \A i, j \in DOMAIN queue' : Sends(queue'[i], c) /\ Sends(queue'[j], c) => i = j
      <3>1. ASSUME NEW i \in DOMAIN queue', NEW j \in DOMAIN queue',
                   Sends(queue'[i], c), Sends(queue'[j], c)
            PROVE  i = j
        <4>1. i + k = j + k
          BY <1>2, <1>5, <3>1 DEF OneWriteOf
        <4> QED
          BY <1>1, <4>1
      <3> QED
        BY <3>1
    <2>2. writes'[c] # <<>> => \A i \in DOMAIN queue' : ~ Sends(queue'[i], c)
      BY <1>2, <1>5 DEF OneWriteOf
    <2>3. /\ due'[c] \in Seq(Sent)
          /\ writes'[c] # <<>> => /\ Len(writes'[c]) = 1 /\ writes'[c][1].part <= writes'[c][1].of
                                  /\ c \notin Eager
      BY <1>5 DEF OneWriteOf
    <2>4. /\ \A op \in Open'[c] : op.sid = sessionID'[c] /\ due'[c] = wire'[c] \o Left(data'[c], op)
          /\ Open'[c] = {} => due'[c] = wire'[c]
      BY <1>4, <1>5 DEF OneWriteOf
    <2> QED
      BY <2>1, <2>2, <2>3, <2>4 DEF OneWriteOf
  <1> QED
    BY <1>3, <1>5 DEF OneWriteOf

LEMMA QuietOrder ==
    ASSUME Types, NEW c \in Clients, InOrderOf(c),
           NEW k \in {0, 1}, NEW new, Passed(k, new),
           \A x \in new : ~ Reads(x, c) /\ ~ Sends(x, c), k = 1 => ~ Sends(queue[1], c),
           writes'[c] = writes[c], gone'[c] = gone[c], waited'[c] = waited[c],
           busy'.c = c => busy' = busy
    PROVE  InOrderOf(c)'
  <1>1. DOMAIN queue \subseteq Nat /\ DOMAIN queue' \subseteq Nat
    BY Domains, LenProperties DEF Passed
  <1>2. Open'[c] = Open[c]
    BY QuietOpen
  <1>3. Promised(c)' <=> Promised(c)
    BY DEF Promised
  <1>4. ASSUME c \in Eager, Promised(c)
        PROVE  InOrderOf(c)'
    <2>1. busy'.c = c => Open'[c] = {}
      BY <1>2, <1>4 DEF InOrderOf
    <2>2. ASSUME NEW i \in DOMAIN queue', NEW j \in DOMAIN queue',
                 Sends(queue'[i], c), Reads(queue'[j], c)
          PROVE  i < j
      <3>1. i + k \in DOMAIN queue /\ Sends(queue[i + k], c)
        BY <2>2, QuietSends
      <3>2. j + k \in DOMAIN queue /\ Reads(queue[j + k], c)
        BY <2>2, QuietReads
      <3>3. i + k < j + k
        BY <1>4, <3>1, <3>2 DEF InOrderOf
      <3> QED
        BY <1>1, <3>3
    <2> QED
      BY <2>1, <2>2 DEF InOrderOf
  <1> QED
    BY <1>3, <1>4 DEF InOrderOf

LEMMA QuietPatience ==
    ASSUME NEW c \in Clients, PatienceOf(c),
           sessionID'[c] = sessionID[c], inbox'[c] = inbox[c],
           due'[c] = due[c], asked'[c] = asked[c], known'[c] = known[c],
           taken'[c] = taken[c], gone'[c] = gone[c], busy'.c = c => busy' = busy
    PROVE  PatienceOf(c)'
  <1>1. Portion(c, 1)' = Portion(c, 1) /\ Portion(c, 2)' = Portion(c, 2)
    BY DEF Portion
  <1> QED
    BY <1>1 DEF PatienceOf

\* Nothing at all happens to c.
LEMMA Elsewhere ==
    ASSUME Types, NEW c \in Clients, Has(c), NEW k \in {0, 1}, NEW new, Passed(k, new),
           \A x \in new : ~ Reads(x, c) /\ ~ Sends(x, c), k = 1 => ~ Sends(queue[1], c),
           sessionID'[c] = sessionID[c], reading'[c] = reading[c], data'[c] = data[c],
           writes'[c] = writes[c], inbox'[c] = inbox[c], wire'[c] = wire[c],
           due'[c] = due[c], asked'[c] = asked[c], known'[c] = known[c],
           taken'[c] = taken[c], gone'[c] = gone[c], whole'[c] = whole[c],
           waited'[c] = waited[c], refused'[c] = refused[c],
           busy'.c = c => busy' = busy
    PROVE  Has(c)'
  <1>1. ChainOf(c)'
    BY QuietChain DEF Has
  <1>2. OneWriteOf(c)'
    BY QuietWrites DEF Has
  <1>3. InOrderOf(c)'
    BY QuietOrder DEF Has
  <1>4. PatienceOf(c)'
    BY QuietPatience DEF Has
  <1>5. KeptOf(c)'
    BY DEF Has, KeptOf
  <1> QED
    BY <1>1, <1>2, <1>3, <1>4, <1>5 DEF Has

LEMMA QueueStays ==
    ASSUME Types, queue' = queue
    PROVE  Passed(0, {})
  BY Passing DEF Types

\* The one new completion for a request of c is the last.
LEMMA NewReads ==
    ASSUME Types, NEW c \in Clients, NEW k \in {0, 1}, NEW x, Passed(k, {x}), Reads(x, c),
           \A i \in DOMAIN queue : i > k => ~ Reads(queue[i], c)
    PROVE  /\ \A i \in DOMAIN queue' : Reads(queue'[i], c) => \A j \in DOMAIN queue' : j <= i
           /\ \A i, j \in DOMAIN queue' : Reads(queue'[i], c) /\ Reads(queue'[j], c) => i = j
           /\ \A i, j \in DOMAIN queue' : Sends(queue'[i], c) /\ Reads(queue'[j], c) => i < j
  <1>1. DOMAIN queue' \subseteq Nat /\ 0 \notin DOMAIN queue'
    BY LenProperties DEF Passed
  <1>2. \A i \in DOMAIN queue' : i + k > k
    BY <1>1
  <1>3. \A i \in DOMAIN queue' : Reads(queue'[i], c) => \A j \in DOMAIN queue' : j <= i
    BY <1>2 DEF Passed
  <1>4. \A y : ~ (Sends(y, c) /\ Reads(y, c))
    BY DEF Sends, Reads
  <1>5. ASSUME NEW i \in DOMAIN queue', NEW j \in DOMAIN queue', Reads(queue'[j], c)
        PROVE  /\ Reads(queue'[i], c) => i = j
               /\ Sends(queue'[i], c) => i < j
    <2>1. i <= j /\ i \in Nat /\ j \in Nat
      BY <1>1, <1>3, <1>5
    <2>2. Reads(queue'[i], c) => j <= i
      BY <1>3
    <2>3. Sends(queue'[i], c) => i # j
      BY <1>4, <1>5
    <2> QED
      BY <2>1, <2>2, <2>3
  <1> QED
    BY <1>3, <1>5

\* The request of c has left the queue.
LEMMA NoReads ==
    ASSUME Types, NEW c \in Clients, NEW k \in {0, 1}, NEW new, Passed(k, new),
           \A x \in new : ~ Reads(x, c),
           \A i \in DOMAIN queue : i > k => ~ Reads(queue[i], c)
    PROVE  \A i \in DOMAIN queue' : ~ Reads(queue'[i], c)
  <1>1. DOMAIN queue' \subseteq Nat /\ 0 \notin DOMAIN queue'
    BY LenProperties DEF Passed
  <1>2. \A i \in DOMAIN queue' : i + k > k
    BY <1>1
  <1> QED
    BY <1>2, QuietReads

\* The thread runs the first completion in the queue.
LEMMA QueueGoesOn ==
    ASSUME Types, queue # <<>>
    PROVE  /\ Tail(queue) \in Seq(Completions)
           /\ queue' = Tail(queue) => Passed(1, {})
           /\ \A x \in Completions : queue' = Tail(queue) \o <<x>> => Passed(1, {x})
  <1>1. PICK s \in Seq(Completions) : s = Tail(queue)
    BY HeadTailProperties DEF Types
  <1>2. PICK k \in {0, 1} : k = 1
    OBVIOUS
  <1>3. /\ queue' = s => Passed(k, {})
        /\ \A x \in Completions : queue' = s \o <<x>> => Passed(k, {x})
    <2>1. IF k = 0 THEN s = queue ELSE queue # <<>> /\ s = Tail(queue)
      BY <1>1, <1>2
    <2> QED
      BY <2>1, Passing
  <1> QED
    BY <1>1, <1>2, <1>3

-----------------------------------------------------------------------------
(* Writes.                                                                   *)
After(op) == [op EXCEPT !.part = @ + 1]

LEMMA LeftIs ==
    ASSUME NEW b \in Stamps \X Stamps, NEW op \in Ops, op.part <= op.of, NEW s \in Seq(Sent)
    PROVE  /\ Stamped(b, op.part) \in Sent /\ After(op).part > After(op).of => op.part = op.of
           /\ Append(s, Stamped(b, op.part)) \in Seq(Sent)
           /\ s \o Left(b, op) = Append(s, Stamped(b, op.part)) \o Left(b, After(op))
           /\ s \o Left(b, op) \in Seq(Sent) /\ s \o Left(b, op) # <<>>
           /\ After(op).part > After(op).of => s \o Left(b, op) = Append(s, Stamped(b, op.part))
           /\ s # <<>> => /\ Head(s \o Left(b, op)) = Head(s)
                          /\ Tail(s \o Left(b, op)) = Tail(s) \o Left(b, op)
  <1>1. /\ Stamped(b, 1) \in Sent /\ Stamped(b, 2) \in Sent
    BY DEF Stamped, Stamps, Sent
  <1>2. /\ op.part \in 1 .. 2 /\ op.of \in 1 .. 2
        /\ After(op).part = op.part + 1 /\ After(op).of = op.of
    BY DEF Ops, After
  <1>3. /\ \A x \in Sent : Append(s, x) \in Seq(Sent)
        /\ \A x \in Seq(Sent) : x \o <<>> = x
    OBVIOUS
  <1>4. CASE op.part = op.of
    <2>1. Left(b, op) = <<Stamped(b, op.part)>> /\ Left(b, After(op)) = <<>>
      BY <1>2, <1>4 DEF Left
    <2>2. Stamped(b, op.part) \in Sent
      BY <1>1, <1>2
    <2> DEFINE x == Stamped(b, op.part)
    <2> HIDE DEF x
    <2>3. /\ s \o <<x>> = Append(s, x) /\ s \o <<x>> # <<>> /\ s \o <<x>> \in Seq(Sent)
          /\ s # <<>> => Head(s \o <<x>>) = Head(s) /\ Tail(s \o <<x>>) = Tail(s) \o <<x>>
      BY <2>2, JoinedOne DEF x
    <2>4. Append(s, x) \in Seq(Sent) /\ Append(s, x) \o <<>> = Append(s, x)
      BY <1>3, <2>2 DEF x
    <2>5. Left(b, op) = <<x>> /\ Left(b, After(op)) = <<>>
      BY <2>1 DEF x
    <2>6. x \in Sent /\ x = Stamped(b, op.part)
      BY <2>2 DEF x
    <2> QED
      BY <1>4, <2>3, <2>4, <2>5, <2>6
  <1>5. CASE op.part # op.of
    <2>1. op.part = 1 /\ op.of = 2
      BY <1>2, <1>5
    <2>2. Left(b, op) = <<Stamped(b, 1), Stamped(b, 2)>> /\ Left(b, After(op)) = <<Stamped(b, 2)>>
      BY <1>2, <2>1 DEF Left
    <2> DEFINE x == Stamped(b, 1)
               y == Stamped(b, 2)
    <2> HIDE DEF x, y
    <2>3. /\ s \o <<x, y>> = Append(s, x) \o <<y>> /\ s \o <<x, y>> # <<>>
          /\ s \o <<x, y>> \in Seq(Sent)
          /\ s # <<>> => /\ Head(s \o <<x, y>>) = Head(s)
                         /\ Tail(s \o <<x, y>>) = Tail(s) \o <<x, y>>
      BY <1>1, JoinedTwo DEF x, y
    <2>4. Append(s, x) \in Seq(Sent) /\ x \in Sent
      BY <1>1, <1>3 DEF x
    <2>5. Left(b, op) = <<x, y>> /\ Left(b, After(op)) = <<y>>
      BY <2>2 DEF x, y
    <2>6. x = Stamped(b, op.part) /\ ~ After(op).part > After(op).of
      BY <1>2, <2>1 DEF x
    <2> QED
      BY <2>3, <2>4, <2>5, <2>6
  <1> QED
    BY <1>4, <1>5

LEMMA OpenIs ==
    ASSUME Types, NEW c \in Clients, OneWriteOf(c), Promised(c)
    PROVE  /\ \A op \in Open[c] : op \in Ops /\ op.part <= op.of
           /\ writes[c] \in Seq(Ops) /\ wire[c] \in Seq(Sent) /\ data[c] \in Stamps \X Stamps
           /\ Open[c] = {} => writes[c] = <<>> /\ \A i \in DOMAIN queue : ~ Sends(queue[i], c)
           /\ due[c] = <<>> => Open[c] = {}
           /\ \A i \in DOMAIN queue : Sends(queue[i], c) => Open[c] = {queue[i].op}
           /\ writes[c] # <<>> => Open[c] = {writes[c][1]} /\ 1 \in DOMAIN writes[c]
  <1>1. /\ writes[c] \in Seq(Ops) /\ wire[c] \in Seq(Sent) /\ data[c] \in Stamps \X Stamps
    BY DEF Types
  <1>2. /\ DOMAIN writes[c] = 1 .. Len(writes[c])
        /\ writes[c] # <<>> => Len(writes[c]) = 1
        /\ \A i \in DOMAIN writes[c] : writes[c][i] \in Ops
        /\ writes[c] = <<>> => Len(writes[c]) = 0
    BY <1>1, LenProperties, ElementOfSeq, EmptySeq DEF OneWriteOf
  <1>3. \A i \in DOMAIN queue : Sends(queue[i], c) =>
            queue[i].op \in Ops /\ queue[i].op.part <= queue[i].op.of
    <2>1. SUFFICES ASSUME NEW i \in DOMAIN queue, Sends(queue[i], c)
                   PROVE  queue[i].op \in Ops /\ queue[i].op.part <= queue[i].op.of
      OBVIOUS
    <2>2. queue[i] \in Completions /\ queue[i].kind = "write"
      BY <2>1, Domains DEF Sends
    <2>3. queue[i].op \in Nexts
      BY <2>2 DEF Completions
    <2>4. queue[i].op.part <= queue[i].op.of
      BY <2>1 DEF Sends
    <2> QED
      BY <2>3, <2>4 DEF Nexts, Ops
  <1> DEFINE Before == {j \in DOMAIN queue : Sends(queue[j], c)}
  <1>4. Open[c] = {writes[c][i] : i \in DOMAIN writes[c]} \cup {queue[i].op : i \in Before}
    BY DEF Open
  <1>5. /\ \A i \in Before : queue[i].op \in Ops /\ queue[i].op.part <= queue[i].op.of
        /\ \A i, j \in Before : i = j
        /\ writes[c] # <<>> => Before = {}
        /\ \A i \in DOMAIN queue : Sends(queue[i], c) <=> i \in Before
        /\ writes[c] # <<>> => writes[c][1].part <= writes[c][1].of
    BY <1>3 DEF OneWriteOf
  <1> HIDE DEF Before
  <1>6. writes[c] # <<>> => Open[c] = {writes[c][1]} /\ 1 \in DOMAIN writes[c]
    BY <1>2, <1>4, <1>5
  <1>7. \A i \in Before : Open[c] = {queue[i].op}
    BY <1>2, <1>4, <1>5
  <1>8. \A op \in Open[c] : op \in Ops /\ op.part <= op.of
    <2>1. CASE writes[c] # <<>>
      BY <1>2, <1>5, <1>6, <2>1
    <2>2. CASE writes[c] = <<>>
      BY <1>2, <1>4, <1>5, <2>2
    <2> QED
      BY <2>1, <2>2
  <1>9. Open[c] = {} => writes[c] = <<>> /\ \A i \in DOMAIN queue : ~ Sends(queue[i], c)
    BY <1>5, <1>6, <1>7
  <1>10. ASSUME due[c] = <<>>, NEW op \in Open[c]
         PROVE  FALSE
    <2>1. due[c] = wire[c] \o Left(data[c], op)
      BY DEF OneWriteOf
    <2>2. wire[c] \o Left(data[c], op) # <<>>
      BY <1>1, <1>8, LeftIs
    <2> QED
      BY <1>10, <2>1, <2>2
  <1> QED
    BY <1>1, <1>5, <1>6, <1>7, <1>8, <1>9, <1>10

\* The one write of c goes on: a part of it is sent, or it waits for room.
LEMMA PartSent ==
    ASSUME NEW c \in Clients, NEW op \in Ops, op.sid = sessionID'[c]
    PROVE  Part(c, op) = Stamped(data'[c], op.part)
  BY DEF Part, Stamped

LEMMA WritesOn ==
    ASSUME Types, Types', NEW c \in Clients, Promised(c), gone' = gone,
           NEW op \in Ops, op.part <= op.of, op.sid = sessionID'[c], due'[c] = wire[c] \o Left(data'[c], op),
           NEW k \in {0, 1}, NEW q \in Seq(Completions),
           IF k = 0 THEN q = queue ELSE queue # <<>> /\ q = Tail(queue),
           \A i \in DOMAIN queue : i > k => ~ Sends(queue[i], c),
           IF writes'[c] = <<>> THEN Send(c, op, q)
           ELSE writes'[c] = <<op>> /\ c \notin Eager /\ queue' = q /\ wire' = wire
    PROVE  OneWriteOf(c)'
  <1> DEFINE next == After(op)
             done == [kind |-> "write", c |-> c, op |-> next]
  <1>1. /\ wire \in [Clients -> Seq(Sent)] /\ wire[c] \in Seq(Sent)
        /\ data'[c] \in Stamps \X Stamps /\ sessionID'[c] \in Nat
    BY DEF Types
  <1>2. /\ next.part = op.part + 1 /\ next.of = op.of /\ next.sid = op.sid
        /\ next \in Nexts /\ op.part \in 1 .. 2 /\ op.of \in 1 .. 2
    BY DEF Ops, Nexts, After
  <1>3. done \in Completions
    BY <1>2 DEF Completions
  <1>4. DOMAIN queue \subseteq Nat /\ 0 \notin DOMAIN queue
    BY Domains
  <1>5. CASE writes'[c] = <<>>
    <2>1. /\ wire'[c] = Append(wire[c], Stamped(data'[c], op.part))
          /\ queue' = q \o <<done>>
      BY <1>1, <1>5, PartSent DEF Send, Completion, After
    <2>2. Passed(k, {done})
      BY <1>3, <2>1, Passing
    <2>3. \A i \in DOMAIN queue' : Sends(queue'[i], c) =>
              queue'[i] = done /\ \A j \in DOMAIN queue' : j <= i
      <3>1. \A i \in DOMAIN queue' :
                \/ i + k \in DOMAIN queue /\ queue'[i] = queue[i + k]
                \/ queue'[i] = done /\ \A j \in DOMAIN queue' : j <= i
        BY <2>2 DEF Passed
      <3>2. \A i \in DOMAIN queue' : i \in Nat /\ i # 0
        BY <2>2, LenProperties DEF Passed
      <3>3. \A i \in DOMAIN queue' : i + k > k
        BY <3>2
      <3> QED
        BY <3>1, <3>3
    <2>4. DOMAIN queue' \subseteq Nat
      BY <2>2, LenProperties DEF Passed
    <2>5. \A i, j \in DOMAIN queue' : Sends(queue'[i], c) /\ Sends(queue'[j], c) => i = j
      BY <2>3, <2>4
    <2>6. \E i \in DOMAIN queue' : queue'[i] = done
      BY <2>2 DEF Passed
    <2>7. Open'[c] = {queue'[i].op : i \in {j \in DOMAIN queue' : Sends(queue'[j], c)}}
      <3>1. DOMAIN writes'[c] = {}
        BY <1>5
      <3> QED
        BY <3>1 DEF Open
    <2>8. /\ Sends(done, c) <=> next.part <= next.of
          /\ done.op = next
      BY DEF Sends
    <2> HIDE DEF next, done
    <2>9. \A p \in Open'[c] : p = next /\ next.part <= next.of
      BY <2>3, <2>7, <2>8
    <2>10. next.part <= next.of => Open'[c] # {}
      BY <2>6, <2>7, <2>8
    <2>11. /\ due'[c] = wire'[c] \o Left(data'[c], next) /\ due'[c] \in Seq(Sent)
           /\ next.part > next.of => due'[c] = wire'[c]
      <3>1. /\ wire[c] \o Left(data'[c], op)
                   = Append(wire[c], Stamped(data'[c], op.part)) \o Left(data'[c], After(op))
            /\ wire[c] \o Left(data'[c], op) \in Seq(Sent)
            /\ After(op).part > After(op).of =>
                   wire[c] \o Left(data'[c], op) = Append(wire[c], Stamped(data'[c], op.part))
        BY <1>1, LeftIs
      <3>2. next = After(op)
        BY DEF next
      <3> QED
        BY <2>1, <3>1, <3>2
    <2>13. Open'[c] = {} => due'[c] = wire'[c]
      <3>1. next.part <= next.of \/ next.part > next.of
        BY <1>2 DEF next
      <3> QED
        BY <2>10, <2>11, <3>1
    <2>14. \A p \in Open'[c] : p.sid = sessionID'[c] /\ due'[c] = wire'[c] \o Left(data'[c], p)
      BY <1>2, <2>9, <2>11 DEF next
    <2> QED
      BY <1>5, <2>5, <2>11, <2>13, <2>14 DEF OneWriteOf
  <1>6. CASE writes'[c] # <<>>
    <2>1. writes'[c] = <<op>> /\ c \notin Eager /\ queue' = q /\ wire'[c] = wire[c]
      BY <1>6
    <2>2. Passed(k, {})
      BY <2>1, Passing
    <2>3. \A i \in DOMAIN queue' : ~ Sends(queue'[i], c)
      <3>1. \A i \in DOMAIN queue' : i + k \in DOMAIN queue /\ queue'[i] = queue[i + k]
        BY <2>2 DEF Passed
      <3>2. \A i \in DOMAIN queue' : i \in Nat /\ i # 0
        BY <2>2, LenProperties DEF Passed
      <3>3. \A i \in DOMAIN queue' : i + k > k
        BY <3>2
      <3> QED
        BY <3>1, <3>3
    <2>4. Open'[c] = {op}
      <3>1. {j \in DOMAIN queue' : Sends(queue'[j], c)} = {}
        BY <2>3
      <3>2. DOMAIN <<op>> = {1} /\ <<op>>[1] = op
        OBVIOUS
      <3>3. {writes'[c][i] : i \in DOMAIN writes'[c]} = {op}
        BY <2>1, <3>2
      <3> QED
        BY <3>1, <3>3 DEF Open
    <2>5. due'[c] \in Seq(Sent)
      BY <1>1, LeftIs
    <2>6. Len(writes'[c]) = 1 /\ writes'[c][1] = op
      BY <2>1
    <2> QED
      BY <2>1, <2>3, <2>4, <2>5, <2>6 DEF OneWriteOf
  <1> QED
    BY <1>5, <1>6

-----------------------------------------------------------------------------
(* Clients.                                                                  *)
LEMMA AskStep ==
    ASSUME Inv, NEW c \in Clients, NEW cmd \in Commands[c], Ask(c, cmd)
    PROVE  Inv'
  <1> DEFINE request == [n |-> asked[c].n + 1, cmd |-> cmd, sid |-> known[c]]
  <1>1. /\ Types /\ Has(c) /\ \A d \in Clients : Has(d)
        /\ UNCHANGED <<sessionID, reading, data, writes, queue, busy, waited, refused, wire, known,
                       taken, gone, whole, due>>
        /\ asked' = [asked EXCEPT ![c] = [n |-> @.n + 1, cmd |-> cmd]]
        /\ inbox' = [inbox EXCEPT ![c] = Append(@, request)]
    BY DEF Inv, Ask, driver
  <1>2. /\ asked[c].n \in Nat /\ known[c] \in Int /\ inbox[c] \in Seq(Requests)
        /\ cmd \in Given
    BY <1>1 DEF Types, Asks, Given
  <1>3. request \in Requests
    BY <1>2 DEF Requests
  <1> HIDE DEF request
  <1>4. /\ asked'[c] = [n |-> asked[c].n + 1, cmd |-> cmd]
        /\ inbox'[c] = Append(inbox[c], request)
        /\ \A d \in Clients \ {c} : asked'[d] = asked[d] /\ inbox'[d] = inbox[d]
    BY <1>1 DEF Types
  <1>5. Types'
    <2>1. asked' \in [Clients -> Asks]
      <3>1. asked \in [Clients -> Asks] /\ asked'[c] \in Asks
        BY <1>1, <1>2, <1>4 DEF Types, Asks
      <3> QED
        BY <1>1, <1>4, <3>1
    <2>2. inbox' \in [Clients -> Seq(Requests)]
      BY <1>1, <1>2, <1>3 DEF Types
    <2> QED
      BY <1>1, <2>1, <2>2 DEF Types
  <1>6. Passed(0, {})
    BY <1>1, QueueStays
  <1>7. \A d \in Clients \ {c} : Has(d)'
    BY <1>1, <1>4, <1>6, Elsewhere
  <1>8. ChainOf(c)'
    <2>1. inbox'[c] # <<>>
      BY <1>2, <1>3, <1>4, Sequence
    <2> QED
      BY <1>1, <1>6, <2>1, QuietChain DEF Has
  <1>9. OneWriteOf(c)' /\ InOrderOf(c)'
    BY <1>1, <1>6, QuietWrites, QuietOrder DEF Has
  <1>10. KeptOf(c)'
    BY <1>1 DEF Has, KeptOf
  <1>11. ASSUME c \notin Eager
         PROVE  PatienceOf(c)'
    <2>1. PatienceOf(c) /\ ~ gone[c] /\ ~ Pending(c) /\ (known[c] # Unknown \/ cmd \in Handshakes)
      BY <1>1, <1>11 DEF Has, PatienceOf, Ask
    <2>2. Silent(asked[c].cmd) \/ taken[c] = [n |-> asked[c].n, part |-> Parts(asked[c].cmd)]
      BY <2>1 DEF Pending
    <2>3. taken[c].n < asked[c].n => Silent(asked[c].cmd)
      BY <1>2, <2>2
    <2>4. due[c] = <<>>
      <3>1. ASSUME due[c] # <<>>
            PROVE  FALSE
        <4>1. ~ Silent(asked[c].cmd) /\ ~ taken[c].n < asked[c].n
          BY <1>11, <2>1, <2>3, <3>1 DEF PatienceOf
        <4>2. Parts(asked[c].cmd) = 2 /\ taken[c] = [n |-> asked[c].n, part |-> 1]
          BY <1>11, <2>1, <3>1, <4>1 DEF PatienceOf
        <4>3. taken[c] = [n |-> asked[c].n, part |-> 2]
          BY <2>2, <4>1, <4>2
        <4> QED
          BY <4>2, <4>3
      <3> QED
        BY <3>1
    <2>5. busy.c # c
      <3>1. busy.c = c => taken[c].n < asked[c].n /\ asked[c].cmd \in Blocking
        BY <1>1, <1>11, <2>1 DEF PatienceOf, Has, ChainOf
      <3>2. asked[c].cmd \in Blocking => ~ Silent(asked[c].cmd)
        BY DEF Silent
      <3> QED
        BY <2>3, <3>1, <3>2
    <2>6. \A i \in DOMAIN inbox[c] :
              /\ inbox[c][i].cmd \in Handshakes \/ inbox[c][i].sid = sessionID[c]
              /\ Silent(inbox[c][i].cmd)
      <3>1. ASSUME NEW i \in DOMAIN inbox[c]
            PROVE  /\ inbox[c][i].cmd \in Handshakes \/ inbox[c][i].sid = sessionID[c]
                   /\ Silent(inbox[c][i].cmd)
        <4>1. inbox[c] # <<>>
          BY <3>1
        <4>2. Silent(asked[c].cmd)
          BY <1>11, <2>1, <2>3, <4>1 DEF PatienceOf
        <4> QED
          BY <1>11, <2>1, <3>1, <4>2 DEF PatienceOf
      <3> QED
        BY <3>1
    <2>7. request.cmd \in Handshakes \/ request.sid = sessionID[c]
      BY <1>11, <2>1, <2>4 DEF PatienceOf, request
    <2>8. request.n = asked'[c].n /\ request.cmd = asked'[c].cmd
      BY <1>4 DEF request
    <2>9. /\ DOMAIN inbox'[c] = 1 .. Len(inbox[c]) + 1 /\ Len(inbox'[c]) = Len(inbox[c]) + 1
          /\ DOMAIN inbox[c] = 1 .. Len(inbox[c]) /\ Len(inbox[c]) \in Nat
          /\ inbox'[c][Len(inbox[c]) + 1] = request
          /\ \A i \in 1 .. Len(inbox[c]) : inbox'[c][i] = inbox[c][i]
      <3>1. inbox'[c] \in Seq(Requests)
        BY <1>5 DEF Types
      <3> QED
        BY <1>2, <1>3, <1>4, <3>1, Sequence, LenProperties
    <2>10. ASSUME NEW i \in DOMAIN inbox'[c]
           PROVE  /\ inbox'[c][i].cmd \in Handshakes \/ inbox'[c][i].sid = sessionID'[c]
                  /\ i # Len(inbox'[c]) => Silent(inbox'[c][i].cmd)
                  /\ i = Len(inbox'[c]) =>
                         inbox'[c][i].n = asked'[c].n /\ inbox'[c][i].cmd = asked'[c].cmd
      <3>1. CASE i = Len(inbox[c]) + 1
        BY <1>1, <2>7, <2>8, <2>9, <3>1
      <3>2. CASE i # Len(inbox[c]) + 1
        <4>1. i \in DOMAIN inbox[c] /\ inbox'[c][i] = inbox[c][i] /\ i # Len(inbox'[c])
          BY <2>9, <3>2
        <4> QED
          BY <1>1, <2>6, <4>1
      <3> QED
        BY <3>1, <3>2
    <2>11. /\ ~ gone'[c] /\ taken'[c].n < asked'[c].n /\ taken'[c].n <= asked'[c].n
           /\ due'[c] = <<>> /\ busy'.c # c /\ known'[c] \in {Unknown, sessionID'[c]}
      <3>1. taken[c].n \in Nat /\ taken[c].n <= asked[c].n
        BY <1>1, <1>11, <2>1 DEF PatienceOf, Types, Takes
      <3>2. taken[c].n < asked[c].n + 1 /\ taken[c].n <= asked[c].n + 1
        BY <1>2, <3>1
      <3>3. known[c] \in {Unknown, sessionID[c]}
        BY <1>11, <2>1, <2>4 DEF PatienceOf
      <3> QED
        BY <1>1, <1>4, <2>1, <2>4, <2>5, <3>2, <3>3
    <2> QED
      BY <2>10, <2>11 DEF PatienceOf
  <1>12. Has(c)'
    BY <1>8, <1>9, <1>10, <1>11 DEF Has, PatienceOf
  <1> QED
    BY <1>5, <1>7, <1>12 DEF Inv

LEMMA TakeStep ==
    ASSUME Inv, NEW c \in Clients, Take(c)
    PROVE  Inv'
  <1>1. /\ Types /\ Has(c) /\ \A d \in Clients : Has(d)
        /\ ~ gone[c] /\ wire[c] # <<>>
        /\ UNCHANGED <<sessionID, reading, data, writes, queue, busy, waited, refused, inbox, asked,
                       gone>>
        /\ due' = [due EXCEPT ![c] = Tail(@)] /\ wire' = [wire EXCEPT ![c] = Tail(@)]
    BY DEF Inv, Take, driver
  <1>2. PICK part \in Sent : part = Head(wire[c])
    <2>1. wire[c] \in Seq(Sent)
      BY <1>1 DEF Types
    <2> QED
      BY <1>1, <2>1, Popping
  <1>3. /\ taken' = [taken EXCEPT ![c] = [n |-> part.n, part |-> part.part]]
        /\ known' = [known EXCEPT ![c] = IF part.part = 1 THEN part.sid ELSE @]
        /\ whole' = [whole EXCEPT ![c] = @ /\ part = Head(due[c])]
    BY <1>2 DEF Take
  <1>4. /\ part.n \in Nat /\ part.sid \in Int /\ part.part \in 1 .. 2
        /\ wire[c] \in Seq(Sent) /\ Tail(wire[c]) \in Seq(Sent)
    <2>1. wire[c] \in Seq(Sent)
      BY <1>1 DEF Types
    <2> QED
      BY <1>1, <2>1, Popping DEF Sent
  <1>5. /\ taken'[c] = [n |-> part.n, part |-> part.part]
        /\ known'[c] = IF part.part = 1 THEN part.sid ELSE known[c]
        /\ due'[c] = Tail(due[c]) /\ wire'[c] = Tail(wire[c])
    BY <1>1, <1>3 DEF Types
  <1>6. part = Head(due[c]) => whole'[c] = whole[c]
    BY <1>1, <1>3 DEF Types
  <1>7. \A d \in Clients \ {c} : /\ taken'[d] = taken[d] /\ known'[d] = known[d]
                                 /\ whole'[d] = whole[d] /\ due'[d] = due[d] /\ wire'[d] = wire[d]
    BY <1>1, <1>3 DEF Types
  <1>8. Types'
    <2>1. taken' \in [Clients -> Takes]
      BY <1>1, <1>3, <1>4 DEF Types, Takes
    <2>2. known' \in [Clients -> Int] /\ wire' \in [Clients -> Seq(Sent)]
      BY <1>1, <1>3, <1>4 DEF Types
    <2>3. whole' \in [Clients -> BOOLEAN]
      BY <1>1, <1>3 DEF Types
    <2>4. due' = [d \in Clients |-> due'[d]]
      BY <1>1 DEF Types
    <2> QED
      BY <1>1, <2>1, <2>2, <2>3, <2>4 DEF Types
  <1>9. Passed(0, {})
    BY <1>1, QueueStays
  <1>10. \A d \in Clients \ {c} : Has(d)'
    BY <1>1, <1>7, <1>9, Elsewhere
  <1>11. ChainOf(c)'
    BY <1>1, <1>9, QuietChain DEF Has
  <1>12. Open'[c] = Open[c] /\ (Promised(c)' <=> Promised(c))
    BY <1>1, <1>9, QuietOpen DEF Promised
  \* What is taken is what is due.
  <1>13. ASSUME Promised(c)
         PROVE  due[c] # <<>> /\ part = Head(due[c]) /\ OneWriteOf(c)'
    <2>1. OneWriteOf(c)
      BY <1>1 DEF Has
    <2>2. ASSUME NEW op \in Open[c]
          PROVE  /\ due[c] # <<>> /\ due[c] \in Seq(Sent) /\ Head(due[c]) = Head(wire[c])
                 /\ Tail(due[c]) = Tail(wire[c]) \o Left(data[c], op)
      <3>1. /\ op \in Ops /\ op.part <= op.of /\ data[c] \in Stamps \X Stamps
            /\ due[c] = wire[c] \o Left(data[c], op)
        BY <1>1, <1>13, <2>1, OpenIs DEF OneWriteOf
      <3>2. LET due_c == wire[c] \o Left(data[c], op)
            IN  /\ due_c # <<>> /\ due_c \in Seq(Sent) /\ Head(due_c) = Head(wire[c])
                /\ Tail(due_c) = Tail(wire[c]) \o Left(data[c], op)
        <4>1. PICK s \in Seq(Sent) : s = wire[c] /\ s # <<>>
          BY <1>1, <1>4
        <4>2. /\ s \o Left(data[c], op) # <<>> /\ s \o Left(data[c], op) \in Seq(Sent)
              /\ Head(s \o Left(data[c], op)) = Head(s)
              /\ Tail(s \o Left(data[c], op)) = Tail(s) \o Left(data[c], op)
          BY <3>1, <4>1, LeftIs
        <4> QED
          BY <4>1, <4>2
      <3> QED
        BY <3>1, <3>2
    <2>3. Open[c] = {} => due[c] = wire[c]
      BY <1>13, <2>1 DEF OneWriteOf
    <2>4. due[c] # <<>> /\ due[c] \in Seq(Sent) /\ Head(due[c]) = part
      <3>1. CASE Open[c] = {}
        BY <1>1, <1>2, <1>4, <2>3, <3>1
      <3>2. CASE Open[c] # {}
        BY <1>2, <2>2, <3>2
      <3> QED
        BY <3>1, <3>2
    <2>5. due'[c] \in Seq(Sent)
      BY <1>5, <2>4, Popping
    <2>6. \A op \in Open'[c] : op.sid = sessionID'[c] /\ due'[c] = wire'[c] \o Left(data'[c], op)
      BY <1>1, <1>5, <1>12, <1>13, <2>1, <2>2 DEF OneWriteOf
    <2>7. Open'[c] = {} => due'[c] = wire'[c]
      BY <1>5, <1>12, <2>3
    <2>8. /\ \A i, j \in DOMAIN queue' : Sends(queue'[i], c) /\ Sends(queue'[j], c) => i = j
          /\ writes'[c] # <<>> =>
                 /\ Len(writes'[c]) = 1 /\ writes'[c][1].part <= writes'[c][1].of
                 /\ \A i \in DOMAIN queue' : ~ Sends(queue'[i], c)
                 /\ c \notin Eager
      BY <1>1, <1>13, <2>1 DEF OneWriteOf
    <2> QED
      BY <2>4, <2>5, <2>6, <2>7, <2>8 DEF OneWriteOf
  <1>14. InOrderOf(c)'
    BY <1>1, <1>9, QuietOrder DEF Has
  <1>15. KeptOf(c)'
    <2>1. c \notin Eager \/ ~ waited[c] => Promised(c)
      BY <1>1 DEF Promised
    <2> QED
      BY <1>1, <1>6, <1>13, <2>1 DEF Has, KeptOf
  <1>16. ASSUME c \notin Eager
         PROVE  PatienceOf(c)'
    <2>1. PatienceOf(c) /\ Promised(c)
      BY <1>1, <1>16 DEF Has, Promised
    <2>2. due[c] # <<>> /\ part = Head(due[c])
      BY <1>13, <2>1
    <2>3. /\ inbox[c] = <<>> /\ ~ Silent(asked[c].cmd) /\ busy.c # c
      BY <1>16, <2>1, <2>2 DEF PatienceOf
    <2>4. /\ ~ gone'[c] /\ inbox'[c] = <<>> /\ ~ Silent(asked'[c].cmd) /\ busy'.c # c
      BY <1>1, <2>3
    <2>5. asked[c].n \in Nat /\ sessionID[c] \in Nat
      BY <1>1 DEF Types, Asks
    <2>6. Portion(c, 2)' = Portion(c, 2) /\ sessionID' = sessionID /\ asked' = asked
      BY <1>1 DEF Portion
    <2>7. CASE Parts(asked[c].cmd) = 1 /\ due[c] = <<Portion(c, 1)>>
      <3>1. due'[c] = <<>> /\ part = Portion(c, 1)
        BY <1>5, <2>2, <2>7
      <3>2. taken'[c].n = asked[c].n /\ known'[c] = sessionID[c]
        BY <1>5, <3>1 DEF Portion
      <3> QED
        BY <2>4, <2>5, <2>6, <3>1, <3>2 DEF PatienceOf
    <2>8. CASE Parts(asked[c].cmd) = 2 /\ due[c] = <<Portion(c, 1), Portion(c, 2)>>
      <3>1. due'[c] = <<Portion(c, 2)>> /\ part = Portion(c, 1)
        BY <1>5, <2>2, <2>8
      <3>2. taken'[c] = [n |-> asked[c].n, part |-> 1] /\ known'[c] = sessionID[c]
        BY <1>5, <3>1 DEF Portion
      <3>3. due'[c] = <<Portion(c, 2)>>' /\ Parts(asked'[c].cmd) = 2 /\ due'[c] # <<>>
        BY <2>6, <2>8, <3>1
      <3>4. taken'[c].n <= asked'[c].n
        BY <2>5, <2>6, <3>2
      <3> QED
        BY <2>4, <2>6, <3>2, <3>3, <3>4 DEF PatienceOf
    <2>9. CASE Parts(asked[c].cmd) = 2 /\ due[c] = <<Portion(c, 2)>> /\ known[c] = sessionID[c]
      <3>1. due'[c] = <<>> /\ part = Portion(c, 2)
        BY <1>5, <2>2, <2>9
      <3>2. taken'[c].n = asked[c].n /\ known'[c] = sessionID[c]
        BY <1>5, <2>9, <3>1 DEF Portion
      <3> QED
        BY <2>4, <2>5, <2>6, <3>1, <3>2 DEF PatienceOf
    <2> QED
      BY <1>16, <2>1, <2>2, <2>7, <2>8, <2>9 DEF PatienceOf
  <1>17. OneWriteOf(c)'
    BY <1>12, <1>13 DEF OneWriteOf
  <1>18. Has(c)'
    BY <1>11, <1>14, <1>15, <1>16, <1>17 DEF Has, PatienceOf
  <1> QED
    BY <1>8, <1>10, <1>18 DEF Inv

LEMMA LeaveStep ==
    ASSUME Inv, NEW c \in Clients, Leave(c)
    PROVE  Inv'
  <1>1. /\ Types /\ \A d \in Clients : Has(d)
        /\ c \in Eager /\ gone' = [gone EXCEPT ![c] = TRUE]
        /\ wire' = [wire EXCEPT ![c] = <<>>] /\ writes' = [writes EXCEPT ![c] = <<>>]
        /\ due' = [due EXCEPT ![c] = <<>>] /\ asked' = [asked EXCEPT ![c] = Nothing.asked]
        /\ taken' = [taken EXCEPT ![c] = Nothing.taken] /\ known' = [known EXCEPT ![c] = Unknown]
        /\ UNCHANGED <<sessionID, reading, data, queue, busy, waited, refused, inbox, whole>>
    BY DEF Inv, Leave
  <1>2. Types'
    <2>1. gone' \in [Clients -> BOOLEAN] /\ due' = [d \in Clients |-> due'[d]]
      BY <1>1 DEF Types
    <2>2. wire' \in [Clients -> Seq(Sent)] /\ writes' \in [Clients -> Seq(Ops)]
      <3>1. <<>> \in Seq(Sent) /\ <<>> \in Seq(Ops)
        OBVIOUS
      <3> QED
        BY <1>1, <3>1 DEF Types
    <2>3. asked' \in [Clients -> Asks] /\ taken' \in [Clients -> Takes]
      <3>1. Nothing.asked \in Asks /\ Nothing.taken \in Takes
        <4>1. /\ Nothing.asked = [n |-> 0, cmd |-> "WAIT"]
              /\ Nothing.taken = [n |-> 0, part |-> 0]
          BY DEF Nothing
        <4>2. /\ [n |-> 0, cmd |-> "WAIT"] \in Asks
              /\ [n |-> 0, part |-> 0] \in Takes
          BY DEF Asks, Takes
        <4> QED
          BY <4>1, <4>2
      <3> QED
        BY <1>1, <3>1 DEF Types
    <2>4. known' \in [Clients -> Int]
      BY <1>1 DEF Types, Unknown
    <2> QED
      BY <1>1, <2>1, <2>2, <2>3, <2>4 DEF Types
  <1>3. \A d \in Clients \ {c} :
            /\ gone'[d] = gone[d] /\ wire'[d] = wire[d] /\ writes'[d] = writes[d]
            /\ due'[d] = due[d] /\ asked'[d] = asked[d] /\ taken'[d] = taken[d]
            /\ known'[d] = known[d]
    BY <1>1 DEF Types
  <1>4. Passed(0, {})
    BY <1>1, QueueStays
  <1>5. ASSUME NEW d \in Clients \ {c}
        PROVE  Has(d)'
    <2>1. /\ Types /\ Has(d)
          /\ UNCHANGED <<sessionID, reading, data, queue, busy, waited, refused, inbox, whole>>
      BY <1>1
    <2> QED
      BY <1>3, <1>4, <2>1, Elsewhere
  <1>6. gone'[c]
    BY <1>1 DEF Types
  <1>7. ChainOf(c)'
    BY <1>1, <1>4, QuietChain DEF Has
  <1>8. Has(c)'
    BY <1>1, <1>6, <1>7 DEF Has, OneWriteOf, InOrderOf, PatienceOf, KeptOf, Promised
  <1> QED
    BY <1>2, <1>5, <1>8 DEF Inv

-----------------------------------------------------------------------------
(* asio.                                                                     *)
Done(c, op) == [kind |-> "write", c |-> c, op |-> After(op)]

LEMMA SendIs ==
    ASSUME Types, NEW c \in Clients, NEW op \in Ops, data'[c] \in Stamps \X Stamps,
           NEW q \in Seq(Completions), Send(c, op, q)
    PROVE  /\ wire' \in [Clients -> Seq(Sent)] /\ \A d \in Clients \ {c} : wire'[d] = wire[d]
           /\ Done(c, op) \in Completions /\ queue' = q \o <<Done(c, op)>>
           /\ queue' \in Seq(Completions)
  <1>1. After(op) \in Nexts /\ op.part \in 1 .. 2
    BY DEF After, Ops, Nexts
  <1>2. Done(c, op) \in Completions
    BY <1>1 DEF Done, Completions
  <1>3. queue' = q \o <<Done(c, op)>>
    BY DEF Send, Done, Completion, After
  <1>4. Part(c, op) \in Sent
    <2>1. Blank \in Stamps
      BY DEF Blank, Stamps, Unknown
    <2>2. \A b \in Stamps : [n |-> b.n, sid |-> b.sid, part |-> op.part] \in Sent
      BY <1>1 DEF Stamps, Sent
    <2>3. data'[c][op.part] \in Stamps
      BY <1>1
    <2> QED
      BY <2>1, <2>2, <2>3 DEF Part
  <1>5. wire \in [Clients -> Seq(Sent)] /\ wire' = [wire EXCEPT ![c] = Append(@, Part(c, op))]
    BY DEF Types, Send
  <1>6. wire' \in [Clients -> Seq(Sent)] /\ \A d \in Clients \ {c} : wire'[d] = wire[d]
    BY <1>4, <1>5
  <1> QED
    BY <1>2, <1>3, <1>6, Sequence

LEMMA SocketHasRoomStep ==
    ASSUME Inv, NEW c \in Clients, SocketHasRoom(c)
    PROVE  Inv'
  <1>1. /\ Types /\ Has(c) /\ \A d \in Clients : Has(d)
        /\ busy.c = NoClient /\ writes[c] # <<>> /\ Send(c, Head(writes[c]), queue)
        /\ writes' = [writes EXCEPT ![c] = Tail(@)]
        /\ UNCHANGED <<sessionID, data, reading, busy, waited, refused, inbox, due, asked, known,
                       taken, gone, whole>>
    BY DEF Inv, SocketHasRoom, client
  <1>2. /\ writes[c] \in Seq(Ops) /\ queue \in Seq(Completions)
        /\ data[c] \in Stamps \X Stamps /\ Tail(writes[c]) \in Seq(Ops)
    <2>1. writes[c] \in Seq(Ops) /\ queue \in Seq(Completions) /\ data[c] \in Stamps \X Stamps
      BY <1>1 DEF Types
    <2> QED
      BY <1>1, <2>1, Popping
  <1>3. PICK op \in Ops : op = Head(writes[c]) /\ op = writes[c][1]
    BY <1>1, <1>2, Popping
  <1>4. /\ wire' \in [Clients -> Seq(Sent)] /\ \A d \in Clients \ {c} : wire'[d] = wire[d]
        /\ Done(c, op) \in Completions /\ queue' = queue \o <<Done(c, op)>>
        /\ queue' \in Seq(Completions) /\ Send(c, op, queue)
    BY <1>1, <1>2, <1>3, SendIs
  <1>5. /\ writes' \in [Clients -> Seq(Ops)] /\ writes'[c] = Tail(writes[c])
        /\ \A d \in Clients \ {c} : writes'[d] = writes[d]
    BY <1>1, <1>2 DEF Types
  <1>6. Types'
    BY <1>1, <1>4, <1>5 DEF Types
  <1>7. Passed(0, {Done(c, op)})
    BY <1>1, <1>2, <1>4, Passing
  <1>8. \A d \in Clients : ~ Reads(Done(c, op), d) /\ (d # c => ~ Sends(Done(c, op), d))
    BY DEF Reads, Sends, Done
  <1>9. ASSUME NEW d \in Clients \ {c}
        PROVE  Has(d)'
    <2>1. /\ Types /\ Has(d) /\ wire'[d] = wire[d] /\ writes'[d] = writes[d]
          /\ UNCHANGED <<sessionID, data, reading, busy, waited, refused, inbox, due, asked, known,
                         taken, gone, whole>>
      BY <1>1, <1>4, <1>5
    <2> QED
      BY <1>7, <1>8, <2>1, Elsewhere
  <1>10. ChainOf(c)'
    BY <1>1, <1>7, <1>8, QuietChain DEF Has
  <1>11. Promised(c)' <=> Promised(c)
    BY <1>1 DEF Promised
  <1>12. ASSUME Promised(c)
         PROVE  OneWriteOf(c)' /\ c \notin Eager
    <2>1. OneWriteOf(c)
      BY <1>1 DEF Has
    <2>2. /\ Len(writes[c]) = 1 /\ op.part <= op.of /\ c \notin Eager
          /\ \A i \in DOMAIN queue : ~ Sends(queue[i], c)
      BY <1>1, <1>3, <1>12, <2>1 DEF OneWriteOf
    <2>3. op \in Open[c]
      BY <1>1, <1>3, <1>12, <2>1, OpenIs
    <2>4. op.sid = sessionID[c] /\ due[c] = wire[c] \o Left(data[c], op)
      BY <1>12, <2>1, <2>3 DEF OneWriteOf
    <2>5. writes'[c] = <<>>
      BY <1>1, <1>2, <1>5, <2>2, Popping
    <2>6. op.sid = sessionID'[c] /\ due'[c] = wire[c] \o Left(data'[c], op)
      BY <1>1, <2>4
    <2>7. OneWriteOf(c)'
      BY <1>1, <1>2, <1>4, <1>6, <1>12, <2>2, <2>5, <2>6, WritesOn
    <2> QED
      BY <2>2, <2>7
  <1>13. OneWriteOf(c)' /\ InOrderOf(c)'
    BY <1>11, <1>12 DEF OneWriteOf, InOrderOf
  <1>14. PatienceOf(c)'
    BY <1>1, QuietPatience DEF Has
  <1>15. KeptOf(c)'
    BY <1>1 DEF Has, KeptOf
  <1> QED
    BY <1>6, <1>9, <1>10, <1>13, <1>14, <1>15 DEF Inv, Has

LEMMA SocketHasDataStep ==
    ASSUME Inv, NEW c \in Clients, SocketHasData(c)
    PROVE  Inv'
  <1> DEFINE header == [kind |-> "header", c |-> c, op |-> <<>>]
             new    == IF inbox[c] # <<>> THEN {header} ELSE {}
  <1>1. /\ Types /\ Has(c) /\ \A d \in Clients : Has(d)
        /\ busy.c = NoClient /\ reading[c]
        /\ reading' = [reading EXCEPT ![c] = FALSE]
        /\ UNCHANGED <<sessionID, data, writes, busy, waited, refused, inbox, wire, due, asked, known,
                       taken, gone, whole>>
    BY DEF Inv, SocketHasData, client
  <1>2. queue \in Seq(Completions) /\ header \in Completions
    BY <1>1 DEF Types, Completions
  <1>3. /\ inbox[c] # <<>> => queue' = queue \o <<header>>
        /\ inbox[c] = <<>> => queue' = queue
    BY <1>2 DEF SocketHasData, Completion
  <1>4. queue' \in Seq(Completions)
    <2>1. PICK x \in Completions : x = header
      BY <1>2
    <2>2. queue \o <<x>> \in Seq(Completions)
      BY <1>2, Sequence
    <2> QED
      BY <1>2, <1>3, <2>1, <2>2
  <1>5. Passed(0, new)
    BY <1>1, <1>2, <1>3, Passing
  <1>6. /\ \A x \in new : Reads(x, c) /\ ~ Sends(x, c)
        /\ \A x \in new, d \in Clients : d # c => ~ Reads(x, d) /\ ~ Sends(x, d)
    BY DEF Reads, Sends
  <1>7. /\ \A d \in Clients \ {c} : reading'[d] = reading[d]
        /\ ~ reading'[c] /\ reading' \in [Clients -> BOOLEAN]
    BY <1>1 DEF Types
  <1>8. Types'
    BY <1>1, <1>4, <1>7 DEF Types
  <1>9. \A i \in DOMAIN queue : ~ Reads(queue[i], c)
    BY <1>1 DEF Has, ChainOf
  <1> HIDE DEF new
  <1>10. ASSUME NEW d \in Clients \ {c}
         PROVE  Has(d)'
    <2>1. /\ Types /\ Has(d) /\ reading'[d] = reading[d]
          /\ UNCHANGED <<sessionID, data, writes, busy, waited, refused, inbox, wire, due, asked, known,
                         taken, gone, whole>>
      BY <1>1, <1>7
    <2> QED
      BY <1>5, <1>6, <2>1, Elsewhere
  <1>11. busy'.c # c
    BY <1>1, SessionsAssumption
  <1>12. OneWriteOf(c)'
    BY <1>1, <1>5, <1>6, QuietWrites DEF Has
  <1>13. ChainOf(c)' /\ InOrderOf(c)'
    <2>1. CASE inbox[c] # <<>>
      <3>1. /\ \A i, j \in DOMAIN queue' : Reads(queue'[i], c) /\ Reads(queue'[j], c) => i = j
            /\ \A i, j \in DOMAIN queue' : Sends(queue'[i], c) /\ Reads(queue'[j], c) => i < j
        <4>1. Passed(0, {header}) /\ Reads(header, c)
          BY <1>5, <2>1 DEF new, Reads
        <4> HIDE DEF header
        <4> QED
          BY <1>1, <1>9, <4>1, NewReads
      <3>2. inbox'[c] # <<>>
        BY <1>1, <2>1
      <3> QED
        BY <1>7, <1>11, <3>1, <3>2 DEF ChainOf, InOrderOf
    <2>2. CASE inbox[c] = <<>>
      <3>1. queue' = queue
        BY <1>3, <2>2
      <3> QED
        BY <1>9, <1>11, <3>1 DEF ChainOf, InOrderOf
    <2> QED
      BY <2>1, <2>2
  <1>14. PatienceOf(c)'
    BY <1>1, QuietPatience DEF Has
  <1>15. KeptOf(c)'
    BY <1>1 DEF Has, KeptOf
  <1> QED
    BY <1>8, <1>10, <1>12, <1>13, <1>14, <1>15 DEF Inv, Has

LEMMA ReadBodyStep ==
    ASSUME Inv, ReadBody
    PROVE  Inv'
  <1>1. /\ Types /\ \A d \in Clients : Has(d)
        /\ queue # <<>> /\ Head(queue).kind = "header" /\ busy.c = NoClient
        /\ queue' = Tail(queue) \o Completion("body", Head(queue).c, <<>>)
        /\ UNCHANGED <<sessionID, reading, data, writes, busy, waited, refused, inbox, wire, due, asked,
                       known, taken, gone, whole>>
    BY DEF Inv, ReadBody, client
  <1>2. /\ queue \in Seq(Completions) /\ Tail(queue) \in Seq(Completions)
        /\ Head(queue) = queue[1] /\ queue[1] \in Completions /\ 1 \in DOMAIN queue
    <2>1. queue \in Seq(Completions)
      BY <1>1 DEF Types
    <2> QED
      BY <1>1, <2>1, Popping
  <1>3. PICK c \in Clients : c = queue[1].c
    BY <1>2 DEF Completions
  <1> DEFINE body == [kind |-> "body", c |-> c, op |-> <<>>]
  <1>4. queue' = Tail(queue) \o <<body>> /\ body \in Completions
    BY <1>1, <1>2, <1>3 DEF Completion, Completions
  <1>5. Reads(queue[1], c) /\ Reads(body, c) /\ \A d \in Clients : ~ Sends(queue[1], d)
    BY <1>1, <1>2, <1>3 DEF Reads, Sends
  <1>6. \A d \in Clients : ~ Sends(body, d) /\ (d # c => ~ Reads(body, d))
    BY DEF Reads, Sends
  <1> HIDE DEF body
  <1>7. queue' \in Seq(Completions)
    BY <1>2, <1>4, Sequence
  <1>8. Passed(1, {body})
    BY <1>1, <1>4, QueueGoesOn
  <1>9. Types'
    BY <1>1, <1>7 DEF Types
  <1>10. ASSUME NEW d \in Clients \ {c}
         PROVE  Has(d)'
    <2>1. /\ Types /\ Has(d)
          /\ UNCHANGED <<sessionID, reading, data, writes, busy, waited, refused, inbox, wire, due,
                         asked, known, taken, gone, whole>>
      BY <1>1
    <2> QED
      BY <1>5, <1>6, <1>8, <2>1, Elsewhere
  <1>11. /\ ~ reading[c] /\ inbox[c] # <<>> /\ busy'.c # c
         /\ \A i \in DOMAIN queue : Reads(queue[i], c) => i = 1
    BY <1>1, <1>2, <1>5, SessionsAssumption DEF Has, ChainOf
  <1>12. \A i \in DOMAIN queue : i > 1 => ~ Reads(queue[i], c)
    BY <1>11
  <1>13. /\ \A i, j \in DOMAIN queue' : Reads(queue'[i], c) /\ Reads(queue'[j], c) => i = j
         /\ \A i, j \in DOMAIN queue' : Sends(queue'[i], c) /\ Reads(queue'[j], c) => i < j
    BY <1>1, <1>5, <1>8, <1>12, NewReads
  <1>14. ChainOf(c)' /\ InOrderOf(c)'
    BY <1>1, <1>11, <1>13 DEF ChainOf, InOrderOf
  <1>15. OneWriteOf(c)'
    BY <1>1, <1>5, <1>6, <1>8, QuietWrites DEF Has
  <1>16. PatienceOf(c)'
    BY <1>1, QuietPatience DEF Has
  <1>17. KeptOf(c)'
    BY <1>1 DEF Has, KeptOf
  <1>18. Has(c)'
    BY <1>14, <1>15, <1>16, <1>17 DEF Has
  <1> QED
    BY <1>9, <1>10, <1>18 DEF Inv

LEMMA StartWriteIs ==
    ASSUME Types, NEW c \in Clients, NEW op \in Ops, data'[c] \in Stamps \X Stamps,
           NEW q \in Seq(Completions), StartWrite(c, op, q)
    PROVE  /\ wire' \in [Clients -> Seq(Sent)] /\ writes' \in [Clients -> Seq(Ops)]
           /\ waited' \in [Clients -> BOOLEAN] /\ queue' \in Seq(Completions)
           /\ \A d \in Clients \ {c} :
                  wire'[d] = wire[d] /\ writes'[d] = writes[d] /\ waited'[d] = waited[d]
           /\ waited[c] => waited'[c]
           /\ queue' = q \/ (Done(c, op) \in Completions /\ queue' = q \o <<Done(c, op)>>)
  <1>1. /\ wire \in [Clients -> Seq(Sent)] /\ writes \in [Clients -> Seq(Ops)]
        /\ waited \in [Clients -> BOOLEAN]
    BY DEF Types
  <1>2. CASE UNCHANGED <<wire, writes, waited>> /\ queue' = q
    BY <1>1, <1>2
  <1>3. CASE Send(c, op, q) /\ UNCHANGED <<writes, waited>>
    BY <1>1, <1>3, SendIs
  <1>4. CASE /\ writes' = [writes EXCEPT ![c] = Append(@, op)]
             /\ waited' = [waited EXCEPT ![c] = TRUE]
             /\ queue' = q /\ UNCHANGED wire
    BY <1>1, <1>4
  <1> QED
    BY <1>2, <1>3, <1>4 DEF StartWrite

\* A write of c begins or goes on: from there the answer is sent whole.
LEMMA StartedWhole ==
    ASSUME Types, Types', NEW c \in Clients, OneWriteOf(c), Promised(c), gone' = gone,
           writes[c] = <<>>, NEW op \in Ops, op.part <= op.of,
           op.sid = sessionID'[c], due'[c] = wire[c] \o Left(data'[c], op),
           NEW k \in {0, 1}, NEW q \in Seq(Completions),
           IF k = 0 THEN q = queue ELSE queue # <<>> /\ q = Tail(queue),
           \A i \in DOMAIN queue : i > k => ~ Sends(queue[i], c),
           StartWrite(c, op, q)
    PROVE  OneWriteOf(c)'
  <1>1. ~ gone[c] /\ writes \in [Clients -> Seq(Ops)] /\ waited \in [Clients -> BOOLEAN]
    BY DEF Promised, Types
  <1>2. CASE Send(c, op, q) /\ UNCHANGED writes
    <2>1. writes'[c] = <<>>
      BY <1>2
    <2> QED
      BY <1>2, <2>1, WritesOn
  <1>3. CASE /\ writes' = [writes EXCEPT ![c] = Append(@, op)]
             /\ waited' = [waited EXCEPT ![c] = TRUE] /\ queue' = q /\ UNCHANGED wire
    <2>1. writes'[c] = Append(<<>>, op) /\ waited'[c]
      BY <1>1, <1>3
    <2>2. writes'[c] = <<op>>
      BY <2>1
    <2>3. writes'[c] # <<>>
      BY <2>2
    <2>4. CASE c \in Eager
      BY <2>1, <2>4 DEF OneWriteOf, Promised
    <2>5. CASE c \notin Eager
      BY <1>3, <2>2, <2>3, <2>5, WritesOn
    <2> QED
      BY <2>4, <2>5
  <1> QED
    BY <1>1, <1>2, <1>3 DEF StartWrite

-----------------------------------------------------------------------------
(* The driver's thread.                                                      *)
Portions(r, sid) == IF Parts(r.cmd) = 1 THEN <<[n |-> r.n, sid |-> sid, part |-> 1]>>
                    ELSE <<[n |-> r.n, sid |-> sid, part |-> 1], [n |-> r.n, sid |-> sid, part |-> 2]>>

LEMMA PartsAre ==
    \A cmd : Parts(cmd) = 1 \/ Parts(cmd) = 2
  BY DEF Parts

LEMMA PortionsAre ==
    ASSUME NEW r \in Requests, NEW sid \in Int
    PROVE  [k \in 1 .. Parts(r.cmd) |-> [n |-> r.n, sid |-> sid, part |-> k]] = Portions(r, sid)
  <1> DEFINE f == [k \in 1 .. Parts(r.cmd) |-> [n |-> r.n, sid |-> sid, part |-> k]]
             x(k) == [n |-> r.n, sid |-> sid, part |-> k]
  <1>1. CASE Parts(r.cmd) = 1
    <2>1. f = [k \in 1 .. 1 |-> x(k)]
      BY <1>1
    <2>2. DOMAIN <<x(1)>> = 1 .. 1
      OBVIOUS
    <2>3. f = <<x(1)>>
      BY <2>1, <2>2
    <2> QED
      BY <1>1, <2>3 DEF Portions
  <1>2. CASE Parts(r.cmd) = 2
    <2>1. f = [k \in 1 .. 2 |-> x(k)]
      BY <1>2
    <2>2. DOMAIN <<x(1), x(2)>> = 1 .. 2
      OBVIOUS
    <2>3. f = <<x(1), x(2)>>
      BY <2>1, <2>2
    <2> QED
      BY <1>2, <2>3 DEF Portions
  <1> QED
    BY <1>1, <1>2, PartsAre

Opening(c, r) == [part |-> 1, of |-> Parts(r.cmd), sid |-> sessionID'[c]]

LEMMA AnswerIs ==
    ASSUME Types, NEW c \in Clients, NEW r \in Requests, NEW q \in Seq(Completions),
           Answer(c, r, q), sessionID'[c] = AnswerID(c, r.cmd), sessionID'[c] \in Nat
    PROVE  /\ data' \in [Clients -> Stamps \X Stamps] /\ due' = [d \in Clients |-> due'[d]]
           /\ \A d \in Clients \ {c} : data'[d] = data[d] /\ due'[d] = due[d]
           /\ Opening(c, r) \in Ops /\ StartWrite(c, Opening(c, r), q)
           /\ ~ gone[c] => due'[c] = due[c] \o Portions(r, sessionID'[c])
           /\ Left(data'[c], Opening(c, r)) = Portions(r, sessionID'[c])
  <1>1. /\ r.n \in Nat /\ Parts(r.cmd) \in 1 .. 2
        /\ data \in [Clients -> Stamps \X Stamps] /\ due = [d \in Clients |-> due[d]]
    BY PartsAre DEF Requests, Types
  <1>2. Opening(c, r) \in Ops
    BY <1>1 DEF Opening, Ops
  <1> DEFINE stamp == [n |-> r.n, sid |-> sessionID'[c]]
             second == IF Parts(r.cmd) = 2 THEN stamp
                       ELSE IF r.cmd = "HANDSHAKE" THEN Blank ELSE data[c][2]
  <1>3. stamp \in Stamps /\ second \in Stamps /\ data[c] \in Stamps \X Stamps
    <2>1. stamp \in Stamps /\ Blank \in Stamps /\ data[c] \in Stamps \X Stamps
      BY <1>1 DEF Stamps, Blank, Unknown
    <2>2. data[c][2] \in Stamps
      BY <2>1
    <2> QED
      BY <2>1, <2>2
  <1>4. /\ data' = [data EXCEPT ![c] = <<stamp, second>>]
        /\ due' = [due EXCEPT ![c] = IF gone[c] THEN @ ELSE @ \o
                      [k \in 1 .. Parts(r.cmd) |-> [n |-> r.n, sid |-> sessionID'[c], part |-> k]]]
        /\ StartWrite(c, Opening(c, r), q)
    BY <1>1 DEF Answer, Opening
  <1>5. data'[c] = <<stamp, second>> /\ (Parts(r.cmd) = 2 => second = stamp)
    BY <1>1, <1>4
  <1> HIDE DEF second
  <1>6. data' \in [Clients -> Stamps \X Stamps] /\ \A d \in Clients \ {c} : data'[d] = data[d]
    BY <1>1, <1>3, <1>4
  <1>7. due' = [d \in Clients |-> due'[d]] /\ \A d \in Clients \ {c} : due'[d] = due[d]
    BY <1>1, <1>4
  <1>8. ~ gone[c] => due'[c] = due[c] \o Portions(r, sessionID'[c])
    <2>1. [k \in 1 .. Parts(r.cmd) |-> [n |-> r.n, sid |-> sessionID'[c], part |-> k]]
              = Portions(r, sessionID'[c])
      <3>1. PICK sid \in Int : sid = sessionID'[c]
        OBVIOUS
      <3> QED
        BY <3>1, PortionsAre
    <2> QED
      BY <1>1, <1>4, <2>1
  <1>9. Left(data'[c], Opening(c, r)) = Portions(r, sessionID'[c])
    <2>1. /\ data'[c][1] = stamp
          /\ Parts(r.cmd) = 2 => data'[c][2] = stamp
          /\ Opening(c, r).part = 1 /\ Opening(c, r).of = Parts(r.cmd)
      BY <1>5 DEF Opening
    <2>2. CASE Parts(r.cmd) = 1
      BY <2>1, <2>2 DEF Left, Portions, Stamped
    <2>3. CASE Parts(r.cmd) = 2
      BY <2>1, <2>3 DEF Left, Portions, Stamped
    <2> QED
      BY <2>2, <2>3, PartsAre
  <1> QED
    BY <1>2, <1>4, <1>6, <1>7, <1>8, <1>9

\* The driver answers a client that takes one answer at a time.
LEMMA AnsweredWhole ==
    ASSUME Types, Types', NEW c \in Clients, OneWriteOf(c), Promised(c) => Open[c] = {}, gone' = gone,
           NEW r \in Requests, NEW k \in {0, 1}, NEW q \in Seq(Completions),
           IF k = 0 THEN q = queue ELSE queue # <<>> /\ q = Tail(queue),
           Answer(c, r, q), sessionID'[c] = AnswerID(c, r.cmd)
    PROVE  OneWriteOf(c)'
  <1>1. sessionID'[c] \in Nat
    BY DEF Types
  <1>2. PICK op \in Ops : op = Opening(c, r)
    BY <1>1, AnswerIs
  <1>3. /\ StartWrite(c, op, q) /\ data'[c] \in Stamps \X Stamps
        /\ ~ gone[c] => due'[c] = due[c] \o Portions(r, sessionID'[c])
        /\ Left(data'[c], op) = Portions(r, sessionID'[c])
    BY <1>1, <1>2, AnswerIs
  <1>4. waited[c] => waited'[c]
    BY <1>3, StartWriteIs
  <1>5. CASE ~ Promised(c)
    BY <1>4, <1>5 DEF OneWriteOf, Promised
  <1>6. CASE Promised(c)
    <2>1. /\ writes[c] = <<>> /\ due[c] = wire[c] /\ ~ gone[c]
          /\ \A i \in DOMAIN queue : ~ Sends(queue[i], c)
      BY <1>6, OpenIs DEF OneWriteOf, Promised
    <2>2. op.part <= op.of /\ op.sid = sessionID'[c]
      BY <1>2, PartsAre DEF Opening
    <2>3. due'[c] = wire[c] \o Left(data'[c], op)
      BY <1>3, <2>1
    <2> QED
      BY <1>3, <1>6, <2>1, <2>2, <2>3, StartedWhole
  <1> QED
    BY <1>5, <1>6

LEMMA AnswerIsDue ==
    ASSUME Types, NEW c \in Clients, ~ gone[c], NEW r \in Requests,
           r.n = asked[c].n, r.cmd = asked[c].cmd, ~ Silent(r.cmd),
           due[c] = <<>>, due'[c] = due[c] \o Portions(r, sessionID'[c]), sessionID'[c] \in Nat,
           taken[c].n < asked[c].n, inbox'[c] = <<>>, busy'.c # c,
           UNCHANGED <<asked, taken, known, gone>>
    PROVE  PatienceOf(c)'
  <1>1. asked[c].n \in Nat /\ taken[c].n \in Nat
    BY DEF Types, Asks, Takes
  <1>2. Portion(c, 1)' = [n |-> r.n, sid |-> sessionID'[c], part |-> 1]
        /\ Portion(c, 2)' = [n |-> r.n, sid |-> sessionID'[c], part |-> 2]
    BY DEF Portion
  <1>3. Portion(c, 1)' \in Sent /\ Portion(c, 2)' \in Sent
    BY <1>1, <1>2 DEF Sent
  <1>4. PICK a \in Sent, b \in Sent : a = Portion(c, 1)' /\ b = Portion(c, 2)'
    BY <1>3
  <1>5. <<>> \o <<a>> = <<a>> /\ <<>> \o <<a, b>> = <<a, b>>
    OBVIOUS
  <1>6. \/ Parts(r.cmd) = 1 /\ due'[c] = <<a>>
        \/ Parts(r.cmd) = 2 /\ due'[c] = <<a, b>>
    BY <1>2, <1>4, <1>5, PartsAre DEF Portions
  <1>7. due'[c] # <<>>
    <2>1. <<a>> # <<>> /\ <<a, b>> # <<>>
      OBVIOUS
    <2> QED
      BY <1>6, <2>1
  <1>8. taken'[c].n <= asked'[c].n /\ taken'[c].n < asked'[c].n
    BY <1>1
  <1> QED
    BY <1>4, <1>6, <1>7, <1>8 DEF PatienceOf

LEMMA WorkersDoneStep ==
    ASSUME Inv, WorkersDone
    PROVE  Inv'
  <1>1. /\ Types /\ \A d \in Clients : Has(d)
        /\ busy.c # NoClient /\ Answer(busy.c, busy.r, queue)
        /\ reading' = [reading EXCEPT ![busy.c] = TRUE] /\ busy' = [c |-> NoClient]
        /\ UNCHANGED <<sessionID, refused, inbox, asked, known, taken, gone, whole>>
    BY DEF Inv, WorkersDone, client
  <1>2. busy \in [c: Clients, r: Requests]
    BY <1>1 DEF Types
  <1>3. PICK c \in Clients, r \in Requests : busy.c = c /\ busy.r = r
    BY <1>2
  <1>4. Has(c) /\ r.cmd \in Blocking /\ ~ reading[c] /\ \A i \in DOMAIN queue : ~ Reads(queue[i], c)
    BY <1>1, <1>3 DEF Has, ChainOf
  <1>5. /\ sessionID'[c] = AnswerID(c, r.cmd) /\ sessionID'[c] \in Nat
        /\ queue \in Seq(Completions) /\ Answer(c, r, queue)
    BY <1>1, <1>3, <1>4 DEF AnswerID, Blocking, Types
  <1>6. PICK op \in Ops : op = Opening(c, r)
    BY <1>1, <1>5, AnswerIs
  <1>7. /\ data' \in [Clients -> Stamps \X Stamps] /\ due' = [d \in Clients |-> due'[d]]
        /\ \A d \in Clients \ {c} : data'[d] = data[d] /\ due'[d] = due[d]
        /\ StartWrite(c, op, queue)
        /\ ~ gone[c] => due'[c] = due[c] \o Portions(r, sessionID'[c])
    BY <1>1, <1>5, <1>6, AnswerIs
  <1>8. /\ wire' \in [Clients -> Seq(Sent)] /\ writes' \in [Clients -> Seq(Ops)]
        /\ waited' \in [Clients -> BOOLEAN] /\ queue' \in Seq(Completions)
        /\ \A d \in Clients \ {c} :
               wire'[d] = wire[d] /\ writes'[d] = writes[d] /\ waited'[d] = waited[d]
        /\ waited[c] => waited'[c]
        /\ queue' = queue \/ (Done(c, op) \in Completions /\ queue' = queue \o <<Done(c, op)>>)
    BY <1>1, <1>5, <1>7, StartWriteIs
  <1>9. /\ reading' \in [Clients -> BOOLEAN]
        /\ \A d \in Clients \ {c} : reading'[d] = reading[d]
    BY <1>1, <1>3 DEF Types
  <1>10. Types'
    BY <1>1, <1>7, <1>8, <1>9 DEF Types
  <1>11. PICK new \in {{}, {Done(c, op)}} : Passed(0, new)
    BY <1>1, <1>5, <1>8, Passing
  <1>12. /\ \A x \in new, d \in Clients : ~ Reads(x, d)
         /\ \A x \in new, d \in Clients \ {c} : ~ Sends(x, d)
    BY <1>11 DEF Reads, Sends, Done
  <1>13. \A d \in Clients : busy'.c # d
    BY <1>1, SessionsAssumption
  <1>14. ASSUME NEW d \in Clients \ {c}
         PROVE  Has(d)'
    <2>1. /\ Types /\ Has(d) /\ wire'[d] = wire[d] /\ writes'[d] = writes[d]
          /\ waited'[d] = waited[d] /\ data'[d] = data[d] /\ due'[d] = due[d]
          /\ reading'[d] = reading[d] /\ busy'.c # d
          /\ UNCHANGED <<sessionID, refused, inbox, asked, known, taken, gone, whole>>
      BY <1>1, <1>7, <1>8, <1>9, <1>13
    <2> QED
      BY <1>11, <1>12, <2>1, Elsewhere
  <1>15. \A i \in DOMAIN queue' : ~ Reads(queue'[i], c)
    BY <1>1, <1>4, <1>11, <1>12, NoReads
  <1>16. ChainOf(c)' /\ InOrderOf(c)'
    BY <1>13, <1>15 DEF ChainOf, InOrderOf
  <1>17. Promised(c) => Open[c] = {}
    <2>1. CASE c \in Eager
      BY <1>3, <1>4, <2>1 DEF Has, InOrderOf
    <2>2. CASE c \notin Eager
      <3>1. due[c] = <<>>
        BY <1>3, <1>4, <2>2 DEF Has, PatienceOf
      <3> QED
        BY <1>1, <1>4, <3>1, OpenIs DEF Has
    <2> QED
      BY <2>1, <2>2
  <1>18. OneWriteOf(c)'
    BY <1>1, <1>4, <1>5, <1>10, <1>17, AnsweredWhole DEF Has
  <1>19. ASSUME c \notin Eager
         PROVE  PatienceOf(c)'
    <2>1. /\ ~ gone[c] /\ inbox[c] = <<>> /\ taken[c].n < asked[c].n /\ due[c] = <<>>
          /\ r.n = asked[c].n /\ r.cmd = asked[c].cmd
      BY <1>3, <1>4, <1>19 DEF Has, PatienceOf
    <2>2. ~ Silent(r.cmd)
      BY <1>4 DEF Silent
    <2> QED
      BY <1>1, <1>5, <1>7, <1>13, <2>1, <2>2, AnswerIsDue
  <1>20. KeptOf(c)'
    BY <1>1, <1>4, <1>8 DEF Has, KeptOf
  <1>21. Has(c)'
    BY <1>16, <1>18, <1>19, <1>20 DEF Has, PatienceOf
  <1> QED
    BY <1>10, <1>14, <1>21 DEF Inv

LEMMA ContinueWriteStep ==
    ASSUME Inv, ContinueWrite
    PROVE  Inv'
  <1>1. /\ Types /\ \A d \in Clients : Has(d)
        /\ queue # <<>> /\ Head(queue).kind = "write" /\ busy.c = NoClient
        /\ UNCHANGED <<sessionID, data, reading, busy, refused, inbox, due, asked, known, taken, gone,
                       whole>>
    BY DEF Inv, ContinueWrite, client
  <1>2. /\ queue \in Seq(Completions) /\ Tail(queue) \in Seq(Completions)
        /\ Head(queue) = queue[1] /\ queue[1] \in Completions /\ 1 \in DOMAIN queue
    <2>1. queue \in Seq(Completions)
      BY <1>1 DEF Types
    <2> QED
      BY <1>1, <2>1, Popping
  <1>3. PICK c \in Clients, op \in Nexts : c = queue[1].c /\ op = queue[1].op
    BY <1>1, <1>2 DEF Completions
  <1>4. /\ queue[1].kind = "write" /\ (Sends(queue[1], c) <=> op.part <= op.of)
        /\ \A d \in Clients : ~ Reads(queue[1], d) /\ (d # c => ~ Sends(queue[1], d))
    BY <1>1, <1>2, <1>3 DEF Sends, Reads
  <1>5. CASE ~ Rest(op)
    <2>1. ~ Sends(queue[1], c)
      BY <1>4, <1>5 DEF Rest
    <2>2. queue' = Tail(queue) /\ UNCHANGED <<wire, writes, waited>>
      BY <1>2, <1>3, <1>5 DEF ContinueWrite
    <2>3. Passed(1, {})
      BY <1>1, <2>2, QueueGoesOn
    <2>4. Types'
      BY <1>1, <1>2, <2>2 DEF Types
    <2>5. ASSUME NEW d \in Clients
          PROVE  Has(d)'
      <3>1. /\ Types /\ Has(d) /\ ~ Sends(queue[1], d) /\ UNCHANGED <<wire, writes, waited>>
            /\ UNCHANGED <<sessionID, data, reading, busy, refused, inbox, due, asked, known, taken,
                           gone, whole>>
        BY <1>1, <1>4, <2>1, <2>2
      <3> QED
        BY <2>3, <3>1, Elsewhere
    <2> QED
      BY <2>4, <2>5 DEF Inv
  <1>6. CASE Rest(op)
    <2>1. /\ op.part <= op.of /\ op \in Ops /\ op.part = 2 /\ op.of = 2
          /\ Sends(queue[1], c)
      BY <1>4, <1>6 DEF Rest, Nexts, Ops
    <2>2. StartWrite(c, op, Tail(queue))
      BY <1>2, <1>3, <1>6 DEF ContinueWrite
    <2>3. data'[c] \in Stamps \X Stamps /\ data' = data
      BY <1>1 DEF Types
    <2>4. /\ wire' \in [Clients -> Seq(Sent)] /\ writes' \in [Clients -> Seq(Ops)]
          /\ waited' \in [Clients -> BOOLEAN] /\ queue' \in Seq(Completions)
          /\ \A d \in Clients \ {c} :
                 wire'[d] = wire[d] /\ writes'[d] = writes[d] /\ waited'[d] = waited[d]
          /\ waited[c] => waited'[c]
          /\ \/ queue' = Tail(queue)
             \/ Done(c, op) \in Completions /\ queue' = Tail(queue) \o <<Done(c, op)>>
      BY <1>1, <1>2, <2>1, <2>2, <2>3, StartWriteIs
    <2>5. Types'
      BY <1>1, <2>4 DEF Types
    <2>6. PICK new \in {{}, {Done(c, op)}} : Passed(1, new)
      BY <1>1, <2>4, QueueGoesOn
    \* The part that goes out now is the last.
    <2>7. \A x \in new, d \in Clients : ~ Reads(x, d) /\ ~ Sends(x, d)
      <3>1. Done(c, op).kind = "write" /\ Done(c, op).op = After(op) /\ ~ After(op).part <= After(op).of
        BY <2>1 DEF Done, After, Ops
      <3> QED
        BY <2>6, <3>1 DEF Reads, Sends
    <2>8. \A d \in Clients : busy'.c # d
      BY <1>1, SessionsAssumption
    <2>9. ASSUME NEW d \in Clients \ {c}
          PROVE  Has(d)'
      <3>1. /\ Types /\ Has(d) /\ wire'[d] = wire[d] /\ writes'[d] = writes[d]
            /\ waited'[d] = waited[d] /\ ~ Sends(queue[1], d) /\ busy'.c # d
            /\ UNCHANGED <<sessionID, data, reading, busy, refused, inbox, due, asked, known, taken,
                           gone, whole>>
        BY <1>1, <1>4, <2>4, <2>8
      <3> QED
        BY <2>6, <2>7, <3>1, Elsewhere
    <2>10. ChainOf(c)'
      BY <1>1, <2>6, <2>7, QuietChain DEF Has
    <2>11. Promised(c)' => Promised(c)
      BY <1>1, <2>4 DEF Promised
    <2>12. ASSUME Promised(c)
           PROVE  /\ OneWriteOf(c)'
                  /\ \A i \in DOMAIN queue : Sends(queue[i], c) => i = 1
      <3>1. OneWriteOf(c)
        BY <1>1 DEF Has
      <3>2. \A i \in DOMAIN queue : Sends(queue[i], c) => i = 1
        BY <1>2, <2>1, <2>12, <3>1 DEF OneWriteOf
      <3>3. writes[c] = <<>>
        BY <1>2, <2>1, <2>12, <3>1 DEF OneWriteOf
      <3>4. op \in Open[c]
        BY <1>1, <1>2, <1>3, <2>1, <2>12, <3>1, OpenIs
      <3>5. op.sid = sessionID'[c] /\ due'[c] = wire[c] \o Left(data'[c], op) /\ gone' = gone
        BY <1>1, <2>12, <3>1, <3>4 DEF OneWriteOf
      <3>6. \A i \in DOMAIN queue : i > 1 => ~ Sends(queue[i], c)
        BY <3>2
      <3>7. OneWriteOf(c)'
        <4>1. PICK k \in {0, 1}, q \in Seq(Completions) : k = 1 /\ q = Tail(queue)
          BY <1>2
        <4>2. /\ IF k = 0 THEN q = queue ELSE queue # <<>> /\ q = Tail(queue)
              /\ StartWrite(c, op, q) /\ \A i \in DOMAIN queue : i > k => ~ Sends(queue[i], c)
          BY <1>1, <2>2, <3>6, <4>1
        <4> QED
          BY <1>1, <2>1, <2>5, <2>12, <3>1, <3>3, <3>5, <4>2, StartedWhole
      <3> QED
        BY <3>2, <3>7
    <2>13. InOrderOf(c)'
      <3>1. SUFFICES ASSUME Promised(c)
                     PROVE  \A i \in DOMAIN queue' : ~ Sends(queue'[i], c)
        BY <2>8, <2>11 DEF InOrderOf
      <3>2. DOMAIN queue' \subseteq Nat /\ 0 \notin DOMAIN queue'
        BY <2>6, LenProperties DEF Passed
      <3>3. \A i \in DOMAIN queue' : Sends(queue'[i], c) =>
                i + 1 \in DOMAIN queue /\ Sends(queue[i + 1], c)
        BY <2>6, <2>7 DEF Passed
      <3> QED
        BY <2>12, <3>1, <3>2, <3>3
    <2>14. PatienceOf(c)'
      BY <1>1, QuietPatience DEF Has
    <2>15. KeptOf(c)'
      BY <1>1, <2>4 DEF Has, KeptOf
    <2>16. OneWriteOf(c)'
      BY <2>11, <2>12 DEF OneWriteOf
    <2>17. Has(c)'
      BY <2>10, <2>13, <2>14, <2>15, <2>16 DEF Has
    <2> QED
      BY <2>5, <2>9, <2>17 DEF Inv
  <1> QED
    BY <1>5, <1>6

\* A patient client whose first request is taken from its inbox, and not answered yet.
LEMMA RequestIsTaken ==
    ASSUME Types, NEW c \in Clients, c \notin Eager, PatienceOf(c), inbox[c] # <<>>,
           inbox'[c] = Tail(inbox[c]), sessionID'[c] = sessionID[c], due'[c] = due[c],
           UNCHANGED <<asked, known, taken, gone>>,
           busy'.c = c => /\ inbox'[c] = <<>> /\ taken[c].n < asked[c].n
                          /\ busy'.r.n = asked[c].n /\ busy'.r.cmd = asked[c].cmd
    PROVE  PatienceOf(c)'
  <1>1. inbox[c] \in Seq(Requests)
    BY DEF Types
  <1>2. /\ inbox'[c] \in Seq(Requests) /\ Len(inbox'[c]) = Len(inbox[c]) - 1 /\ Len(inbox[c]) \in Nat
        /\ \A i \in 1 .. Len(inbox[c]) - 1 : inbox'[c][i] = inbox[c][i + 1]
    BY <1>1, Popping
  <1>3. DOMAIN inbox'[c] = 1 .. Len(inbox[c]) - 1 /\ DOMAIN inbox[c] = 1 .. Len(inbox[c])
    BY <1>1, <1>2, LenProperties
  <1>4. ASSUME NEW i \in DOMAIN inbox'[c]
        PROVE  /\ inbox'[c][i].cmd \in Handshakes \/ inbox'[c][i].sid = sessionID'[c]
               /\ i # Len(inbox'[c]) => Silent(inbox'[c][i].cmd)
               /\ i = Len(inbox'[c]) =>
                      inbox'[c][i].n = asked'[c].n /\ inbox'[c][i].cmd = asked'[c].cmd
    <2>1. PICK j \in DOMAIN inbox[c] : j = i + 1
      BY <1>2, <1>3
    <2>2. inbox'[c][i] = inbox[c][j] /\ (i = Len(inbox'[c]) <=> j = Len(inbox[c]))
      <3>1. i \in 1 .. Len(inbox[c]) - 1 /\ inbox'[c][i] = inbox[c][i + 1]
        BY <1>2, <1>3
      <3>2. i = Len(inbox'[c]) <=> j = Len(inbox[c])
        BY <1>2, <2>1, <3>1
      <3> QED
        BY <2>1, <3>1, <3>2
    <2>3. /\ inbox[c][j].cmd \in Handshakes \/ inbox[c][j].sid = sessionID[c]
          /\ j # Len(inbox[c]) => Silent(inbox[c][j].cmd)
          /\ j = Len(inbox[c]) => inbox[c][j].n = asked[c].n /\ inbox[c][j].cmd = asked[c].cmd
      BY DEF PatienceOf
    <2> QED
      BY <2>2, <2>3
  <1>5. /\ ~ gone[c] /\ taken[c].n <= asked[c].n /\ due[c] = <<>>
        /\ taken[c].n < asked[c].n \/ Silent(asked[c].cmd)
        /\ known[c] \in {Unknown, sessionID[c]}
    BY DEF PatienceOf
  <1> QED
    BY <1>4, <1>5 DEF PatienceOf

LEMMA FirstRequest ==
    ASSUME Types, NEW c \in Clients, c \notin Eager, PatienceOf(c), NEW r, inbox[c] # <<>>,
           r = Head(inbox[c])
    PROVE  /\ r.cmd \in Handshakes \/ r.sid = sessionID[c]
           /\ due[c] = <<>> /\ ~ gone[c]
           /\ ~ Silent(r.cmd) => /\ Tail(inbox[c]) = <<>> /\ taken[c].n < asked[c].n
                                 /\ r.n = asked[c].n /\ r.cmd = asked[c].cmd
  <1>1. inbox[c] \in Seq(Requests)
    BY DEF Types
  <1>2. /\ r = inbox[c][1] /\ 1 \in DOMAIN inbox[c]
        /\ Len(inbox[c]) = 1 => Tail(inbox[c]) = <<>>
    BY <1>1, Popping
  <1>3. /\ r.cmd \in Handshakes \/ r.sid = sessionID[c]
        /\ 1 # Len(inbox[c]) => Silent(r.cmd)
        /\ 1 = Len(inbox[c]) => r.n = asked[c].n /\ r.cmd = asked[c].cmd
    BY <1>2 DEF PatienceOf
  <1>4. /\ ~ gone[c] /\ due[c] = <<>>
        /\ taken[c].n < asked[c].n \/ Silent(asked[c].cmd)
    BY DEF PatienceOf
  <1> QED
    BY <1>2, <1>3, <1>4

LEMMA RunHandleMessageStep ==
    ASSUME Inv, RunHandleMessage
    PROVE  Inv'
  <1>1. /\ Types /\ \A d \in Clients : Has(d)
        /\ queue # <<>> /\ Head(queue).kind = "body" /\ busy.c = NoClient
        /\ UNCHANGED <<asked, known, taken, gone, whole>>
    BY DEF Inv, RunHandleMessage, client
  <1>2. /\ queue \in Seq(Completions) /\ Tail(queue) \in Seq(Completions)
        /\ Head(queue) = queue[1] /\ queue[1] \in Completions /\ 1 \in DOMAIN queue
    <2>1. queue \in Seq(Completions)
      BY <1>1 DEF Types
    <2> QED
      BY <1>1, <2>1, Popping
  <1>3. PICK c \in Clients : c = queue[1].c
    BY <1>2 DEF Completions
  <1>4. Reads(queue[1], c) /\ Has(c) /\ \A d \in Clients : ~ Sends(queue[1], d)
    BY <1>1, <1>2, <1>3 DEF Reads, Sends
  <1>5. /\ ~ reading[c] /\ inbox[c] # <<>>
        /\ \A i \in DOMAIN queue : Reads(queue[i], c) => i = 1
    BY <1>2, <1>4 DEF Has, ChainOf
  <1>6. inbox \in [Clients -> Seq(Requests)] /\ Tail(inbox[c]) \in Seq(Requests)
    <2>1. inbox \in [Clients -> Seq(Requests)]
      BY <1>1 DEF Types
    <2> QED
      BY <1>5, <2>1, Popping
  <1>7. PICK r \in Requests : r = Head(inbox[c])
    BY <1>5, <1>6, Popping
  <1> DEFINE right == r.cmd \in Handshakes \/ r.sid = sessionID[c]
  <1>8. /\ inbox' = [inbox EXCEPT ![c] = Tail(@)]
        /\ HandleMessage(c, r, Tail(queue))
    BY <1>2, <1>3, <1>7 DEF RunHandleMessage
  <1>9. /\ inbox' \in [Clients -> Seq(Requests)] /\ inbox'[c] = Tail(inbox[c])
        /\ \A d \in Clients \ {c} : inbox'[d] = inbox[d]
    BY <1>6, <1>8
  <1>10. /\ sessionID' \in [Clients -> Nat] /\ sessionID'[c] = AnswerID(c, r.cmd)
         /\ r.cmd # "HANDSHAKE" => sessionID'[c] = sessionID[c]
         /\ \A d \in Clients \ {c} : sessionID'[d] = sessionID[d]
    <2>1. /\ sessionID \in [Clients -> Nat]
          /\ sessionID' = [sessionID EXCEPT ![c] = IF r.cmd = "HANDSHAKE" THEN @ + 1 ELSE @]
      BY <1>1, <1>8 DEF Types, HandleMessage
    <2> QED
      BY <2>1 DEF AnswerID
  <1>11. /\ refused' \in [Clients -> BOOLEAN]
         /\ right => refused'[c] = refused[c]
         /\ \A d \in Clients \ {c} : refused'[d] = refused[d]
    <2>1. refused \in [Clients -> BOOLEAN] /\ refused' = [refused EXCEPT ![c] = @ \/ ~ right]
      BY <1>1, <1>8 DEF Types, HandleMessage
    <2> QED
      BY <2>1
  <1>12. \A i \in DOMAIN queue : i > 1 => ~ Reads(queue[i], c)
    BY <1>5
  <1>13. c \notin Eager => /\ right /\ due[c] = <<>> /\ ~ gone[c]
                           /\ ~ Silent(r.cmd) => /\ Tail(inbox[c]) = <<>> /\ taken[c].n < asked[c].n
                                                 /\ r.n = asked[c].n /\ r.cmd = asked[c].cmd
    BY <1>1, <1>4, <1>5, <1>7, FirstRequest DEF Has
  <1>14. Promised(c) => Open[c] = {}
    <2>1. SUFFICES ASSUME Promised(c)
                   PROVE  Open[c] = {}
      OBVIOUS
    <2>2. OneWriteOf(c)
      BY <1>4 DEF Has
    <2>3. CASE c \notin Eager
      BY <1>1, <1>13, <2>1, <2>2, <2>3, OpenIs
    <2>4. CASE c \in Eager
      <3>1. \A i \in DOMAIN queue : ~ Sends(queue[i], c)
        <4>1. \A i \in DOMAIN queue : Sends(queue[i], c) => i < 1
          BY <1>2, <1>4, <2>1, <2>4 DEF Has, InOrderOf
        <4>2. DOMAIN queue \subseteq Nat /\ 0 \notin DOMAIN queue
          BY <1>1, Domains
        <4> QED
          BY <4>1, <4>2
      <3>2. writes[c] = <<>>
        BY <2>1, <2>2, <2>4 DEF OneWriteOf
      <3> QED
        BY <3>1, <3>2 DEF Open
    <2> QED
      BY <2>3, <2>4
  <1>15. ~ Sends(queue[1], c) /\ \A d \in Clients \ {c} : ~ Sends(queue[1], d) /\ ~ Reads(queue[1], d)
    BY <1>2, <1>3, <1>4 DEF Reads
  \* It is not answered at once.
  <1>16. CASE r.cmd \in Blocking \/ ~ right \/ Silent(r.cmd)
    <2>1. r.cmd # "HANDSHAKE"
      BY <1>16 DEF Blocking, Silent, Handshakes
    <2>2. NoAnswer(Tail(queue))
      BY <1>8, <1>16 DEF HandleMessage
    <2>3. UNCHANGED <<data, due, wire, writes, waited>> /\ queue' = Tail(queue)
      BY <2>2 DEF NoAnswer
    <2>4. Passed(1, {})
      BY <1>1, <2>3, QueueGoesOn
    <2>5. /\ sessionID'[c] = sessionID[c]
          /\ sessionID' \in [Clients -> Nat] /\ \A d \in Clients \ {c} : sessionID'[d] = sessionID[d]
      BY <1>10, <2>1
    <2>6. \/ /\ busy' = [c |-> c, r |-> r] /\ r.cmd \in Blocking /\ right
             /\ UNCHANGED reading
          \/ /\ ~ (right /\ r.cmd \in Blocking) /\ UNCHANGED busy
             /\ reading' = [reading EXCEPT ![c] = right /\ Listens(r.cmd)]
      BY <1>8 DEF HandleMessage
    <2>7. /\ reading' \in [Clients -> BOOLEAN]
          /\ \A d \in Clients \ {c} : reading'[d] = reading[d] /\ busy'.c # d
          /\ busy = [c |-> NoClient] \/ busy \in [c: Clients, r: Requests]
          /\ busy' = [c |-> NoClient] \/ busy' \in [c: Clients, r: Requests]
          /\ busy'.c = c => /\ busy' = [c |-> c, r |-> r] /\ r.cmd \in Blocking /\ right
                            /\ ~ reading'[c]
      <3>1. /\ reading \in [Clients -> BOOLEAN] /\ busy.c = NoClient /\ NoClient \notin Clients
            /\ busy = [c |-> NoClient] \/ busy \in [c: Clients, r: Requests]
        BY <1>1, SessionsAssumption DEF Types
      <3>2. CASE /\ busy' = [c |-> c, r |-> r] /\ r.cmd \in Blocking /\ right
                 /\ UNCHANGED reading
        <4>1. busy' \in [c: Clients, r: Requests] /\ busy'.c = c
          BY <3>2
        <4> QED
          BY <1>5, <3>1, <3>2, <4>1
      <3>3. CASE /\ UNCHANGED busy
                 /\ reading' = [reading EXCEPT ![c] = right /\ Listens(r.cmd)]
        <4>1. (right /\ Listens(r.cmd)) \in BOOLEAN
          BY DEF Listens
        <4> QED
          BY <3>1, <3>3, <4>1
      <3> QED
        BY <2>6, <3>2, <3>3
    <2>8. Types'
      BY <1>1, <1>2, <1>9, <1>10, <1>11, <2>3, <2>7 DEF Types
    <2>9. ASSUME NEW d \in Clients \ {c}
          PROVE  Has(d)'
      <3>1. /\ Types /\ Has(d) /\ sessionID'[d] = sessionID[d] /\ reading'[d] = reading[d]
            /\ inbox'[d] = inbox[d] /\ refused'[d] = refused[d] /\ busy'.c # d
            /\ ~ Sends(queue[1], d)
            /\ UNCHANGED <<data, due, wire, writes, waited>>
            /\ UNCHANGED <<asked, known, taken, gone, whole>>
        BY <1>1, <1>9, <1>11, <1>15, <2>3, <2>5, <2>7
      <3> QED
        BY <2>4, <3>1, Elsewhere
    <2>10. \A i \in DOMAIN queue' : ~ Reads(queue'[i], c)
      BY <1>1, <1>12, <2>4, NoReads
    <2>11. ChainOf(c)'
      BY <2>7, <2>10 DEF ChainOf
    <2>12. OneWriteOf(c)'
      <3>1. /\ Types /\ OneWriteOf(c) /\ ~ Sends(queue[1], c) /\ sessionID'[c] = sessionID[c]
            /\ UNCHANGED <<data, due, wire, writes, waited, gone>>
        BY <1>1, <1>4, <1>15, <2>3, <2>5 DEF Has
      <3> QED
        BY <2>4, <3>1, QuietWrites
    <2>13. InOrderOf(c)'
      <3>1. Open'[c] = Open[c]
        BY <1>1, <1>15, <2>3, <2>4, QuietOpen
      <3>2. Promised(c)' => Promised(c)
        BY <1>1, <2>3 DEF Promised
      <3> QED
        BY <1>14, <2>10, <3>1, <3>2 DEF InOrderOf
    <2>14. ASSUME c \notin Eager
           PROVE  PatienceOf(c)'
      <3>1. busy'.c = c => /\ inbox'[c] = <<>> /\ taken[c].n < asked[c].n
                           /\ busy'.r.n = asked[c].n /\ busy'.r.cmd = asked[c].cmd
        <4>1. SUFFICES ASSUME busy'.c = c
                       PROVE  /\ inbox'[c] = <<>> /\ taken[c].n < asked[c].n
                              /\ busy'.r.n = asked[c].n /\ busy'.r.cmd = asked[c].cmd
          OBVIOUS
        <4>2. busy'.r = r /\ ~ Silent(r.cmd)
          BY <2>7, <4>1 DEF Silent
        <4> QED
          BY <1>9, <1>13, <2>14, <4>2
      <3>2. /\ Types /\ PatienceOf(c) /\ inbox'[c] = Tail(inbox[c]) /\ due'[c] = due[c]
            /\ UNCHANGED <<asked, known, taken, gone>>
        BY <1>1, <1>4, <1>9, <2>3 DEF Has
      <3> QED
        BY <1>5, <2>5, <2>14, <3>1, <3>2, RequestIsTaken
    <2>15. KeptOf(c)'
      BY <1>1, <1>4, <1>11, <1>13, <2>3 DEF Has, KeptOf
    <2>16. Has(c)'
      BY <2>11, <2>12, <2>13, <2>14, <2>15 DEF Has, PatienceOf
    <2> QED
      BY <2>8, <2>9, <2>16 DEF Inv
  \* It is.
  <1>17. CASE r.cmd \notin Blocking /\ right /\ ~ Silent(r.cmd)
    <2>1. /\ Answer(c, r, Tail(queue)) /\ UNCHANGED busy
          /\ reading' = [reading EXCEPT ![c] = right /\ Listens(r.cmd)]
      BY <1>8, <1>17 DEF HandleMessage
    <2>2. PICK k \in {0, 1}, q \in Seq(Completions) : k = 1 /\ q = Tail(queue)
      BY <1>2
    <2>3. /\ IF k = 0 THEN q = queue ELSE queue # <<>> /\ q = Tail(queue)
          /\ Answer(c, r, q)
      BY <1>1, <2>1, <2>2
    <2>4. sessionID'[c] = AnswerID(c, r.cmd) /\ sessionID'[c] \in Nat
      BY <1>10
    <2>5. PICK op \in Ops : op = Opening(c, r)
      BY <1>1, <2>3, <2>4, AnswerIs
    <2>6. /\ data' \in [Clients -> Stamps \X Stamps] /\ due' = [d \in Clients |-> due'[d]]
          /\ \A d \in Clients \ {c} : data'[d] = data[d] /\ due'[d] = due[d]
          /\ StartWrite(c, op, q)
          /\ ~ gone[c] => due'[c] = due[c] \o Portions(r, sessionID'[c])
      BY <1>1, <2>3, <2>4, <2>5, AnswerIs
    <2>7. /\ wire' \in [Clients -> Seq(Sent)] /\ writes' \in [Clients -> Seq(Ops)]
          /\ waited' \in [Clients -> BOOLEAN] /\ queue' \in Seq(Completions)
          /\ \A d \in Clients \ {c} :
                 wire'[d] = wire[d] /\ writes'[d] = writes[d] /\ waited'[d] = waited[d]
          /\ waited[c] => waited'[c]
          /\ queue' = q \/ (Done(c, op) \in Completions /\ queue' = q \o <<Done(c, op)>>)
      BY <1>1, <2>3, <2>6, StartWriteIs
    <2>8. /\ reading' \in [Clients -> BOOLEAN]
          /\ \A d \in Clients \ {c} : reading'[d] = reading[d]
          /\ \A d \in Clients : busy'.c # d
      BY <1>1, <2>1, SessionsAssumption DEF Types
    <2>9. Types'
      BY <1>1, <1>9, <1>10, <1>11, <2>1, <2>6, <2>7, <2>8 DEF Types
    <2>10. PICK new \in {{}, {Done(c, op)}} : Passed(1, new)
      BY <1>1, <2>2, <2>7, QueueGoesOn
    <2>11. /\ \A x \in new, d \in Clients : ~ Reads(x, d)
           /\ \A x \in new, d \in Clients \ {c} : ~ Sends(x, d)
      BY <2>10 DEF Reads, Sends, Done
    <2>12. ASSUME NEW d \in Clients \ {c}
           PROVE  Has(d)'
      <3>1. /\ Types /\ Has(d) /\ wire'[d] = wire[d] /\ writes'[d] = writes[d]
            /\ waited'[d] = waited[d] /\ data'[d] = data[d] /\ due'[d] = due[d]
            /\ reading'[d] = reading[d] /\ busy'.c # d
            /\ sessionID'[d] = sessionID[d] /\ inbox'[d] = inbox[d] /\ refused'[d] = refused[d]
            /\ ~ Sends(queue[1], d)
            /\ UNCHANGED <<asked, known, taken, gone, whole>>
        BY <1>1, <1>9, <1>10, <1>11, <1>15, <2>6, <2>7, <2>8
      <3> QED
        BY <2>10, <2>11, <3>1, Elsewhere
    <2>13. \A i \in DOMAIN queue' : ~ Reads(queue'[i], c)
      BY <1>1, <1>12, <2>10, <2>11, NoReads
    <2>14. ChainOf(c)' /\ InOrderOf(c)'
      BY <2>8, <2>13 DEF ChainOf, InOrderOf
    <2>15. OneWriteOf(c)'
      BY <1>1, <1>4, <1>14, <2>3, <2>4, <2>9, AnsweredWhole DEF Has
    <2>16. ASSUME c \notin Eager
           PROVE  PatienceOf(c)'
      <3>1. /\ ~ gone[c] /\ inbox'[c] = <<>> /\ taken[c].n < asked[c].n /\ due[c] = <<>>
            /\ r.n = asked[c].n /\ r.cmd = asked[c].cmd
        BY <1>9, <1>13, <1>17, <2>16
      <3>2. due'[c] = due[c] \o Portions(r, sessionID'[c]) /\ busy'.c # c
        BY <2>6, <2>8, <3>1
      <3> QED
        BY <1>1, <1>17, <2>4, <3>1, <3>2, AnswerIsDue
    <2>17. KeptOf(c)'
      BY <1>1, <1>4, <1>11, <1>17, <2>7 DEF Has, KeptOf
    <2>18. Has(c)'
      BY <2>14, <2>15, <2>16, <2>17 DEF Has, PatienceOf
    <2> QED
      BY <2>9, <2>12, <2>18 DEF Inv
  <1> QED
    BY <1>16, <1>17

-----------------------------------------------------------------------------
(* The specification.                                                        *)
LEMMA Beginning ==
    Init => Inv
  <1> SUFFICES ASSUME Init
               PROVE  Inv
    OBVIOUS
  <1>1. <<>> \in Seq(Ops) /\ <<>> \in Seq(Completions) /\ <<>> \in Seq(Requests) /\ <<>> \in Seq(Sent)
    OBVIOUS
  <1>2. Blank \in Stamps /\ <<Blank, Blank>> \in Stamps \X Stamps
    BY DEF Blank, Unknown, Stamps
  <1>3. Nothing.asked \in Asks /\ Nothing.taken \in Takes
    <2>1. /\ Nothing.asked = [n |-> 0, cmd |-> "WAIT"]
          /\ Nothing.taken = [n |-> 0, part |-> 0]
      BY DEF Nothing
    <2>2. /\ [n |-> 0, cmd |-> "WAIT"] \in Asks
          /\ [n |-> 0, part |-> 0] \in Takes
      BY DEF Asks, Takes
    <2> QED
      BY <2>1, <2>2
  <1>4. Types
    BY <1>1, <1>2, <1>3 DEF Init, Types, Unknown
  <1>5. ASSUME NEW c \in Clients
        PROVE  Has(c)
    <2>1. /\ queue = <<>> /\ busy.c # c /\ reading[c] /\ inbox[c] = <<>> /\ writes[c] = <<>>
          /\ wire[c] = <<>> /\ due[c] = <<>> /\ known[c] = Unknown /\ ~ gone[c]
          /\ taken[c] = Nothing.taken /\ asked[c] = Nothing.asked
          /\ whole[c] /\ ~ refused[c]
      BY SessionsAssumption DEF Init
    <2>2. DOMAIN queue = {} /\ DOMAIN writes[c] = {} /\ DOMAIN inbox[c] = {}
      BY <2>1
    <2>3. Open[c] = {}
      BY <2>2 DEF Open
    <2>4. ChainOf(c) /\ InOrderOf(c) /\ KeptOf(c)
      BY <2>1, <2>2 DEF ChainOf, InOrderOf, KeptOf
    <2>5. OneWriteOf(c)
      BY <1>1, <2>1, <2>2, <2>3 DEF OneWriteOf
    <2>6. taken[c].n <= asked[c].n
      BY <2>1 DEF Nothing
    <2>7. PatienceOf(c)
      BY <2>1, <2>2, <2>6 DEF PatienceOf
    <2> QED
      BY <2>4, <2>5, <2>7 DEF Has
  <1> QED
    BY <1>4, <1>5 DEF Inv

LEMMA Stuttering ==
    ASSUME Inv, UNCHANGED vars
    PROVE  Inv'
  <1>1. /\ UNCHANGED <<sessionID, reading, data, writes, queue, busy, waited, refused>>
        /\ UNCHANGED <<asked, known, taken, gone, whole>>
        /\ UNCHANGED <<inbox, wire, due>>
    BY DEF vars, driver, client
  <1>2. Types /\ \A c \in Clients : Has(c)
    BY DEF Inv
  <1>3. Types'
    BY <1>1, <1>2 DEF Types
  <1>4. Passed(0, {})
    BY <1>1, <1>2, QueueStays
  <1>5. ASSUME NEW c \in Clients
        PROVE  Has(c)'
    BY <1>1, <1>2, <1>4, Elsewhere
  <1> QED
    BY <1>3, <1>5 DEF Inv

LEMMA Stepping ==
    Inv /\ [Next]_vars => Inv'
  <1> SUFFICES ASSUME Inv, [Next]_vars
               PROVE  Inv'
    OBVIOUS
  <1>1. ASSUME NEW c \in Clients, NEW cmd \in Commands[c], Ask(c, cmd)
        PROVE  Inv'
    BY <1>1, AskStep
  <1>2. ASSUME NEW c \in Clients, Take(c) \/ Leave(c)
        PROVE  Inv'
    BY <1>2, TakeStep, LeaveStep
  <1>3. ASSUME NEW c \in Clients, SocketHasRoom(c) \/ SocketHasData(c)
        PROVE  Inv'
    BY <1>3, SocketHasRoomStep, SocketHasDataStep
  <1>4. CASE ReadBody
    BY <1>4, ReadBodyStep
  <1>5. CASE RunHandleMessage
    BY <1>5, RunHandleMessageStep
  <1>6. CASE WorkersDone
    BY <1>6, WorkersDoneStep
  <1>7. CASE ContinueWrite
    BY <1>7, ContinueWriteStep
  <1>8. CASE UNCHANGED vars
    BY <1>8, Stuttering
  <1> QED
    BY <1>1, <1>2, <1>3, <1>4, <1>5, <1>6, <1>7, <1>8 DEF Next, Thread

LEMMA SessionsHold ==
    Spec => []Inv
  BY Beginning, Stepping, PTL DEF Spec

\* A client that waits for its answers takes each of them whole, in order and with the
\* ID of the session at the time, whatever the other clients ask, take or leave, and
\* wherever the sends of an answer stop for want of room; so does one that does not
\* wait, as long as no part of its answers has had to wait for room.
THEOREM EveryAnswerWhole ==
    Spec => []AnswersWhole
  <1>1. Inv => AnswersWhole
    BY DEF Inv, Has, KeptOf, AnswersWhole
  <1> QED
    BY <1>1, SessionsHold, PTL

\* A client that uses the ID of the last answer always has the one that the driver
\* expects, however its handshakes count it up: none of its commands is turned away.
THEOREM NobodyIsRefused ==
    Spec => []NeverRefused
  <1>1. Inv => NeverRefused
    BY DEF Inv, Has, KeptOf, NeverRefused
  <1> QED
    BY <1>1, SessionsHold, PTL

=============================================================================
