-------------------------- MODULE WorkerStartupProofs --------------------------
(***************************************************************************)
(* When the driver serves, the start is over, for any number of workers,   *)
(* any hosts and arguments, and whichever constructors throw: its list is  *)
(* the workers as they are.  What a worker's overlapping threads, its loop *)
(* and the driver do in the barriers of the world is one order; the        *)
(* invariant says where in it each of them is.                             *)
(***************************************************************************)
EXTENDS WorkerStartup, SequenceTheorems, TLAPS

(* The broadcasts that the driver has made, and the barriers that it has     *)
(* entered, as its code has them.                                            *)
Calls ==
    IF at[Driver] \in {"main", "finalize", "ended", "start_workers"} THEN 0
    ELSE IF at[Driver] = "started" THEN 1 ELSE 2

Barriers ==
    IF at[Driver] \in {"started", "register_workers"} THEN 1
    ELSE IF at[Driver] \in {"registered", "accept_connection"} THEN 2 ELSE 0

Absent == {"main", "finalize", "ended"}

Starting  == [c |-> "START", barrier |-> 0]
Started   == [c |-> "START", barrier |-> 1]
Informing == [c |-> "SEND_INFO", barrier |-> 0]
Informed  == [c |-> "SEND_INFO", barrier |-> 2]

\* What a worker's messages to the driver are.
InfoOf(w) == Text(Hostname[w]) \o Text(AnyAddress) \o <<PortOf(w)>>

\* What the driver makes of them.
Registered(w) == [ID |-> w, hostname |-> Hostname[w], address |-> AnyAddress, port |-> PortOf(w)]

-----------------------------------------------------------------------------
(* The invariant.                                                            *)

\* Whoever is past its constructor has a port, and the arguments are in range.
Listening ==
    \A p \in Processes :
        at[p] \notin Absent => PortInRange /\ port[p] = PortOf(p)

\* A worker has taken so many of the driver's broadcasts, and its threads are so far.  The
\* thread of START may be left when that of SEND_INFO goes its way, but not before START.
NoneTaken(w)   == entered[w] = 0 /\ threads[w] = <<>>
                  /\ commands[w] = IF Calls = 0 THEN <<>> ELSE <<"START">>
StartTaken(w)  == entered[w] = 0 /\ threads[w] = <<Starting>> /\ commands[w] = <<>>
StartDone(w)   == entered[w] = 1 /\ threads[w] \in {<<>>, <<Started>>}
                  /\ commands[w] = IF Calls = 1 THEN <<>> ELSE <<"SEND_INFO">>
InfoTaken(w)   == entered[w] = 1 /\ threads[w] \in {<<Informing>>, <<Started, Informing>>}
                  /\ commands[w] = <<>>
InfoDone(w)    == entered[w] = 2 /\ threads[w] \in {<<>>, <<Started>>, <<Informed>>, <<Started, Informed>>}
                  /\ commands[w] = <<>>

Place(w) ==
    \/ NoneTaken(w) /\ Calls < 2
    \/ /\ at[w] = "wait_for_command"
       /\ \/ StartTaken(w) /\ Calls = 1
          \/ StartDone(w) /\ Calls >= 1
          \/ InfoTaken(w) /\ Calls = 2
          \/ InfoDone(w) /\ Calls = 2

\* The driver has registered those who have sent it all they have to.
Mail(w) ==
    /\ w <= Len(unallocated_workers) => entered[w] = 2
    /\ mail[w] = IF entered[w] = 2 /\ w > Len(unallocated_workers) THEN InfoOf(w) ELSE <<>>

Places == \A w \in Workers : Place(w)
Mails  == \A w \in Workers : Mail(w)

Lists ==
    /\ Len(unallocated_workers) \in 0 .. NumWorkers
    /\ unallocated_workers = [w \in 1 .. Len(unallocated_workers) |-> w]
    /\ workers = [w \in 1 .. Len(unallocated_workers) |-> Registered(w)]
    /\ Calls < 2 => unallocated_workers = <<>>
    /\ Barriers = 2 => Len(unallocated_workers) = NumWorkers

Forms ==
    /\ start_port \in Int
    /\ at \in [Processes -> Absent \cup {"start_workers", "started", "register_workers", "registered",
                                         "accept_connection", "wait_for_command"}]
    /\ \A w \in Workers : at[w] \in Absent \cup {"wait_for_command"}
    /\ at[Driver] # "wait_for_command"
    /\ port \in [Processes -> Int]
    /\ entered \in [Processes -> Nat] /\ entered[Driver] = Barriers
    /\ commands \in [Workers -> Seq({"START", "SEND_INFO"})]
    /\ DOMAIN threads = Workers /\ DOMAIN mail = Workers

IInv ==
    /\ Forms /\ Listening /\ Places /\ Mails /\ Lists
    /\ at[Driver] = "accept_connection" => Met(2)

-----------------------------------------------------------------------------
(* Sequences of one, two and five.                                           *)
LEMMA RemoveIs ==
    ASSUME NEW a, NEW b
    PROVE  /\ RemoveAt(<<a>>, 1) = <<>>
           /\ RemoveAt(<<a, b>>, 1) = <<b>>
           /\ RemoveAt(<<a, b>>, 2) = <<a>>
  <1>1. /\ SubSeq(<<a>>, 1, 0) = <<>> /\ SubSeq(<<a>>, 2, 1) = <<>> /\ Len(<<a>>) = 1
        /\ SubSeq(<<a, b>>, 1, 0) = <<>> /\ SubSeq(<<a, b>>, 3, 2) = <<>> /\ Len(<<a, b>>) = 2
    OBVIOUS
  <1>2. SubSeq(<<a, b>>, 1, 1) = <<a>> /\ SubSeq(<<a, b>>, 2, 2) = <<b>>
    <2> DEFINE S == {a, b}
               s == SubSeq(<<a, b>>, 1, 1)
               t == SubSeq(<<a, b>>, 2, 2)
    <2>1. <<a>> \in Seq(S) /\ <<b>> \in Seq(S) /\ \A i \in 1 .. 2 : <<a, b>>[i] \in S
      OBVIOUS
    <2>2. s \in Seq(S) /\ t \in Seq(S) /\ Len(s) = 1 /\ Len(t) = 1 /\ s[1] = a /\ t[1] = b
      BY <2>1, SubSeqProperties
    <2> HIDE DEF s, t, S
    <2>3. s = <<a>> /\ t = <<b>>
      BY <2>1, <2>2, SeqEqual
    <2> QED
      BY <2>3 DEF s, t
  <1>3. <<>> \o <<>> = <<>> /\ <<>> \o <<b>> = <<b>> /\ <<a>> \o <<>> = <<a>>
    OBVIOUS
  <1>4. /\ RemoveAt(<<a>>, 1) = SubSeq(<<a>>, 1, 0) \o SubSeq(<<a>>, 2, 1)
        /\ RemoveAt(<<a, b>>, 1) = SubSeq(<<a, b>>, 1, 0) \o SubSeq(<<a, b>>, 2, 2)
        /\ RemoveAt(<<a, b>>, 2) = SubSeq(<<a, b>>, 1, 1) \o SubSeq(<<a, b>>, 3, 2)
    BY <1>1 DEF RemoveAt
  <1> QED
    BY <1>1, <1>2, <1>3, <1>4

LEMMA OfOneOrTwo ==
    ASSUME NEW a, NEW b
    PROVE  /\ Append(<<>>, a) = <<a>> /\ Append(<<a>>, b) = <<a, b>>
           /\ Head(<<a>>) = a /\ Tail(<<a>>) = <<>>
           /\ DOMAIN <<a>> = {1} /\ DOMAIN <<a, b>> = {1, 2}
  <1>1. Append(<<>>, a) = <<a>> /\ Head(<<a>>) = a /\ Tail(<<a>>) = <<>>
    OBVIOUS
  <1>2. Append(<<a>>, b) = <<a, b>>
    <2> DEFINE S == {a, b}
               s == Append(<<a>>, b)
    <2>1. <<a, b>> \in Seq(S) /\ Len(<<a, b>>) = 2
      OBVIOUS
    <2>2. s \in Seq(S) /\ Len(s) = 2 /\ s[1] = a /\ s[2] = b
      OBVIOUS
    <2> HIDE DEF s, S
    <2>3. s = <<a, b>>
      BY <2>1, <2>2, SeqEqual
    <2> QED
      BY <2>3 DEF s
  <1>3. DOMAIN <<a>> = {1} /\ DOMAIN <<a, b>> = {1, 2}
    OBVIOUS
  <1> QED
    BY <1>1, <1>2, <1>3

LEMMA OfFive ==
    ASSUME NEW a, NEW b, NEW c, NEW d, NEW e
    PROVE  /\ <<a, b>> \o <<c, d>> \o <<e>> = <<a, b, c, d, e>>
           /\ <<>> \o <<a, b>> \o <<c, d>> \o <<e>> = <<a, b, c, d, e>>
           /\ Len(<<a, b, c, d, e>>) = 5 /\ SubSeq(<<a, b, c, d, e>>, 6, 5) = <<>>
  <1> DEFINE S == {a, b, c, d, e}
  <1>1. <<a, b>> \o <<c, d>> = <<a, b, c, d>>
    <2> DEFINE s == <<a, b>> \o <<c, d>>
    <2>1. <<a, b>> \in Seq(S) /\ <<c, d>> \in Seq(S) /\ <<a, b, c, d>> \in Seq(S)
      OBVIOUS
    <2>2. s \in Seq(S) /\ Len(s) = 4 /\ s[1] = a /\ s[2] = b /\ s[3] = c /\ s[4] = d
      BY <2>1, ConcatProperties
    <2> HIDE DEF s, S
    <2>3. s = <<a, b, c, d>>
      BY <2>1, <2>2, SeqEqual
    <2> QED
      BY <2>3 DEF s
  <1>2. <<a, b, c, d>> \o <<e>> = <<a, b, c, d, e>>
    <2> DEFINE s == <<a, b, c, d>> \o <<e>>
    <2>1. <<a, b, c, d>> \in Seq(S) /\ <<e>> \in Seq(S) /\ <<a, b, c, d, e>> \in Seq(S)
      OBVIOUS
    <2>2. s \in Seq(S) /\ Len(s) = 5 /\ s[1] = a /\ s[2] = b /\ s[3] = c /\ s[4] = d /\ s[5] = e
      BY <2>1, ConcatProperties
    <2> HIDE DEF s, S
    <2>3. s = <<a, b, c, d, e>>
      BY <2>1, <2>2, SeqEqual
    <2> QED
      BY <2>3 DEF s
  <1>3. <<>> \o <<a, b>> = <<a, b>>
    OBVIOUS
  <1>4. Len(<<a, b, c, d, e>>) = 5 /\ SubSeq(<<a, b, c, d, e>>, 6, 5) = <<>>
    OBVIOUS
  <1> QED
    BY <1>1, <1>2, <1>3, <1>4

LEMMA InfoIs ==
    ASSUME NEW w
    PROVE  /\ Len(InfoOf(w)) = 5 /\ SubSeq(InfoOf(w), 6, 5) = <<>>
           /\ Registered(w) = [ID |-> w, hostname |-> StringOf(InfoOf(w)[1], InfoOf(w)[2]),
                               address |-> StringOf(InfoOf(w)[3], InfoOf(w)[4]), port |-> InfoOf(w)[5]]
           /\ <<>> \o Text(Hostname[w]) \o Text(AnyAddress) \o <<PortOf(w)>> = InfoOf(w)
  <1>1. \A s : /\ StringOf(Len(s) + 1, [s |-> s, nul |-> TRUE]) = s
               /\ Text(s) = <<Len(s) + 1, [s |-> s, nul |-> TRUE]>>
    BY DEF StringOf, Text
  <1>2. PICK a, b, c, d : /\ Text(Hostname[w]) = <<a, b>> /\ Text(AnyAddress) = <<c, d>>
                          /\ StringOf(a, b) = Hostname[w] /\ StringOf(c, d) = AnyAddress
    <2> DEFINE Fits(s, a, b) == Text(s) = <<a, b>> /\ StringOf(a, b) = s
    <2>1. \A s : \E a, b : Fits(s, a, b)
      BY <1>1
    <2>2. PICK a, b : Fits(Hostname[w], a, b)
      BY <2>1
    <2>3. PICK c, d : Fits(AnyAddress, c, d)
      BY <2>1
    <2> QED
      BY <2>2, <2>3
  <1>3. /\ InfoOf(w) = <<a, b, c, d, PortOf(w)>>
        /\ <<>> \o Text(Hostname[w]) \o Text(AnyAddress) \o <<PortOf(w)>> = InfoOf(w)
    BY <1>2, OfFive DEF InfoOf
  <1>4. /\ InfoOf(w)[1] = a /\ InfoOf(w)[2] = b /\ InfoOf(w)[3] = c /\ InfoOf(w)[4] = d
        /\ InfoOf(w)[5] = PortOf(w)
    BY <1>3
  <1> QED
    BY <1>2, <1>3, <1>4, OfFive DEF Registered

LEMMA WhoIs ==
    /\ NumWorkers \in Nat /\ Workers \subseteq Processes /\ Driver \in Processes /\ Driver \notin Workers
    /\ Processes = 0 .. NumWorkers /\ Workers \subseteq Nat
    /\ \A p \in Processes : p # Driver => p \in Workers
    /\ \A w \in Workers : w > 0
  BY StartupAssumption DEF Workers, Processes, Driver

LEMMA PortIsInt ==
    ASSUME start_port \in Int, NEW p \in Processes
    PROVE  PortOf(p) \in Int
  <1>1. start_port + p \in Int
    BY WhoIs
  <1>2. \A x \in Int : x % 65536 \in Int
    OBVIOUS
  <1> QED
    BY <1>1, <1>2 DEF PortOf, MaxPort

\* Barriers that have let go do not take it back.
LEMMA MetStays ==
    ASSUME entered \in [Processes -> Nat], NEW p \in Processes, NEW k \in Nat, Met(k),
           \/ Enter(p) \/ UNCHANGED entered
    PROVE  Met(k)'
  BY DEF Met, Enter

LEMMA InitInv == Init => IInv
  <1> SUFFICES ASSUME Init PROVE IInv
    OBVIOUS
  <1>1. Calls = 0 /\ Barriers = 0 /\ Len(unallocated_workers) = 0
    BY WhoIs DEF Init, Calls, Barriers
  <1>2. Forms
    <2>1. start_port \in Int /\ entered[Driver] = 0
      BY WhoIs, StartupAssumption DEF Init
    <2>2. commands \in [Workers -> Seq({"START", "SEND_INFO"})]
      BY DEF Init
    <2>3. \A p \in Processes : at[p] = "main" /\ port[p] = 0 /\ entered[p] = 0
      BY DEF Init
    <2>4. /\ at \in [Processes -> Absent \cup {"start_workers", "started", "register_workers",
                                              "registered", "accept_connection", "wait_for_command"}]
          /\ port \in [Processes -> Int] /\ entered \in [Processes -> Nat]
      BY DEF Init, Absent
    <2>5. /\ \A w \in Workers : at[w] \in Absent \cup {"wait_for_command"}
          /\ at[Driver] # "wait_for_command"
      BY <2>3, WhoIs DEF Absent
    <2> QED
      BY <1>1, <2>1, <2>2, <2>4, <2>5 DEF Init, Forms
  <1>3. Places
    BY <1>1, WhoIs DEF Init, Places, Place, NoneTaken
  <1>4. Mails
    BY <1>1, WhoIs DEF Init, Mails, Mail
  <1>5. Listening
    BY WhoIs DEF Init, Listening, Absent
  <1>6. Lists
    BY <1>1, WhoIs DEF Init, Lists
  <1> QED
    BY <1>2, <1>3, <1>4, <1>5, <1>6, WhoIs DEF Init, IInv

-----------------------------------------------------------------------------
(* main.                                                                     *)

LEMMA MainInv ==
    ASSUME IInv, NEW p \in Processes, Main(p) \/ Finalize(p)
    PROVE  IInv'
  <1>1. /\ UNCHANGED <<start_port, max_buffer_length, fails, commands, threads, entered, mail,
                       workers, unallocated_workers>>
        /\ at[p] \in {"main", "finalize"}
    BY DEF Main, Finalize
  <1>2. /\ at' \in [Processes -> Absent \cup {"start_workers", "started", "register_workers", "registered",
                                         "accept_connection", "wait_for_command"}]
        /\ \A q \in Processes : q # p => at'[q] = at[q] /\ port'[q] = port[q]
        /\ port' \in [Processes -> Int]
        /\ \/ at'[p] \in {"finalize", "ended"}
           \/ /\ at'[p] = IF p = Driver THEN "start_workers" ELSE "wait_for_command"
              /\ PortInRange /\ port'[p] = PortOf(p)
    <2>1. CASE Main(p) /\ PortInRange /\ BufferInRange /\ p \notin fails
      <3>1. PortOf(p) \in Int
        BY PortIsInt DEF IInv, Forms
      <3> QED
        BY <2>1, <3>1 DEF Main, IInv, Forms
    <2>2. CASE Main(p) /\ ~ (PortInRange /\ BufferInRange /\ p \notin fails)
      BY <2>2 DEF Main, IInv, Forms, Absent
    <2>3. CASE Finalize(p)
      BY <2>3 DEF Finalize, IInv, Forms, Absent
    <2> QED
      BY <2>1, <2>2, <2>3
  <1>3. Calls' = Calls /\ Barriers' = Barriers
    BY <1>1, <1>2, WhoIs DEF Calls, Barriers
  <1>4. \A w \in Workers : at[w] = "wait_for_command" => at'[w] = at[w]
    BY <1>1, <1>2, WhoIs
  <1>5. Forms'
    <2>1. \A w \in Workers : at'[w] \in Absent \cup {"wait_for_command"}
      <3>1. \A w \in Workers : at[w] \in Absent \cup {"wait_for_command"}
        BY DEF IInv, Forms
      <3>2. \A w \in Workers : w # p => at'[w] = at[w]
        BY <1>2, WhoIs
      <3>3. p \in Workers => at'[p] \in Absent \cup {"wait_for_command"}
        BY <1>2, WhoIs DEF Absent
      <3> QED
        BY <3>1, <3>2, <3>3
    <2>2. at'[Driver] # "wait_for_command"
      BY <1>2, WhoIs DEF IInv, Forms
    <2> QED
      BY <1>1, <1>2, <1>3, <2>1, <2>2 DEF IInv, Forms
  <1>6. Listening'
    <2>1. PortInRange' = PortInRange /\ \A q \in Processes : PortOf(q)' = PortOf(q)
      BY <1>1 DEF PortInRange, PortOf
    <2>2. ASSUME NEW q \in Processes, at'[q] \notin Absent
          PROVE  PortInRange /\ port'[q] = PortOf(q)
      BY <1>2, <2>2 DEF IInv, Listening, Absent
    <2> QED
      BY <2>1, <2>2 DEF Listening
  <1>7. Places'
    BY <1>1, <1>3, <1>4 DEF IInv, Places, Place, NoneTaken, StartTaken, StartDone, InfoTaken, InfoDone
  <1>8. Mails'
    BY <1>1 DEF IInv, Mails, Mail, InfoOf, PortOf
  <1>9. Lists'
    BY <1>1, <1>3 DEF IInv, Lists, Registered, PortOf
  <1>10. at'[Driver] = "accept_connection" => Met(2)'
    BY <1>1, <1>2, WhoIs DEF IInv, Met
  <1> QED
    BY <1>5, <1>6, <1>7, <1>8, <1>9, <1>10 DEF IInv

-----------------------------------------------------------------------------
(* The driver.                                                               *)

\* What an entry into a barrier, or none, leaves.
LEMMA EnterIs ==
    ASSUME entered \in [Processes -> Nat], NEW p \in Processes, Enter(p)
    PROVE  /\ entered' \in [Processes -> Nat] /\ entered'[p] = entered[p] + 1
           /\ \A q \in Processes : q # p => entered'[q] = entered[q]
  BY DEF Enter

\* A step of the driver after which its main thread is there.
LEMMA DriverIs ==
    ASSUME IInv, NEW there \in {"started", "register_workers", "registered", "accept_connection"},
           at' = [at EXCEPT ![Driver] = there], at[Driver] \notin Absent, UNCHANGED <<start_port, port>>
    PROVE  /\ at' \in [Processes -> Absent \cup {"start_workers", "started", "register_workers", "registered",
                                         "accept_connection", "wait_for_command"}]
           /\ at'[Driver] = there /\ \A w \in Workers : at'[w] = at[w]
           /\ Listening'
           /\ \A w \in Workers : at'[w] \in Absent \cup {"wait_for_command"}
           /\ at'[Driver] # "wait_for_command"
  <1>1. /\ at' \in [Processes -> Absent \cup {"start_workers", "started", "register_workers", "registered",
                                         "accept_connection", "wait_for_command"}]
        /\ at'[Driver] = there /\ \A w \in Workers : at'[w] = at[w]
        /\ \A p \in Processes : p # Driver => at'[p] = at[p]
    BY WhoIs DEF IInv, Forms
  <1>2. PortInRange' = PortInRange /\ \A q \in Processes : PortOf(q)' = PortOf(q)
    BY DEF PortInRange, PortOf
  <1>3. ASSUME NEW q \in Processes, at'[q] \notin Absent
        PROVE  PortInRange /\ port'[q] = PortOf(q)
    BY <1>1, <1>3 DEF IInv, Listening
  <1>4. Listening'
    BY <1>2, <1>3 DEF Listening
  <1>5. \A w \in Workers : at'[w] \in Absent \cup {"wait_for_command"}
    BY <1>1, WhoIs DEF IInv, Forms
  <1> QED
    BY <1>1, <1>4, <1>5

LEMMA StartWorkersInv ==
    ASSUME IInv, StartWorkers
    PROVE  IInv'
  <1>1. /\ at'[Driver] = "started" /\ \A w \in Workers : at'[w] = at[w]
        /\ at[Driver] = "start_workers" /\ Listening'
    BY DriverIs DEF StartWorkers, Absent
  <1>2. Calls = 0 /\ Calls' = 1 /\ Barriers = 0 /\ Barriers' = 1
    BY <1>1 DEF Calls, Barriers
  <1>3. /\ entered' \in [Processes -> Nat] /\ entered'[Driver] = 1
        /\ \A w \in Workers : entered'[w] = entered[w]
    <2>1. entered \in [Processes -> Nat] /\ entered[Driver] = 0 /\ Enter(Driver)
      BY <1>2 DEF StartWorkers, IInv, Forms
    <2> QED
      BY <2>1, WhoIs, EnterIs
  <1>4. \A w \in Workers : NoneTaken(w) /\ commands[w] = <<>>
    BY <1>2 DEF IInv, Places, Place, NoneTaken
  <1>5. commands' = [w \in Workers |-> <<"START">>]
    <2>1. \A w \in Workers : Append(commands[w], "START") = <<"START">>
      BY <1>4, OfOneOrTwo
    <2> QED
      BY <2>1 DEF StartWorkers, Broadcast
  <1>6. Forms'
    <2>1. commands' \in [Workers -> Seq({"START", "SEND_INFO"})]
      BY <1>5
    <2> QED
      BY <1>1, <1>2, <1>3, <2>1, DriverIs DEF StartWorkers, IInv, Forms, Absent
  <1>7. Places'
    BY <1>2, <1>3, <1>4, <1>5 DEF StartWorkers, Places, Place, NoneTaken
  <1>8. Mails'
    BY <1>3 DEF StartWorkers, IInv, Mails, Mail, InfoOf, PortOf
  <1>9. Lists'
    BY <1>2 DEF StartWorkers, IInv, Lists, Registered, PortOf
  <1> QED
    BY <1>1, <1>6, <1>7, <1>8, <1>9 DEF IInv

LEMMA RegisterWorkersInv ==
    ASSUME IInv, RegisterWorkers
    PROVE  IInv'
  <1>1. /\ at'[Driver] = "register_workers" /\ \A w \in Workers : at'[w] = at[w]
        /\ at[Driver] = "started" /\ Listening'
    BY DriverIs DEF RegisterWorkers, Absent
  <1>2. Calls = 1 /\ Calls' = 2 /\ Barriers = 1 /\ Barriers' = 1
    BY <1>1 DEF Calls, Barriers
  <1>3. \A w \in Workers : entered[w] >= 1
    BY <1>2, WhoIs DEF RegisterWorkers, IInv, Forms, Met
  <1>4. \A w \in Workers : StartDone(w) /\ at[w] = "wait_for_command" /\ commands[w] = <<>>
    BY <1>2, <1>3 DEF IInv, Places, Place, NoneTaken, StartTaken, StartDone
  <1>5. commands' = [w \in Workers |-> <<"SEND_INFO">>]
    <2>1. \A w \in Workers : Append(commands[w], "SEND_INFO") = <<"SEND_INFO">>
      BY <1>4, OfOneOrTwo
    <2> QED
      BY <2>1 DEF RegisterWorkers, Broadcast
  <1>6. Forms'
    <2>1. commands' \in [Workers -> Seq({"START", "SEND_INFO"})]
      BY <1>5
    <2> QED
      BY <1>1, <1>2, <2>1, DriverIs DEF RegisterWorkers, IInv, Forms, Absent
  <1>7. Places'
    BY <1>1, <1>2, <1>4, <1>5 DEF RegisterWorkers, Places, Place, StartDone
  <1>8. Mails'
    BY DEF RegisterWorkers, IInv, Mails, Mail, InfoOf, PortOf
  <1>9. Lists'
    BY <1>2 DEF RegisterWorkers, IInv, Lists, Registered, PortOf
  <1> QED
    BY <1>1, <1>6, <1>7, <1>8, <1>9 DEF IInv

LEMMA RegisterWorkerInv ==
    ASSUME IInv, RegisterWorker
    PROVE  IInv'
  <1> DEFINE w == Len(unallocated_workers) + 1
  <1>1. /\ at[Driver] = "register_workers" /\ w <= NumWorkers /\ Len(mail[w]) >= 5
        /\ workers' = Append(workers, [ID |-> w, hostname |-> StringOf(mail[w][1], mail[w][2]),
                                       address |-> StringOf(mail[w][3], mail[w][4]), port |-> mail[w][5]])
        /\ unallocated_workers' = Append(unallocated_workers, w)
        /\ mail' = [mail EXCEPT ![w] = SubSeq(mail[w], 6, Len(mail[w]))]
        /\ UNCHANGED <<start_port, max_buffer_length, fails, at, port, commands, threads, entered>>
    BY DEF RegisterWorker
  <1>2. Calls = 2 /\ Barriers = 1 /\ Calls' = Calls /\ Barriers' = Barriers
    BY <1>1 DEF Calls, Barriers
  <1>3. w \in Workers /\ w \in Nat /\ NumWorkers \in Nat /\ Len(unallocated_workers) = w - 1
    <2>1. Len(unallocated_workers) \in 0 .. NumWorkers
      BY DEF IInv, Lists
    <2> QED
      BY <1>1, <2>1, WhoIs DEF Workers
  <1>4. Mail(w)
    BY <1>3 DEF IInv, Mails
  <1>5. mail[w] = InfoOf(w) /\ entered[w] = 2
    <2>1. mail[w] # <<>>
      BY <1>1
    <2> QED
      BY <1>4, <2>1 DEF Mail
  <1>6. /\ workers' = Append(workers, Registered(w))
        /\ mail' = [mail EXCEPT ![w] = <<>>]
    BY <1>1, <1>5, InfoIs
  <1> HIDE DEF w
  <1>7. /\ workers = [v \in 1 .. w - 1 |-> Registered(v)]
        /\ unallocated_workers = [v \in 1 .. w - 1 |-> v]
    BY <1>3 DEF IInv, Lists
  <1>8. /\ workers' = [v \in 1 .. w |-> Registered(v)]
        /\ unallocated_workers' = [v \in 1 .. w |-> v]
        /\ Len(unallocated_workers') = w
    <2>1. Append([v \in 1 .. w - 1 |-> Registered(v)], Registered(w)) = [v \in 1 .. w |-> Registered(v)]
      BY <1>3
    <2>2. Append([v \in 1 .. w - 1 |-> v], w) = [v \in 1 .. w |-> v]
      BY <1>3
    <2>3. Len([v \in 1 .. w |-> v]) = w
      BY <1>3
    <2> QED
      BY <1>1, <1>6, <1>7, <2>1, <2>2, <2>3
  <1>9. Forms' /\ Listening' /\ Places'
    <2>1. Forms'
      BY <1>1, <1>2, <1>6 DEF IInv, Forms
    <2>2. Listening'
      BY <1>1 DEF IInv, Listening, PortOf, PortInRange
    <2>3. Places'
      BY <1>1, <1>2 DEF IInv, Places, Place, NoneTaken, StartTaken, StartDone, InfoTaken, InfoDone
    <2> QED
      BY <2>1, <2>2, <2>3
  <1>10. Mails'
    <2>1. ASSUME NEW v \in Workers
          PROVE  Mail(v)'
      <3>1. v \in Nat /\ InfoOf(v)' = InfoOf(v) /\ entered'[v] = entered[v]
        BY <1>1, WhoIs DEF InfoOf, PortOf
      <3>2. CASE v = w
        BY <1>3, <1>5, <1>6, <1>8, <3>1, <3>2 DEF IInv, Forms, Mail
      <3>3. CASE v # w
        <4>1. v > Len(unallocated_workers') <=> v > Len(unallocated_workers)
          BY <1>3, <1>8, <3>1, <3>3
        <4>2. mail'[v] = mail[v]
          BY <1>6, <3>3 DEF IInv, Forms
        <4> QED
          BY <3>1, <4>1, <4>2 DEF IInv, Mails, Mail
      <3> QED
        BY <3>2, <3>3
    <2> QED
      BY <2>1 DEF Mails
  <1>11. Lists'
    <2>1. \A v : Registered(v)' = Registered(v)
      BY <1>1 DEF Registered, PortOf
    <2> QED
      BY <1>1, <1>2, <1>3, <1>8, <2>1 DEF Lists
  <1>12. at'[Driver] # "accept_connection"
    BY <1>1
  <1> QED
    BY <1>9, <1>10, <1>11, <1>12 DEF IInv

\* A step of the driver's main thread alone, from one barrier on.
LEMMA AllRegisteredInv ==
    ASSUME IInv, AllRegistered
    PROVE  IInv'
  <1>1. /\ at'[Driver] = "registered" /\ \A w \in Workers : at'[w] = at[w]
        /\ at[Driver] = "register_workers" /\ Listening'
    BY DriverIs DEF AllRegistered, Absent
  <1>2. Calls = 2 /\ Calls' = 2 /\ Barriers = 1 /\ Barriers' = 2
    BY <1>1 DEF Calls, Barriers
  <1>3. /\ entered' \in [Processes -> Nat] /\ entered'[Driver] = 2
        /\ \A w \in Workers : entered'[w] = entered[w]
    <2>1. entered \in [Processes -> Nat] /\ entered[Driver] = 1 /\ Enter(Driver)
      BY <1>2 DEF AllRegistered, IInv, Forms
    <2> QED
      BY <2>1, WhoIs, EnterIs
  <1>4. Forms'
    BY <1>1, <1>2, <1>3, DriverIs DEF AllRegistered, IInv, Forms, Absent
  <1>5. Places'
    BY <1>1, <1>2, <1>3 DEF AllRegistered, IInv, Places, Place, NoneTaken, StartTaken, StartDone, InfoTaken,
       InfoDone
  <1>6. Mails'
    BY <1>3 DEF AllRegistered, IInv, Mails, Mail, InfoOf, PortOf
  <1>7. Lists'
    BY <1>2 DEF AllRegistered, IInv, Lists, Registered, PortOf
  <1> QED
    BY <1>1, <1>4, <1>5, <1>6, <1>7 DEF IInv

LEMMA ServeInv ==
    ASSUME IInv, Serve
    PROVE  IInv'
  <1>1. /\ at'[Driver] = "accept_connection" /\ \A w \in Workers : at'[w] = at[w]
        /\ at[Driver] = "registered" /\ Listening'
    BY DriverIs DEF Serve, Absent
  <1>2. Calls = 2 /\ Calls' = 2 /\ Barriers = 2 /\ Barriers' = 2
    BY <1>1 DEF Calls, Barriers
  <1>3. Met(2)'
    BY <1>2 DEF Serve, IInv, Forms, Met
  <1>4. Forms'
    BY <1>1, <1>2, DriverIs DEF Serve, IInv, Forms, Absent
  <1>5. Places'
    BY <1>1, <1>2 DEF Serve, IInv, Places, Place, NoneTaken, StartTaken, StartDone, InfoTaken, InfoDone
  <1>6. Mails'
    BY DEF Serve, IInv, Mails, Mail, InfoOf, PortOf
  <1>7. Lists'
    BY <1>2 DEF Serve, IInv, Lists, Registered, PortOf
  <1> QED
    BY <1>1, <1>3, <1>4, <1>5, <1>6, <1>7 DEF IInv

-----------------------------------------------------------------------------
(* A worker.                                                                 *)

\* A worker's step leaves the others and the driver as they are.
LEMMA Elsewhere ==
    ASSUME IInv, NEW w \in Workers,
           UNCHANGED <<start_port, at, port, workers, unallocated_workers>>,
           Enter(w) \/ UNCHANGED entered,
           commands' \in [Workers -> Seq({"START", "SEND_INFO"})], DOMAIN threads' = Workers,
           DOMAIN mail' = Workers,
           \A v \in Workers : v # w => /\ commands'[v] = commands[v] /\ threads'[v] = threads[v]
                                       /\ mail'[v] = mail[v],
           Place(w)', Mail(w)'
    PROVE  IInv'
  <1>1. /\ entered' \in [Processes -> Nat] /\ entered'[Driver] = entered[Driver]
        /\ \A v \in Workers : v # w => entered'[v] = entered[v]
    <2>1. entered \in [Processes -> Nat] /\ w \in Processes /\ Driver # w
      BY WhoIs DEF IInv, Forms
    <2>2. CASE Enter(w)
      BY SMTT(30), <2>1, <2>2, WhoIs, EnterIs
    <2> QED
      BY <2>1, <2>2
  <1>2. Calls' = Calls /\ Barriers' = Barriers
    BY DEF Calls, Barriers
  <1>3. Forms'
    BY <1>1, <1>2 DEF IInv, Forms
  <1>4. Listening'
    BY DEF IInv, Listening, PortInRange, PortOf
  <1>5. Places'
    <2>1. ASSUME NEW v \in Workers, v # w
          PROVE  Place(v)'
      BY <1>1, <1>2, <2>1 DEF IInv, Places, Place, NoneTaken, StartTaken, StartDone, InfoTaken, InfoDone
    <2> QED
      BY <2>1 DEF Places
  <1>6. Mails'
    <2>1. ASSUME NEW v \in Workers, v # w
          PROVE  Mail(v)'
      BY <1>1, <2>1 DEF IInv, Mails, Mail, InfoOf, PortOf
    <2> QED
      BY <2>1 DEF Mails
  <1>7. Lists'
    BY <1>2 DEF IInv, Lists, Registered, PortOf
  <1>8. at'[Driver] = "accept_connection" => Met(2)'
    BY WhoIs, MetStays DEF IInv, Forms
  <1> QED
    BY <1>3, <1>4, <1>5, <1>6, <1>7, <1>8 DEF IInv

LEMMA WaitForCommandInv ==
    ASSUME IInv, NEW w \in Workers, WaitForCommand(w)
    PROVE  IInv'
  <1>1. /\ at[w] = "wait_for_command" /\ commands[w] # <<>>
        /\ UNCHANGED <<start_port, at, port, entered, mail, workers, unallocated_workers>>
        /\ commands' \in [Workers -> Seq({"START", "SEND_INFO"})]
        /\ DOMAIN threads' = Workers /\ DOMAIN mail' = Workers
        /\ threads'[w] = Append(threads[w], [c |-> Head(commands[w]), barrier |-> 0])
        /\ commands'[w] = Tail(commands[w])
        /\ \A v \in Workers : v # w => commands'[v] = commands[v] /\ threads'[v] = threads[v]
    BY DEF WaitForCommand, IInv, Forms
  <1>2. Calls' = Calls
    BY <1>1 DEF Calls
  <1>3. \/ NoneTaken(w) /\ Calls = 1
        \/ StartDone(w) /\ Calls = 2
    BY <1>1, WhoIs DEF IInv, Places, Place, NoneTaken, StartTaken, StartDone, InfoTaken, InfoDone, Calls
  <1>4. Place(w)'
    <2>1. CASE NoneTaken(w) /\ Calls = 1
      <3>1. threads[w] = <<>> /\ commands[w] = <<"START">> /\ entered[w] = 0
        BY <2>1 DEF NoneTaken
      <3>2. threads'[w] = <<Starting>> /\ commands'[w] = <<>>
        BY <1>1, <3>1, OfOneOrTwo DEF Starting
      <3> QED
        BY <1>1, <1>2, <2>1, <3>1, <3>2 DEF Place, StartTaken, Starting
    <2>2. CASE StartDone(w) /\ Calls = 2
      <3>1. threads[w] \in {<<>>, <<Started>>} /\ commands[w] = <<"SEND_INFO">> /\ entered[w] = 1
        BY <2>2 DEF StartDone
      <3>2. threads'[w] \in {<<Informing>>, <<Started, Informing>>} /\ commands'[w] = <<>>
        <4>1. commands'[w] = <<>> /\ Head(commands[w]) = "SEND_INFO"
          BY <1>1, <3>1, OfOneOrTwo
        <4>2. threads'[w] = Append(threads[w], Informing)
          BY <1>1, <4>1 DEF Informing
        <4>3. /\ Append(<<>>, Informing) = <<Informing>>
              /\ Append(<<Started>>, Informing) = <<Started, Informing>>
          BY OfOneOrTwo
        <4> QED
          BY <3>1, <4>1, <4>2, <4>3
      <3> QED
        BY <1>1, <1>2, <2>2, <3>1, <3>2 DEF Place, InfoTaken, Started, Informing
    <2> QED
      BY <1>3, <2>1, <2>2
  <1>5. Mail(w)'
    BY <1>1 DEF IInv, Mails, Mail, InfoOf, PortOf
  <1> QED
    BY <1>1, <1>4, <1>5, Elsewhere

\* What a thread's step does to its worker alone.
LEMMA ThreadIs ==
    ASSUME IInv, NEW w \in Workers, NEW t \in DOMAIN threads[w],
           HandleCommand(w, t) \/ EndCommand(w, t)
    PROVE  /\ UNCHANGED <<start_port, at, port, workers, unallocated_workers, commands>>
           /\ Enter(w) \/ UNCHANGED entered
           /\ DOMAIN threads' = Workers /\ DOMAIN mail' = Workers
           /\ commands' \in [Workers -> Seq({"START", "SEND_INFO"})]
           /\ \A v \in Workers : v # w => /\ commands'[v] = commands[v] /\ threads'[v] = threads[v]
                                          /\ mail'[v] = mail[v]
           /\ Calls' = Calls
  <1>1. /\ UNCHANGED <<start_port, at, port, workers, unallocated_workers, commands>>
        /\ Enter(w) \/ UNCHANGED entered
    BY DEF HandleCommand, EndCommand
  <1>2. /\ DOMAIN threads' = Workers /\ DOMAIN mail' = Workers
        /\ \A v \in Workers : v # w => threads'[v] = threads[v] /\ mail'[v] = mail[v]
    BY DEF HandleCommand, EndCommand, IInv, Forms
  <1>3. Calls' = Calls
    BY <1>1 DEF Calls
  <1> QED
    BY <1>1, <1>2, <1>3 DEF IInv, Forms

LEMMA HandleCommandInv ==
    ASSUME IInv, NEW w \in Workers, NEW t \in DOMAIN threads[w], HandleCommand(w, t)
    PROVE  IInv'
  <1>1. /\ threads[w][t].barrier = 0
        /\ entered'[w] = entered[w] + 1 /\ entered[w] \in Nat
        /\ threads'[w] = [threads[w] EXCEPT ![t].barrier = entered[w] + 1]
        /\ mail'[w] = IF threads[w][t].c = "SEND_INFO"
                      THEN mail[w] \o Text(Hostname[w]) \o Text(AnyAddress) \o <<port[w]>> ELSE mail[w]
    BY WhoIs, EnterIs DEF HandleCommand, IInv, Forms
  <1>2. Place(w) /\ Mail(w)
    BY DEF IInv, Places, Mails
  <1>3. \/ StartTaken(w) /\ Calls = 1 /\ t = 1
        \/ InfoTaken(w) /\ Calls = 2 /\ threads[w] = <<Informing>> /\ t = 1
        \/ InfoTaken(w) /\ Calls = 2 /\ threads[w] = <<Started, Informing>> /\ t = 2
    <2>1. /\ Starting.barrier = 0 /\ Started.barrier = 1 /\ Informing.barrier = 0 /\ Informed.barrier = 2
          /\ <<>> = threads[w] => t \in {}
      BY DEF Starting, Started, Informing, Informed
    <2>2. \A a, b : /\ threads[w] = <<a>> => t = 1 /\ a.barrier = 0
                    /\ threads[w] = <<a, b>> => (t = 1 /\ a.barrier = 0) \/ (t = 2 /\ b.barrier = 0)
      BY <1>1
    <2> QED
      BY <1>2, <2>1, <2>2 DEF Place, NoneTaken, StartTaken, StartDone, InfoTaken, InfoDone
  <1>4. at[w] = "wait_for_command" /\ port[w] = PortOf(w)
    BY <1>2, <1>3, WhoIs DEF Place, IInv, Listening, NoneTaken, StartTaken, InfoTaken, Absent
  <1>5. CASE StartTaken(w) /\ Calls = 1 /\ t = 1
    <2>1. threads[w] = <<Starting>> /\ entered[w] = 0 /\ commands[w] = <<>>
      BY <1>5 DEF StartTaken
    <2>2. threads'[w] = <<Started>> /\ entered'[w] = 1 /\ mail'[w] = mail[w]
      BY <1>1, <1>5, <2>1 DEF Starting, Started
    <2>3. Place(w)'
      BY <1>4, <1>5, <2>1, <2>2, ThreadIs DEF Place, StartDone
    <2>4. Mail(w)'
      BY <1>2, <2>1, <2>2, ThreadIs DEF Mail
    <2> QED
      BY <2>3, <2>4, ThreadIs, Elsewhere
  <1>6. CASE InfoTaken(w) /\ Calls = 2 /\ threads[w] \in {<<Informing>>, <<Started, Informing>>}
             /\ t = IF threads[w] = <<Informing>> THEN 1 ELSE 2
    <2>1. entered[w] = 1 /\ commands[w] = <<>> /\ threads[w][t] = Informing
      BY <1>6 DEF InfoTaken
    <2>2. threads'[w] \in {<<Informed>>, <<Started, Informed>>} /\ entered'[w] = 2
      BY <1>1, <1>6, <2>1 DEF Informing, Informed
    <2>3. Place(w)'
      BY <1>4, <1>6, <2>1, <2>2, ThreadIs DEF Place, InfoDone
    <2>4. mail'[w] = InfoOf(w)
      <3>1. mail[w] = <<>>
        BY <1>2, <2>1 DEF Mail
      <3>2. Informing.c = "SEND_INFO"
        BY DEF Informing
      <3> QED
        BY <1>1, <1>4, <2>1, <3>1, <3>2, InfoIs
    <2>5. w > Len(unallocated_workers)
      <3>1. ~ (w <= Len(unallocated_workers))
        BY <1>2, <2>1 DEF Mail
      <3>2. Len(unallocated_workers) \in Nat /\ w \in Nat
        <4>1. Len(unallocated_workers) \in 0 .. NumWorkers
          BY DEF IInv, Lists
        <4> QED
          BY <4>1, WhoIs
      <3> QED
        BY <3>1, <3>2
    <2>6. Mail(w)'
      BY <2>2, <2>4, <2>5, ThreadIs DEF Mail, InfoOf, PortOf
    <2> QED
      BY <2>3, <2>6, ThreadIs, Elsewhere
  <1> QED
    BY <1>3, <1>5, <1>6

LEMMA EndCommandInv ==
    ASSUME IInv, NEW w \in Workers, NEW t \in DOMAIN threads[w], EndCommand(w, t)
    PROVE  IInv'
  <1>1. /\ threads[w][t].barrier > 0 /\ threads'[w] = RemoveAt(threads[w], t)
        /\ entered' = entered /\ mail' = mail
    BY DEF EndCommand, IInv, Forms
  <1>2. Place(w) /\ Mail(w)
    BY DEF IInv, Places, Mails
  <1>3. Mail(w)'
    BY <1>1, <1>2, ThreadIs DEF Mail, InfoOf, PortOf
  <1>4. /\ Starting.barrier = 0 /\ Started.barrier = 1 /\ Informing.barrier = 0 /\ Informed.barrier = 2
    BY DEF Starting, Started, Informing, Informed
  <1>5. ASSUME NEW a, threads[w] = <<a>>
        PROVE  a.barrier > 0 /\ threads'[w] = <<>>
    <2>1. t = 1 /\ threads[w][t] = a
      BY <1>5, OfOneOrTwo
    <2> QED
      BY <1>1, <1>5, <2>1, RemoveIs
  <1>6. ASSUME NEW a, NEW b, threads[w] = <<a, b>>
        PROVE  \/ a.barrier > 0 /\ threads'[w] = <<b>>
               \/ b.barrier > 0 /\ threads'[w] = <<a>>
    <2>1. CASE t = 1
      <3>1. threads[w][t] = a /\ threads'[w] = RemoveAt(<<a, b>>, 1)
        BY <1>1, <1>6, <2>1
      <3>2. RemoveAt(<<a, b>>, 1) = <<b>>
        BY RemoveIs
      <3> QED
        BY <1>1, <3>1, <3>2
    <2>2. CASE t = 2
      <3>1. threads[w][t] = b /\ threads'[w] = RemoveAt(<<a, b>>, 2)
        BY <1>1, <1>6, <2>2
      <3>2. RemoveAt(<<a, b>>, 2) = <<a>>
        BY RemoveIs
      <3> QED
        BY <1>1, <3>1, <3>2
    <2>3. t = 1 \/ t = 2
      BY <1>6, OfOneOrTwo
    <2> QED
      BY <2>1, <2>2, <2>3
  <1>7. /\ threads[w] # <<>>
        /\ threads[w] = <<Started, Informing>> => threads'[w] = <<Informing>>
        /\ threads[w] = <<Started, Informed>> => threads'[w] \in {<<Started>>, <<Informed>>}
        /\ threads[w] # <<Starting>> /\ threads[w] # <<Informing>>
    <2>1. threads[w] # <<>>
      OBVIOUS
    <2>2. threads[w] = <<Started, Informing>> => threads'[w] = <<Informing>>
      BY <1>4, <1>6
    <2>3. threads[w] = <<Started, Informed>> => threads'[w] \in {<<Started>>, <<Informed>>}
      BY <1>6
    <2>4. threads[w] # <<Starting>> /\ threads[w] # <<Informing>>
      BY <1>4, <1>5
    <2> QED
      BY <2>1, <2>2, <2>3, <2>4
  <1>8. Place(w)'
    BY <1>1, <1>2, <1>5, <1>7, ThreadIs DEF Place, NoneTaken, StartTaken, StartDone, InfoTaken, InfoDone
  <1> QED
    BY <1>3, <1>8, ThreadIs, Elsewhere

-----------------------------------------------------------------------------
(* The theorem.                                                              *)
LEMMA NextInv ==
    ASSUME IInv, [Next]_vars
    PROVE  IInv'
  <1>1. CASE Next
    BY <1>1, MainInv, StartWorkersInv, RegisterWorkersInv, RegisterWorkerInv, AllRegisteredInv, ServeInv,
       WaitForCommandInv, HandleCommandInv, EndCommandInv DEF Next, DriverStep, ThreadStep
  <1>2. CASE UNCHANGED vars
    BY <1>2 DEF vars, IInv, Forms, Listening, Places, Place, Mails, Mail, Lists, NoneTaken, StartTaken,
       StartDone, InfoTaken, InfoDone, Calls, Barriers, Met, InfoOf, Registered, PortOf, PortInRange
  <1> QED
    BY <1>1, <1>2

\* The driver knows each worker as it is: by the name of its host, its own port and no
\* other process's, and as free.
KnownAsTheyAre ==
    /\ unallocated_workers = [w \in Workers |-> w]
    /\ workers = [w \in Workers |-> [ID |-> w, hostname |-> Hostname[w],
                                     address |-> AnyAddress, port |-> start_port + w]]
    /\ \A w \in Workers : port[w] = start_port + w
    /\ \A p, q \in Processes : p # q => port[p] # port[q]

\* Every worker waits for commands; no message of the start is on its way, and what
\* threads of the start are left have been let go of their barriers.
StartIsOver ==
    \A w \in Workers :
        /\ at[w] = "wait_for_command" /\ commands[w] = <<>> /\ mail[w] = <<>>
        /\ \A t \in DOMAIN threads[w] : threads[w][t].barrier > 0 /\ Met(threads[w][t].barrier)

LEMMA ServingIsReady ==
    ASSUME IInv, at[Driver] = "accept_connection"
    PROVE  KnownAsTheyAre /\ StartIsOver
  <1>1. Calls = 2 /\ Barriers = 2 /\ Met(2) /\ PortInRange
    BY WhoIs DEF Calls, Barriers, IInv, Listening, Absent
  <1>2. Met(1)
    BY <1>1 DEF Met, IInv, Forms
  <1>3. ASSUME NEW w \in Workers
        PROVE  InfoDone(w) /\ at[w] = "wait_for_command"
    <2>1. entered[w] >= 2 /\ Place(w)
      BY <1>1, WhoIs DEF Met, IInv, Places
    <2> QED
      BY <1>1, <2>1 DEF Place, NoneTaken, StartDone, StartTaken, InfoTaken
  <1>4. Len(unallocated_workers) = NumWorkers /\ 1 .. NumWorkers = Workers
    BY <1>1 DEF IInv, Lists, Workers
  <1>5. ASSUME NEW w \in Workers
        PROVE  commands[w] = <<>> /\ mail[w] = <<>>
    BY <1>3, <1>4, WhoIs DEF InfoDone, IInv, Mails, Mail, Workers
  <1>6. ASSUME NEW w \in Workers, NEW t \in DOMAIN threads[w]
        PROVE  threads[w][t].barrier \in {1, 2}
    <2>1. Started.barrier = 1 /\ Informed.barrier = 2
      BY DEF Started, Informed
    <2>2. threads[w] \in {<<>>, <<Started>>, <<Informed>>, <<Started, Informed>>}
      BY <1>3 DEF InfoDone
    <2> QED
      BY <2>1, <2>2
  <1>7. ASSUME NEW p \in Processes
        PROVE  PortOf(p) = start_port + p
    <2>1. start_port \in Int /\ NumWorkers \in Nat /\ p \in 0 .. NumWorkers
      BY WhoIs DEF IInv, Forms
    <2>2. start_port >= 1024 /\ start_port <= 65535 - (NumWorkers + 1) + 1
      BY <1>1 DEF PortInRange, MaxPort
    <2>3. start_port + p \in Nat /\ start_port + p < 65536
      BY <2>1, <2>2
    <2>4. \A x \in Nat : x < 65536 => x % 65536 = x
      OBVIOUS
    <2> QED
      BY <2>3, <2>4 DEF PortOf, MaxPort
  <1>8. ASSUME NEW p \in Processes
        PROVE  port[p] = start_port + p
    BY <1>3, <1>7, WhoIs DEF IInv, Listening, Absent
  <1>9. KnownAsTheyAre
    <2>1. unallocated_workers = [w \in Workers |-> w]
      BY <1>4 DEF IInv, Lists
    <2>2. workers = [w \in Workers |-> Registered(w)]
      BY <1>4 DEF IInv, Lists
    <2>3. \A w \in Workers : Registered(w) = [ID |-> w, hostname |-> Hostname[w],
                                             address |-> AnyAddress, port |-> start_port + w]
      BY <1>7, WhoIs DEF Registered
    <2>4. \A p, q \in Processes : p # q => port[p] # port[q]
      BY <1>8, WhoIs DEF IInv, Forms
    <2> QED
      BY <1>8, <2>1, <2>2, <2>3, <2>4, WhoIs DEF KnownAsTheyAre
  <1>10. StartIsOver
    BY <1>1, <1>2, <1>3, <1>5, <1>6 DEF StartIsOver
  <1> QED
    BY <1>9, <1>10

(* Whenever the driver serves, its list of workers is the workers as they    *)
(* are, each free and on a port of its own, and the start is over in each of *)
(* them: no broadcast or message is left over for what comes next, and its   *)
(* threads have nothing left to do but end.  That is the safety half of what *)
(* ServesOrEnds promises, here for any number of workers, every port that is *)
(* allowed, and whichever processes do not start.                            *)
THEOREM ServesWhenReady ==
    Spec => [](at[Driver] = "accept_connection" => KnownAsTheyAre /\ StartIsOver)
  <1>1. IInv => (at[Driver] = "accept_connection" => KnownAsTheyAre /\ StartIsOver)
    BY ServingIsReady
  <1> QED
    BY <1>1, InitInv, NextInv, PTL DEF Spec

(* Once the threads of the start have ended too, the job is Ready.           *)
THEOREM EndsReady ==
    Spec => [](at[Driver] = "accept_connection" /\ (\A w \in Workers : threads[w] = <<>>) => Ready)
  <1>1. IInv => (at[Driver] = "accept_connection" /\ (\A w \in Workers : threads[w] = <<>>) => Ready)
    BY ServingIsReady DEF KnownAsTheyAre, StartIsOver, Ready
  <1> QED
    BY <1>1, InitInv, NextInv, PTL DEF Spec
=============================================================================
